---------------------------- MODULE Prefetch ----------------------------
(***************************************************************************)
(* Reading ahead in a corpus (corpus/prefetch.rs): a producer thread takes *)
(* sentences from the reader and sends them in batches over a bounded      *)
(* channel, and the iterator that the trainers loop over receives them.    *)
(* Dropping the iterator stops the producer, drains the channel to free it *)
(* from a send, and joins it.  A reader that panics is caught and sent as  *)
(* an error, which ends the loop like the end of the corpus does.          *)
(*                                                                         *)
(* The receiver lives until the producer is joined, so a send never finds  *)
(* it gone and a receive never finds the sender gone: those two branches   *)
(* have no action here.                                                    *)
(***************************************************************************)
EXTENDS Naturals, Sequences, SequencesExt, FiniteSetsExt

CONSTANTS
    Setups   \* records: the corpus, a sequence of sentences; panicsAt, the
             \* sentence at which the reader panics, or 0; batchSize; and
             \* buffer, the batches to read ahead that are asked for

ASSUME SetupsAssumption ==
    \A s \in Setups :
        /\ s.corpus \in Seq(Range(s.corpus))
        /\ {s.panicsAt, s.batchSize, s.buffer} \subseteq Nat

VARIABLES
    setup,
    producer,    \* its step, the sentences it has read and its batch
    channel,     \* the messages that are sent and not received
    stopSignal,
    consumer,    \* the step of the iterator
    seen         \* the sentences that the iterator has yielded

prefetchVars == <<producer, channel, stopSignal, consumer, seen>>

Corpus == setup.corpus


\* Mutant of Capacity: one batch is buffer enough.
CapacityOfOne == Max({1, Min({setup.buffer, 64})})

\* What is asked for, or what the memory allows, is at least two batches.
Capacity == Max({2, Min({setup.buffer, 64})})

Batch(sentences) == [type |-> "Batch", batch |-> sentences]
Done  == [type |-> "Done", batch |-> <<>>]
Error == [type |-> "Error", batch |-> <<>>]

\* A reader is wrapped: with_config() spawns the producer, and batches()
\* makes the iterator.
Fresh ==
    [producer |-> [pc |-> "read", pos |-> 0, batch |-> <<>>],
     channel |-> <<>>, stopSignal |-> FALSE, consumer |-> "next", seen |-> <<>>]

PrefetchInit ==
    /\ setup \in Setups
    /\ producer = Fresh.producer
    /\ channel = Fresh.channel
    /\ stopSignal = Fresh.stopSignal
    /\ consumer = Fresh.consumer
    /\ seen = Fresh.seen

PrefetchAgain ==
    /\ producer' = Fresh.producer
    /\ channel' = Fresh.channel
    /\ stopSignal' = Fresh.stopSignal
    /\ consumer' = Fresh.consumer
    /\ seen' = Fresh.seen

-----------------------------------------------------------------------------
(* The producer.                                                           *)

Producing(pc) == producer.pc = pc /\ UNCHANGED <<setup, stopSignal, consumer, seen>>

HasSentence == producer.pos < Len(Corpus) /\ setup.panicsAt # producer.pos + 1

ReadSentence ==
    /\ Producing("read")
    /\ HasSentence
    /\ LET batch == Append(producer.batch, Corpus[producer.pos + 1])
       IN  producer' = IF stopSignal
                       THEN [producer EXCEPT !.pc = "last", !.pos = @ + 1]
                       ELSE [pc |-> IF Len(batch) >= setup.batchSize
                                    THEN "send" ELSE "read",
                             pos |-> producer.pos + 1, batch |-> batch]
    /\ UNCHANGED channel

EndOfCorpus ==
    /\ Producing("read")
    /\ producer.pos = Len(Corpus)
    /\ producer' = [producer EXCEPT !.pc = "last"]
    /\ UNCHANGED channel

\* The batch that is being filled is lost with the closure.
ReaderPanics ==
    /\ Producing("read")
    /\ setup.panicsAt = producer.pos + 1
    /\ producer' = [producer EXCEPT !.pc = "error", !.batch = <<>>]
    /\ UNCHANGED channel



Send(message, next) ==
    /\ Len(channel) < Capacity
    /\ channel' = Append(channel, message)
    /\ producer' = [producer EXCEPT !.pc = next, !.batch = <<>>]



\* Mutant of SendBatch: a batch that finds no room is dropped.
TrySendBatch ==
    /\ Producing("send")
    /\ channel' = IF Len(channel) < Capacity
                  THEN Append(channel, Batch(producer.batch)) ELSE channel
    /\ producer' = [producer EXCEPT !.pc = "read", !.batch = <<>>]

SendBatch == Producing("send") /\ Send(Batch(producer.batch), "read")


CheckLast ==
    /\ Producing("last")
    /\ producer' = IF producer.batch # <<>> /\ ~ stopSignal
                   THEN [producer EXCEPT !.pc = "sendLast"]
                   ELSE [producer EXCEPT !.pc = "done", !.batch = <<>>]
    /\ UNCHANGED channel

SendLast  == Producing("sendLast") /\ Send(Batch(producer.batch), "done")
SendDone  == Producing("done") /\ Send(Done, "ended")
SendError == Producing("error") /\ Send(Error, "ended")

Produce ==
    \/ ReadSentence
    \/ EndOfCorpus
    \/ ReaderPanics
    \/ SendBatch
    \/ CheckLast
    \/ SendLast
    \/ SendDone
    \/ SendError

-----------------------------------------------------------------------------
(* The iterator.                                                           *)

\* next() yields a batch.
Receive ==
    /\ consumer = "next"
    /\ channel # <<>>
    /\ Head(channel).type = "Batch"
    /\ channel' = Tail(channel)
    /\ consumer' = "busy"
    /\ seen' = seen \o Head(channel).batch
    /\ UNCHANGED <<setup, producer, stopSignal>>

\* The body of the loop is through with it.
Proceed == consumer = "busy" /\ consumer' = "next"

\* next() yields nothing more, and the loop drops the iterator.
ReceiveEnd ==
    /\ consumer = "next"
    /\ channel # <<>>
    /\ Head(channel).type # "Batch"
    /\ channel' = Tail(channel)
    /\ consumer' = "drop"
    /\ UNCHANGED <<setup, producer, stopSignal, seen>>

\* A panic in the loop drops it as well.
Unwind == consumer = "busy" /\ consumer' = "drop"

SignalStop ==
    /\ consumer = "drop"
    /\ stopSignal' = TRUE
    /\ consumer' = "drain"
    /\ UNCHANGED <<setup, producer, channel, seen>>

Drain ==
    /\ consumer = "drain"
    /\ IF channel # <<>>
       THEN channel' = Tail(channel) /\ UNCHANGED consumer
       ELSE consumer' = "join" /\ UNCHANGED channel
    /\ UNCHANGED <<setup, producer, stopSignal, seen>>

Join ==
    /\ consumer = "join"
    /\ producer.pc = "ended"
    /\ consumer' = "gone"
    /\ UNCHANGED <<setup, producer, channel, stopSignal, seen>>

Drop == SignalStop \/ Drain \/ Join

-----------------------------------------------------------------------------
Sent == FlattenSeq([i \in DOMAIN channel |-> channel[i].batch])

PrefetchTypeOK ==
    /\ setup \in Setups
    /\ producer.pc \in {"read", "send", "last", "sendLast", "done", "error", "ended"}
    /\ producer.pos \in 0 .. Len(Corpus)
    /\ Len(producer.batch) <= Max({1, setup.batchSize})
    /\ Len(channel) <= Capacity
    /\ stopSignal \in BOOLEAN
    /\ consumer \in {"next", "busy", "drop", "drain", "join", "gone"}

\* As long as the loop runs, no sentence is lost, doubled or out of order on
\* its way from the reader through the batches and the channel: what
\* producer_loop() fills and PrefetchBatchIterator::next() yields.  A reader
\* that panics loses what is in its batch, and what is yielded is then only
\* the beginning of the corpus.
CorpusInOrder ==
    /\ ~ stopSignal /\ producer.pc # "error" /\ setup.panicsAt = 0 =>
           seen \o Sent \o producer.batch = SubSeq(Corpus, 1, producer.pos)
    /\ IsPrefix(seen, Corpus)
=============================================================================
