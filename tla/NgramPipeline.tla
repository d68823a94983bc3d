--------------------------- MODULE NgramPipeline ---------------------------
(***************************************************************************)
(* The data path of an import: the lines of a file are parsed, filtered    *)
(* and summed over the years (parser.rs, reader.rs, aggregator.rs), stored *)
(* under keys of vocabulary indices in one trie or in the shard they are   *)
(* routed to (storage.rs, worker_pool.rs), counted for Kneser-Ney          *)
(* smoothing (importer/mkn.rs, sharding/mkn.rs) and merged into one output *)
(* (importer/finalize.rs, sharding/merge.rs).                              *)
(*                                                                         *)
(* Durability and open shards are left to ShardSync and ShardSet: here     *)
(* what is stored stays, whatever way a session ends.                      *)
(***************************************************************************)
EXTENDS NgramKeys, ShardRouting, FiniteSets, Functions

CONSTANTS
    Files,        \* the files of the corpus
    OrderOf,      \* the order of its n-grams
    Tagged,       \* the words that contain an underscore
    Workers,
    Setups,       \* the inputs and configurations to start with
    MaxAttempts,  \* max_retries of a job
    MaxOrder,     \* 5 in the code
    MaxSessions,  \* bound: how often the import is started
    None

\* A line of a file.  kind is "empty", "bad" (it does not parse) or "ok".
Lines == [kind : {"empty", "bad", "ok"}, ngram : Seq(Words), year : Nat,
          count : Nat]

NgramsOf(input, f) ==
    {input[f][i].ngram : i \in {j \in DOMAIN input[f] : input[f][j].kind = "ok"}}

\* What Google Books promises: an n-gram is in one file, its lines together.
Grouped(input) ==
    /\ \A f \in Files : \A i, j \in DOMAIN input[f] :
          input[f][i].kind = "ok" /\ input[f][i].ngram = input[f][j].ngram =>
              \A k \in i .. j : input[f][k].kind = "ok" =>
                  input[f][k].ngram = input[f][i].ngram
    /\ \A f \in Files : \A g \in NgramsOf(input, f) : Len(g) = OrderOf[f]
    /\ \A f, e \in Files :
          e # f => NgramsOf(input, e) \cap NgramsOf(input, f) = {}

(* names: the prefix in the name of a file, as letters.                    *)
(* granularity is None for the single trie.  chunk: tx_chunk_size, 0 for   *)
(* one transaction.  cpus: what the machine may have when a session starts.*)
(* errors: may connections fail, may sessions end early, may shards fail   *)
(* to open?  follow: with_continuations.                                   *)
ASSUME SetupsAssumption ==
    \A s \in Setups :
        /\ s.granularity \in Granularities \cup {None}
        /\ s.input \in [Files -> Seq(Lines)] /\ Grouped(s.input)
        /\ s.names \in [Files -> Seq(STRING)]
        /\ s.minCount \in Nat /\ s.years \subseteq Nat
        /\ s.skipTags \in BOOLEAN /\ s.chunk \in Nat
        /\ s.cpus \subseteq Nat \ {0} /\ IsFiniteSet(s.cpus)
        /\ s.keepShards \in BOOLEAN
        /\ s.errors \subseteq {"job", "session", "shard"} /\ s.follow \in BOOLEAN

\* It counts an n-gram of a line at least once; a filter would see to it too.
ASSUME CountsAssumption ==
    \A s \in Setups : \A f \in Files : \A i \in DOMAIN s.input[f] :
        s.input[f][i].kind = "ok" /\ s.input[f][i].count >= s.minCount =>
            s.input[f][i].count > 0

ASSUME NumbersAssumption ==
    /\ MaxAttempts \in Nat \ {0} /\ MaxOrder \in Nat \ {0}
    /\ MaxSessions \in Nat \ {0}
    /\ \A f \in Files : OrderOf[f] \in 1 .. MaxOrder

\* Indices are u64, and ten groups hold any u64.
ASSUME VocabularyFits ==
    /\ IsFiniteSet(Words)
    /\ \A index \in 1 .. Cardinality(Words) : Len(EncodeVarint(index)) <= MaxGroups

VARIABLES
    setup,
    cpus,         \* available_parallelism in this session
    vocab,        \* the vocabulary
    shards,       \* the shards on disk by key, or the trie under <<>>
    outcome,      \* the ledger: what became of each file
    mknPhase,     \* the ledger: have the statistics been computed?
    attempts,     \* of each file in this session
    begun,        \* of each file in all sessions
    job,          \* the file a worker imports, and how far it is
    phase,        \* where the import is
    interrupted,  \* the flag that interrupt() sets
    cancelled,    \* what the counting threads share
    todo,         \* the shards a pass has yet to visit
    order,        \* the order of the continuation pass
    freq,         \* frequency counts by order
    pairs,        \* pairs of a context and what precedes or follows it
    unread,       \* the shards that a pass has skipped
    opened,       \* has this session a shard open?
    stats,        \* the statistics that were written
    output,       \* the merged trie
    session

importing == <<outcome, attempts, begun, job>>
counting  == <<interrupted, cancelled, todo, order, freq, pairs, unread>>
vars == <<setup, cpus, vocab, shards, opened, importing, mknPhase, phase,
          counting, stats, output, session>>

IsSharded == setup.granularity # None

Phases == {"importing", "counting", "following", "saving", "saved", "finished",
           "merging", "ended", "over"}

-----------------------------------------------------------------------------
(* Tries: functions from keys to counts.  The metadata of a trie, under    *)
(* keys that start with a 0 byte, is one entry.                            *)

Metadata == <<0>>
NewTrie  == [key \in {Metadata} |-> 1]

Put(fun, x, value) ==
    [y \in DOMAIN fun \cup {x} |-> IF y = x THEN value ELSE fun[y]]

Overlaid(fun, under) ==
    [y \in DOMAIN fun \cup DOMAIN under |->
        IF y \in DOMAIN fun THEN fun[y] ELSE under[y]]

CountIn(trie, key) == IF key \in DOMAIN trie THEN trie[key] ELSE 0

\* increment_cas, increment_bytes
Incremented(trie, key, n) == Put(trie, key, CountIn(trie, key) + n)

Shard(k) == IF k \in DOMAIN shards THEN shards[k] ELSE NewTrie

\* The entries that the passes over a trie look at.
Ngrams(trie) == {key \in DOMAIN trie : key[1] # 0}

-----------------------------------------------------------------------------
(* Reading a file.                                                         *)

Accepted(line) ==
    /\ line.kind = "ok"
    /\ line.count >= setup.minCount
    /\ ~(setup.skipTags /\ \E i \in DOMAIN line.ngram : line.ngram[i] \in Tagged)
    /\ line.year \in setup.years

NoRecord == [ngram |-> <<>>, total |-> 0]

Record(line) == [ngram |-> line.ngram, total |-> line.count]

NoFreq == [n |-> [i \in 1 .. 4 |-> 0], unique |-> 0, total |-> 0]

Init ==
    /\ setup \in Setups
    /\ cpus \in setup.cpus
    /\ vocab = <<>>
    /\ shards = IF IsSharded THEN <<>> ELSE [k \in {<<>>} |-> NewTrie]
    /\ outcome = [f \in Files |-> "todo"]
    /\ mknPhase = "NotStarted"
    /\ attempts = [f \in Files |-> 0]
    /\ begun = [f \in Files |-> 0]
    /\ job = [w \in Workers |-> None]
    /\ phase = "importing"
    /\ interrupted = FALSE
    /\ cancelled = FALSE
    /\ todo = {}
    /\ order = 0
    /\ freq = [o \in 0 .. MaxOrder |-> NoFreq]
    /\ pairs = {}
    /\ unread = {}
    /\ opened = FALSE
    /\ stats = None
    /\ output = None
    /\ session = 1

-----------------------------------------------------------------------------
(* Storing.                                                                *)

\* begin_prefix_tx: only under a granularity by prefixes.
HasTx == IsSharded /\ ~IsHashBased(setup.granularity)

TxShard(f) == KeyOfFile(setup.names[f], OrderOf[f], setup.granularity, cpus)

RouteOf(words) ==
    IF IsSharded THEN RouteTokens(words, setup.granularity, cpus) ELSE <<>>

\* The pending writes of a transaction replace what the shard has.
CommitTx(f, tx) ==
    shards' = Put(shards, TxShard(f), Overlaid(tx, Shard(TxShard(f))))

\* A shard does not open; the one that was may have been evicted for it.
CannotOpen == "shard" \in setup.errors /\ IsSharded /\ opened' \in {opened, FALSE}

ChunkIsFull(chunk) == setup.chunk > 0 /\ chunk >= setup.chunk

\* A record of j's stream is stored; j is the job without it.
Store(w, record, j) ==
    LET v   == WithWords(vocab, record.ngram)
        key == EncodeNgram(v, record.ngram)
        tx  == Put(j.tx, key, record.total)
    IN  /\ vocab' = v
        /\ \/ /\ HasTx
              /\ ~ChunkIsFull(j.chunk + 1)
              /\ job' = [job EXCEPT ![w] =
                            [j EXCEPT !.tx = tx, !.chunk = @ + 1]]
              /\ UNCHANGED <<shards, opened>>
           \/ /\ HasTx
              /\ ChunkIsFull(j.chunk + 1)
              /\ CommitTx(j.file, tx)
              /\ opened' = TRUE
              /\ job' = [job EXCEPT ![w] =
                            [j EXCEPT !.tx = <<>>, !.chunk = 0]]
           \/ /\ ~HasTx
              /\ LET k == RouteOf(record.ngram)
                 IN  shards' = Put(shards, k, Incremented(Shard(k), key, record.total))
              /\ opened' = (opened \/ IsSharded)
              /\ job' = [job EXCEPT ![w] = j]

-----------------------------------------------------------------------------
(* A worker and its file.                                                  *)

StartFile(w, f) ==
    /\ phase = "importing" /\ job[w] = None /\ outcome[f] = "todo"
    /\ job' = [job EXCEPT ![w] = [file |-> f, pos |-> 1, current |-> NoRecord,
                                  tx |-> <<>>, chunk |-> 0]]
    /\ outcome' = [outcome EXCEPT ![f] = "busy"]
    /\ attempts' = [attempts EXCEPT ![f] = @ + 1]
    /\ begun' = [begun EXCEPT ![f] = @ + 1]
    /\ IF HasTx THEN CommitTx(f, <<>>) ELSE UNCHANGED shards
    /\ opened' = (opened \/ HasTx)
    /\ UNCHANGED <<setup, cpus, vocab, mknPhase, phase, counting, stats, output,
                   session>>

Line(w) == setup.input[job[w].file][job[w].pos]

HasLine(w) == /\ job[w] # None
              /\ job[w].pos <= Len(setup.input[job[w].file])

Next1(w) == [job[w] EXCEPT !.pos = @ + 1]

SkipLine(w) ==
    /\ HasLine(w) /\ Line(w).kind # "bad" /\ ~Accepted(Line(w))
    /\ job' = [job EXCEPT ![w] = Next1(w)]
    /\ UNCHANGED <<vocab, shards, opened>>

SameNgram(record, line) == record.ngram = line.ngram

\* The aggregator adds a line to the current n-gram.
AddLine(w) ==
    /\ HasLine(w) /\ Accepted(Line(w))
    /\ SameNgram(job[w].current, Line(w))
    /\ job' = [job EXCEPT ![w] =
                  [Next1(w) EXCEPT !.current.total = @ + Line(w).count]]
    /\ UNCHANGED <<vocab, shards, opened>>

\* The first line of a file, or of another n-gram: the current one is stored.
NextNgram(w) ==
    /\ HasLine(w) /\ Accepted(Line(w))
    /\ ~SameNgram(job[w].current, Line(w))
    /\ LET j == [Next1(w) EXCEPT !.current = Record(Line(w))]
       IN  IF job[w].current = NoRecord
           THEN /\ job' = [job EXCEPT ![w] = j]
                /\ UNCHANGED <<vocab, shards, opened>>
           ELSE Store(w, job[w].current, j)

AtEnd(w) == job[w] # None /\ ~HasLine(w)

\* The aggregator is flushed when the lines are over.
Flush(w) ==
    /\ AtEnd(w) /\ job[w].current # NoRecord
    /\ Store(w, job[w].current, [job[w] EXCEPT !.current = NoRecord])

ReadFile(w) ==
    /\ phase = "importing"
    /\ SkipLine(w) \/ AddLine(w) \/ NextNgram(w) \/ Flush(w)
    /\ UNCHANGED <<setup, cpus, outcome, attempts, begun, mknPhase, phase,
                   counting, stats, output, session>>


\* Mutant of Flushed: the stream ends with the lines.
AtEndOnly(w) == AtEnd(w)

Flushed(w) == AtEnd(w) /\ job[w].current = NoRecord

FinishFile(w) ==
    /\ phase = "importing" /\ Flushed(w)
    /\ outcome' = [outcome EXCEPT ![job[w].file] = "done"]
    /\ job' = [job EXCEPT ![w] = None]
    /\ IF HasTx THEN CommitTx(job[w].file, job[w].tx) ELSE UNCHANGED shards
    /\ opened' = (opened \/ HasTx)
    /\ UNCHANGED <<setup, cpus, vocab, attempts, begun, mknPhase, phase,
                   counting, stats, output, session>>

\* A line that does not parse, the connection, a shard: the transaction is
\* aborted, what was stored before stays.
FailFile(w) ==
    /\ phase = "importing" /\ job[w] # None
    /\ \/ HasLine(w) /\ Line(w).kind = "bad" /\ UNCHANGED opened
       \/ "job" \in setup.errors /\ UNCHANGED opened
       \/ CannotOpen
    /\ LET f == job[w].file
       IN  outcome' = [outcome EXCEPT ![f] =
                          IF attempts[f] < MaxAttempts THEN "todo" ELSE "failed"]
    /\ job' = [job EXCEPT ![w] = None]
    /\ UNCHANGED <<setup, cpus, vocab, shards, attempts, begun, mknPhase, phase,
                   counting, stats, output, session>>

Import == \E w \in Workers : \/ \E f \in Files : StartFile(w, f)
                             \/ ReadFile(w) \/ FinishFile(w) \/ FailFile(w)

-----------------------------------------------------------------------------
(* Kneser-Ney statistics.                                                  *)

Observe(fc, n) ==
    [n      |-> [i \in 1 .. 4 |-> fc.n[i] + (IF n = i THEN 1 ELSE 0)],
     unique |-> fc.unique + 1,
     total  |-> fc.total + n]

\* Adds the counts of a shard, by order; those of the single trie under 0.
CountNgrams(fr, trie) ==
    FoldSet(LAMBDA key, acc :
                LET o == IF IsSharded THEN KeyOrder(key) ELSE 0
                IN  IF o > MaxOrder THEN acc
                    ELSE [acc EXCEPT ![o] = Observe(@, trie[key])],
            fr, Ngrams(trie))

\* What precedes and what follows a context, in the n-grams of an order.
PairsOf(trie, orders) ==
    UNION {LET g == DecodeKey(key)
               o == IF IsSharded THEN Len(g) ELSE 0
           IN  IF Len(g) \in orders /\ Len(g) >= 2
               THEN {<<"predecessor", o, EncodeIndices(Tail(g)), Head(g)>>,
                     <<"successor", o, EncodeIndices(Front(g)), Last(g)>>}
               ELSE {} : key \in Ngrams(trie)}

Contexts(ps) == {<<p[1], p[2], p[3]>> : p \in ps}

CountPairs(ps) ==
    [c \in Contexts(ps) |-> Cardinality({p \in ps : <<p[1], p[2], p[3]>> = c})]

StartFinalize ==
    /\ phase = "importing"
    /\ \A w \in Workers : job[w] = None
    /\ \A f \in Files : outcome[f] \in {"done", "failed"}
    /\ IF mknPhase = "Complete"
       THEN phase' = "finished" /\ UNCHANGED todo
       ELSE phase' = "counting" /\ todo' = DOMAIN shards
    /\ UNCHANGED <<setup, cpus, vocab, shards, opened, importing, mknPhase,
                   interrupted, cancelled, order, freq, pairs, unread, stats,
                   output, session>>

CountTrie ==
    /\ phase = "counting" /\ ~IsSharded
    /\ freq' = CountNgrams(freq, shards[<<>>])
    /\ pairs' = PairsOf(shards[<<>>], Nat)
    /\ phase' = "saving"
    /\ todo' = {}
    /\ UNCHANGED <<setup, cpus, vocab, shards, opened, importing, mknPhase,
                   interrupted, cancelled, order, unread, stats, output, session>>

\* A thread takes a shard, unless some thread has seen the flag.
CountShard(k) ==
    /\ phase = "counting" /\ IsSharded /\ k \in todo
    /\ todo' = todo \ {k}
    /\ cancelled' = (cancelled \/ interrupted)
    /\ freq' = IF cancelled' THEN freq ELSE CountNgrams(freq, shards[k])
    /\ opened' = (opened \/ ~cancelled')
    /\ UNCHANGED <<setup, cpus, vocab, shards, importing, mknPhase, phase,
                   interrupted, order, pairs, unread, stats, output, session>>

\* A shard that does not open is passed over, by either pass, and the pass goes
\* on as if it were read.
SkipShard(k) ==
    /\ phase \in {"counting", "following"} /\ k \in todo
    /\ ~interrupted /\ ~cancelled
    /\ CannotOpen
    /\ todo' = todo \ {k}
    /\ unread' = unread \cup {k}
    /\ UNCHANGED <<setup, cpus, vocab, shards, importing, mknPhase, phase,
                   interrupted, cancelled, order, freq, pairs, stats, output,
                   session>>

\* Mutant of CountsUsable: whatever the threads have counted is used.
CountsAlwaysUsable == TRUE

CountsUsable == ~cancelled

EndCounting ==
    /\ phase = "counting" /\ IsSharded /\ todo = {} /\ CountsUsable
    /\ IF setup.follow
       THEN phase' = "following" /\ todo' = DOMAIN shards /\ order' = 2
       ELSE phase' = "saving" /\ UNCHANGED <<todo, order>>
    /\ UNCHANGED <<setup, cpus, vocab, shards, opened, importing, mknPhase,
                   interrupted, cancelled, freq, pairs, unread, stats, output,
                   session>>

\* compute_continuation_counts_for_order, shard by shard.
FollowShard(k) ==
    /\ phase = "following" /\ k \in todo /\ ~interrupted
    /\ todo' = todo \ {k}
    /\ pairs' = pairs \cup PairsOf(shards[k], {order})
    /\ opened' = TRUE
    /\ UNCHANGED <<setup, cpus, vocab, shards, importing, mknPhase, phase,
                   interrupted, cancelled, order, freq, unread, stats, output,
                   session>>

NextOrder ==
    /\ phase = "following" /\ todo = {}
    /\ IF order < MaxOrder
       THEN order' = order + 1 /\ todo' = DOMAIN shards /\ UNCHANGED phase
       ELSE phase' = "saving" /\ UNCHANGED <<order, todo>>
    /\ UNCHANGED <<setup, cpus, vocab, shards, opened, importing, mknPhase,
                   interrupted, cancelled, freq, pairs, unread, stats, output,
                   session>>

SaveStats ==
    /\ phase = "saving"
    /\ stats' = [freq |-> freq, follow |-> CountPairs(pairs)]
    /\ phase' = "saved"
    /\ UNCHANGED <<setup, cpus, vocab, shards, opened, importing, mknPhase,
                   counting, output, session>>

CompleteMkn ==
    /\ phase = "saved"
    /\ mknPhase' = "Complete"
    /\ phase' = "finished"
    /\ UNCHANGED <<setup, cpus, vocab, shards, opened, importing, counting, stats,
                   output, session>>

ComputeMkn == \/ StartFinalize \/ CountTrie \/ EndCounting \/ NextOrder
              \/ \E k \in todo : CountShard(k) \/ FollowShard(k) \/ SkipShard(k)
              \/ SaveStats \/ CompleteMkn

-----------------------------------------------------------------------------
(* The checkpoint is deleted, then the shards are merged.                  *)

\* merge_shards asks whether a shard is open, not whether there is one on disk.
MergeWanted == IsSharded /\ opened

CleanupCheckpoint ==
    /\ phase = "finished"
    /\ outcome' = [f \in Files |-> "todo"]
    /\ mknPhase' = "NotStarted"
    /\ IF MergeWanted
       THEN phase' = "merging" /\ todo' = DOMAIN shards /\ output' = <<>>
       ELSE phase' = "ended" /\ UNCHANGED <<todo, output>>
    /\ UNCHANGED <<setup, cpus, vocab, shards, opened, attempts, begun, job,
                   interrupted, cancelled, order, freq, pairs, unread, stats,
                   session>>


\* Mutant of Merged: an entry replaces the one of an earlier shard.
MergedReplacing(out, trie) ==
    Overlaid([key \in Ngrams(trie) |-> trie[key]], out)

Merged(out, trie) ==
    FoldSet(LAMBDA key, acc : Incremented(acc, key, trie[key]), out,
            Ngrams(trie))

MergeShard(k) ==
    /\ phase = "merging" /\ k \in todo
    /\ output' = Merged(output, shards[k])
    /\ todo' = todo \ {k}
    /\ opened' = TRUE
    /\ UNCHANGED <<setup, cpus, vocab, shards, importing, mknPhase, phase,
                   interrupted, cancelled, order, freq, pairs, unread, stats,
                   session>>

\* cleanup_shards, unless the caller keeps them.
EndMerge ==
    /\ phase = "merging" /\ todo = {}
    /\ shards' = IF setup.keepShards THEN shards ELSE <<>>
    /\ phase' = "ended"
    /\ UNCHANGED <<setup, cpus, vocab, opened, importing, mknPhase, counting,
                   stats, output, session>>

Merge == CleanupCheckpoint \/ (\E k \in todo : MergeShard(k)) \/ EndMerge

-----------------------------------------------------------------------------
(* The end of a session.                                                   *)

Interrupt ==
    /\ phase \in {"counting", "following"} /\ ~interrupted
    /\ interrupted' = TRUE
    /\ UNCHANGED <<setup, cpus, vocab, shards, opened, importing, mknPhase, phase,
                   cancelled, todo, order, freq, pairs, unread, stats, output,
                   session>>

\* The pass gives up once its threads, or it itself, have seen the flag.
Cancelled ==
    \/ phase = "counting" /\ IsSharded /\ todo = {} /\ cancelled
    \/ phase = "following" /\ todo # {} /\ interrupted

\* A merge gives up at a shard that does not open.
MergeFailed == phase = "merging" /\ todo # {} /\ "shard" \in setup.errors

\* The session is over: cancelled, after an error, or killed.  Transactions
\* are discarded.  Files in progress are tried again, and so are those that
\* were completed after the last checkpoint, the final one at the latest.
EndSession ==
    /\ \/ Cancelled \/ MergeFailed
       \/ "session" \in setup.errors /\ phase \notin {"ended", "over"}
    /\ phase' = "over"
    /\ job' = [w \in Workers |-> None]
    /\ \E recorded \in SUBSET {f \in Files : outcome[f] = "done"} :
          /\ phase = "importing" \/ \A f \in Files :
                outcome[f] = "done" => f \in recorded
          /\ outcome' = [f \in Files |-> IF f \in recorded THEN "done" ELSE "todo"]
    /\ attempts' = [f \in Files |-> 0]
    /\ interrupted' = FALSE
    /\ cancelled' = FALSE
    /\ todo' = {}
    /\ order' = 0
    /\ freq' = [o \in 0 .. MaxOrder |-> NoFreq]
    /\ pairs' = {}
    /\ unread' = {}
    /\ opened' = FALSE
    /\ UNCHANGED <<setup, cpus, vocab, shards, begun, mknPhase, stats, output,
                   session>>

\* resume_or_start, perhaps on a machine with other CPUs: it opens all shards.
Resume ==
    /\ phase = "over" /\ session < MaxSessions
    /\ session' = session + 1
    /\ cpus' \in setup.cpus
    /\ phase' = "importing"
    /\ opened' = (IsSharded /\ shards # <<>>)
    /\ UNCHANGED <<setup, vocab, shards, importing, mknPhase, counting, stats,
                   output>>

Terminated ==
    /\ \/ phase = "ended"
       \/ phase = "over" /\ session = MaxSessions
    /\ UNCHANGED vars

Next == Import \/ ComputeMkn \/ Merge \/ Interrupt \/ EndSession \/ Resume
            \/ Terminated

Spec == Init /\ [][Next]_vars

-----------------------------------------------------------------------------
(* Properties.                                                             *)

Known == UNION {NgramsOf(setup.input, f) : f \in Files}

InVocabulary(g) == \A i \in DOMAIN g : Contains(vocab, g[i])

\* What the lines of f that pass the filters say of n-gram g.
Total(f, g) ==
    LET lines == {i \in DOMAIN setup.input[f] :
                    Accepted(setup.input[f][i]) /\ setup.input[f][i].ngram = g}
    IN  SumFunction([i \in lines |-> setup.input[f][i].count])

Read(f) == {g \in NgramsOf(setup.input, f) : Total(f, g) > 0}

\* What all the shards together have of an n-gram.
Held(g) ==
    IF InVocabulary(g)
    THEN SumFunction([k \in DOMAIN shards |->
                         CountIn(shards[k], EncodeNgram(vocab, g))])
    ELSE 0

Stored == {g \in Known : Held(g) > 0}

\* No two words have an index, and tries hold counts under keys.
TypeOK ==
    /\ phase \in Phases
    /\ vocab \in Seq(Words) /\ IsInjective(vocab)
    /\ \A k \in DOMAIN shards : \A key \in DOMAIN shards[k] :
          key \in Seq(Nat) /\ key # <<>> /\ shards[k][key] \in Nat \ {0}
    /\ outcome \in [Files -> {"todo", "busy", "done", "failed"}]
    /\ \A w \in Workers : job[w] # None => outcome[job[w].file] = "busy"
    /\ \A f \in Files : attempts[f] <= MaxAttempts /\ attempts[f] <= begun[f]

\* Every key in a trie is decoded, word by word, to an n-gram that was read,
\* whatever order the workers put the words into the vocabulary in
\* (decode_ngram_key_bytes of what with_encoded_ngram_key_lockfree wrote).
KeysAreReadable ==
    \A k \in DOMAIN shards : \A key \in DOMAIN shards[k] \ {Metadata} :
        \E f \in Files : \E g \in Read(f) :
            /\ InVocabulary(g)
            /\ DecodeKey(key) = [i \in DOMAIN g |-> IndexOf(vocab, g[i])]

\* An n-gram is stored with the sum of its lines that pass the filters, or
\* not at all, through attempts that fail, chunks, cancelled and repeated
\* imports; with increments, that sum is added once per import begun at most.
\* A file that is done is stored (process_single_attempt).
StoredIsSum ==
    \A f \in Files : \A g \in NgramsOf(setup.input, f) :
        /\ \E n \in 0 .. begun[f] :
              Held(g) = n * Total(f, g) /\ (HasTx => n <= 1)
        /\ outcome[f] = "done" => Held(g) >= Total(f, g)

LookupFinds(g) == CountIn(Shard(RouteOf(g)), EncodeNgram(vocab, g)) = Held(g)

\* The name of f is what its n-grams begin with, as Google Books names its
\* files but for "other" and "punctuation", and it has all the letters of a shard.
NamesItsShard(f) ==
    LET name == setup.names[f] IN
    /\ PrefixLen(setup.granularity, OrderOf[f]) <= Len(name)
    /\ \A g \in NgramsOf(setup.input, f) :
          /\ Len(name) <= Len(Letters[g[1]])
          /\ \A i \in DOMAIN name : Letters[g[1]][i] = name[i]

\* What is stored of an n-gram is in one shard, whole, through failed attempts
\* and sessions, and a lookup by its first word goes there, although under
\* letters the import has stored it by the name of its file
\* (begin_prefix_tx, store_tokens, get_tokens): as long as that name has the
\* letters, and the number of CPUs, which hashes depend on, has not changed.
LookupFindsStored ==
    \A f \in Files : \A g \in NgramsOf(setup.input, f) \cap Stored :
        HasTx \/ Cardinality(setup.cpus) = 1 =>
            /\ \E k \in DOMAIN shards : CountIn(shards[k], EncodeNgram(vocab, g)) = Held(g)
            /\ (HasTx => NamesItsShard(f)) => LookupFinds(g)

\* The frequencies and continuation counts that StatsAreExact compares are taken
\* from the n-grams themselves.
FreqExact(fc, ngrams) ==
    /\ \A i \in 1 .. 4 : fc.n[i] = Cardinality({g \in ngrams : Held(g) = i})
    /\ fc.unique = Cardinality(ngrams)
    /\ fc.total = SumFunction([g \in ngrams |-> Held(g)])

FollowExact(follow) ==
    \A g \in Stored :
        LET o   == IF IsSharded THEN Len(g) ELSE 0
            key(words) == EncodeNgram(vocab, words)
        IN  Len(g) >= 2 =>
            /\ CountIn(follow, <<"predecessor", o, key(Tail(g))>>)
                   = Cardinality({h \in Stored : Len(h) = Len(g) /\ Tail(h) = Tail(g)})
            /\ CountIn(follow, <<"successor", o, key(Front(g))>>)
                   = Cardinality({h \in Stored : Len(h) = Len(g) /\ Front(h) = Front(g)})

StatsExact ==
    /\ IF IsSharded
       THEN \A o \in 1 .. MaxOrder :
                FreqExact(stats'.freq[o], {g \in Stored : Len(g) = o})
       ELSE FreqExact(stats'.freq[0], Stored)
    /\ ~IsSharded \/ setup.follow => FollowExact(stats'.follow)

\* Statistics that are written count every stored n-gram, once, however the
\* threads share the shards and whenever the import is interrupted
\* (compute_mkn_stats_with_events), unless a pass could not open a shard, or
\* the CPUs have changed and the shards may have an n-gram twice.
StatsAreExact ==
    [][stats' # stats /\ unread = {} /\ Cardinality(setup.cpus) = 1 => StatsExact]_vars

\* When the merge ends, and before it deletes the shards, the output has what
\* they had, also of an n-gram that is in two of them (merge_to_trie,
\* cleanup_shards).
MergedIsWhole ==
    [][phase = "merging" /\ phase' = "ended" =>
          /\ DOMAIN output = UNION {Ngrams(shards[k]) : k \in DOMAIN shards}
          /\ \A g \in Stored : output[EncodeNgram(vocab, g)] = Held(g)]_vars
=============================================================================
