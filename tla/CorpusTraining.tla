------------------------- MODULE CorpusTraining -------------------------
(***************************************************************************)
(* Training from a corpus.  The n-gram trainer (ngram/trainer.rs) counts   *)
(* the n-grams of each prefetched batch in parallel, then sets the         *)
(* continuation counts of the trie (ngram/trie.rs) and makes a model       *)
(* (ngram/model.rs).  The embedding trainer (embedding/trainer.rs) counts  *)
(* words, sorts its vocabulary, and reads the corpus again in every epoch. *)
(*                                                                         *)
(* A token is the sequence of its pieces between pipes, nearly always one: *)
(* the tokenizer does not split at "|".  setup.keys is how an n-gram       *)
(* becomes a key of the trie:                                              *)
(*   "joined"    the tokens, joined with pipes;                            *)
(*   "indexed"   joined, then split at pipes again by the dictionary       *)
(*               (ngram/vocabulary_indexed.rs), which writes the indices   *)
(*               of the pieces and gives them back joined;                 *)
(*   "varints"   the indices of the tokens, by the trainer itself, which   *)
(*               then takes every character of a key for a word.           *)
(***************************************************************************)
EXTENDS Prefetch, NgramKeys

VARIABLES
    vocab,     \* the words that have an index, shared with whoever made it
    trie,      \* entries by key
    tasks,     \* how many n-grams of each sentence of the batch are counted
    stats,     \* the counters of the trainer
    faults,    \* "panic" when a task has panicked, "sampling" when the search
               \* for a negative sample never ends
    passes,    \* how often the corpus has been opened
    words,     \* occurrences of each word, for embeddings
    result     \* what train() returns

trainingVars == <<vocab, trie, tasks, stats, faults, passes, words, result>>

NoResult == [status |-> "none"]

\* The pieces of some tokens, joined.
Pieces(tokens) == FlattenSeq(tokens)

\* What the vocabulary has indices for.
Terms(tokens) == IF setup.keys = "varints" THEN tokens ELSE Pieces(tokens)

KeyOf(v, tokens) ==
    IF setup.keys = "joined" THEN Pieces(tokens) ELSE EncodeNgram(v, Terms(tokens))

\* The n-grams of a sentence, in the order of the two loops.
Slices(tokens) ==
    FlattenSeq([n \in 1 .. Min({setup.order, Len(tokens)}) |->
        [i \in 1 .. Len(tokens) - n + 1 |-> SubSeq(tokens, i, i + n - 1)]])

NewEntry(count) == [count |-> count, continuation |-> 0, unique |-> 0]

\* The dictionary's update_or_insert() is atomic.
Inserted(t, key) ==
    IF key \in DOMAIN t THEN [t EXCEPT ![key].count = @ + 1]
    ELSE (key :> NewEntry(1)) @@ t

NgramTrainer == setup.trainer = "ngrams"

Init ==
    /\ PrefetchInit
    /\ vocab = setup.vocab
    /\ trie = [key \in {} |-> NewEntry(0)]
    /\ tasks = <<>>
    /\ stats = [sentences |-> 0, ngrams |-> 0, tokens |-> 0]
    /\ faults = {}
    /\ passes = 1
    /\ words = [w \in {} |-> 0]
    /\ result = NoResult

-----------------------------------------------------------------------------
(* The loop over the batches.                                              *)

\* par_iter() makes a task of every sentence.
NextBatch ==
    /\ Receive
    /\ tasks' = [i \in DOMAIN Head(channel).batch |->
                    [tokens |-> Head(channel).batch[i], next |-> 1]]
    /\ UNCHANGED <<vocab, trie, stats, faults, passes, words, result>>

Counted(task) == task.next > Len(Slices(task.tokens))

\* One n-gram is counted.  The trainer notes tokens and sentences before the
\* first of a sentence and n-grams after the last.
CountNgram(i) ==
    LET task   == tasks[i]
        slices == Slices(task.tokens)
        gram   == slices[task.next]
    IN  /\ NgramTrainer
        /\ consumer = "busy"
        /\ ~ Counted(task)
        /\ vocab' = IF setup.keys = "joined" THEN vocab
                    ELSE WithWords(vocab, Terms(gram))
        /\ trie' = Inserted(trie, KeyOf(vocab', gram))
        /\ tasks' = [tasks EXCEPT ![i].next = @ + 1]
        /\ stats' = [sentences |-> stats.sentences + (IF task.next = 1 THEN 1 ELSE 0),
                     tokens |-> stats.tokens
                                  + (IF task.next = 1 THEN Len(task.tokens) ELSE 0),
                     ngrams |-> stats.ngrams
                                  + (IF task.next = Len(slices) THEN Len(slices) ELSE 0)]
        /\ UNCHANGED <<setup, prefetchVars, faults, passes, words, result>>

\* The vocabulary is a file: an insert that fails panics.
VocabularyFails(i) ==
    /\ NgramTrainer
    /\ setup.vocabularyFails
    /\ setup.keys # "joined"
    /\ consumer = "busy"
    /\ ~ Counted(tasks[i])
    /\ tasks' = [tasks EXCEPT ![i].next = Len(Slices(tasks[i].tokens)) + 1]
    /\ faults' = {"panic"}
    /\ UNCHANGED <<setup, prefetchVars, vocab, trie, stats, passes, words, result>>

\* The embedding trainer counts the words of the first pass in one thread.
Occurrences(w, sentences) ==
    FoldLeft(LAMBDA sum, s : sum + Cardinality({i \in DOMAIN s : s[i] = w}), 0, sentences)

WordsOf(sentences) == UNION {Range(s) : s \in Range(sentences)}

BatchSentences == [i \in DOMAIN tasks |-> tasks[i].tokens]

CountWords ==
    /\ ~ NgramTrainer
    /\ passes = 1
    /\ Proceed
    /\ words' = [w \in DOMAIN words \cup WordsOf(BatchSentences) |->
                    (IF w \in DOMAIN words THEN words[w] ELSE 0)
                        + Occurrences(w, BatchSentences)]
    /\ UNCHANGED <<setup, producer, channel, stopSignal, seen,
                   vocab, trie, tasks, stats, faults, passes, result>>

\* A pair of words in a window asks for negative samples other than the
\* second word.  A vocabulary of one word has none, and the draw is repeated
\* for ever; the subsampling may leave the pair out.
Starved(sentences) ==
    /\ Len(result.vocab) = 1
    /\ \E s \in Range(sentences) : \E i, j \in DOMAIN s :
           /\ i < j /\ j <= i + setup.window
           /\ s[i] = result.vocab[1] /\ s[j] = result.vocab[1]

TrainBatch ==
    /\ ~ NgramTrainer
    /\ passes > 1
    /\ "sampling" \notin faults
    /\ \/ Proceed /\ UNCHANGED faults
       \/ /\ consumer = "busy"
          /\ Starved(BatchSentences)
          /\ faults' = {"sampling"}
          /\ UNCHANGED consumer
    /\ UNCHANGED <<setup, producer, channel, stopSignal, seen,
                   vocab, trie, tasks, stats, passes, words, result>>

BatchDone ==
    /\ NgramTrainer
    /\ faults = {}
    /\ \A i \in DOMAIN tasks : Counted(tasks[i])
    /\ Proceed
    /\ UNCHANGED <<setup, producer, channel, stopSignal, seen, trainingVars>>

\* The panic of a task goes on once those that have begun are through.
BatchPanics ==
    /\ "panic" \in faults
    /\ \A i \in DOMAIN tasks : Counted(tasks[i]) \/ tasks[i].next = 1
    /\ Unwind
    /\ UNCHANGED <<setup, producer, channel, stopSignal, seen, trainingVars>>

-----------------------------------------------------------------------------
(* Continuation counts.                                                    *)

\* What a key is split into, and the key of such parts.
Parts(key) ==
    IF setup.keys = "joined" THEN key
    ELSE IF setup.keys = "indexed"
    THEN LET indices == DecodeKey(key)
         IN  [i \in DOMAIN indices |-> vocab[indices[i] + 1 - FirstValidIndex]]
    ELSE key

Rekey(parts) == IF setup.keys = "indexed" THEN EncodeNgram(vocab, parts) ELSE parts

HistoryAndWord(keys) ==
    {<<Front(Parts(k)), Last(Parts(k))>> : k \in {k \in keys : Len(Parts(k)) >= 2}}


\* Mutant of WithContinuations: a word is counted once per n-gram that ends
\* in it, in whatever order its histories come.
WithContinuationsByOrder(t) ==
    LET pairs == HistoryAndWord(DOMAIN t)
    IN  [k \in DOMAIN t |->
            [t[k] EXCEPT !.continuation =
                Cardinality({Len(p[1]) : p \in {p \in pairs : Rekey(<<p[2]>>) = k}}),
             !.unique = Cardinality({p \in pairs : Rekey(p[1]) = k})]]

\* A word gets the number of its histories, of any length, and a history the
\* number of words that follow it; a key that is missing is inserted with the
\* count 0.
WithContinuations(t) ==
    LET pairs     == HistoryAndWord(DOMAIN t)
        words_    == {Rekey(<<p[2]>>) : p \in pairs}
        histories == {Rekey(p[1]) : p \in pairs}
        Entry(k)  == IF k \in DOMAIN t THEN t[k] ELSE NewEntry(0)
    IN  [k \in DOMAIN t \cup words_ \cup histories |->
            [Entry(k) EXCEPT
                !.continuation = IF k \in words_
                    THEN Cardinality({p \in pairs : Rekey(<<p[2]>>) = k}) ELSE @,
                !.unique = IF k \in histories
                    THEN Cardinality({p \in pairs : Rekey(p[1]) = k}) ELSE @]]

\* How many entries have the counts 1 to 4: the discounts of Kneser-Ney are
\* computed from them when none is 0.
Frequencies(t) == [n \in 1 .. 4 |-> Cardinality({k \in DOMAIN t : t[k].count = n})]

Smoothing(t) == IF \A n \in 1 .. 4 : Frequencies(t)[n] > 0 THEN Frequencies(t) ELSE <<>>

CountUnigrams(t) == Cardinality({k \in DOMAIN t : Len(Parts(k)) = 1})

-----------------------------------------------------------------------------
(* After the loop.                                                         *)

Returns(r) == result' = r

TrainNgrams ==
    /\ NgramTrainer
    /\ consumer = "gone"
    /\ result = NoResult
    /\ IF "panic" \in faults
       THEN Returns([status |-> "panic"]) /\ UNCHANGED trie
       ELSE IF tasks = <<>>   \* no batch has been received
       THEN Returns([status |-> "EmptyCorpus"]) /\ UNCHANGED trie
       ELSE /\ trie' = WithContinuations(trie)
            /\ Returns([status |-> "ok", smoothing |-> Smoothing(trie'),
                        vocabSize |-> CountUnigrams(trie'), total |-> stats.tokens])
    /\ UNCHANGED <<setup, prefetchVars, vocab, tasks, stats, faults, passes, words>>


Frequent == {w \in DOMAIN words : words[w] >= setup.minCount}

\* The words by falling counts; those of equal counts in any order.
Sorted(ws) ==
    {s \in [1 .. Cardinality(ws) -> ws] :
        /\ IsInjective(s)
        /\ \A i, j \in DOMAIN s : i < j => words[s[i]] >= words[s[j]]}

TotalWords == FoldFunctionOnSet(+, 0, words, DOMAIN words)

\* The vocabulary is built from the first pass.
BuildVocabulary ==
    /\ ~ NgramTrainer
    /\ consumer = "gone"
    /\ result = NoResult
    /\ IF Frequent = {}
       THEN Returns([status |-> "EmptyCorpus"])
       ELSE \E s \in Sorted(Frequent) :
               Returns([status |-> IF setup.epochs > 0 THEN "training" ELSE "ok",
                        vocab |-> s, total |-> TotalWords,
                        counts |-> [i \in DOMAIN s |-> words[s[i]]]])
    /\ UNCHANGED <<setup, prefetchVars, vocab, trie, tasks, stats, faults, passes, words>>

\* train() has kept the sentences for its epochs.
TrainCollected ==
    /\ ~ NgramTrainer
    /\ ~ setup.streaming
    /\ result.status = "training"
    /\ faults = {}
    /\ \/ Returns([result EXCEPT !.status = "ok"]) /\ UNCHANGED faults
       \/ Starved(seen) /\ faults' = {"sampling"} /\ UNCHANGED result
    /\ UNCHANGED <<setup, prefetchVars, vocab, trie, tasks, stats, passes, words>>

\* Each epoch of train_streaming() has a reader of its own, which the factory
\* may fail to make.
Epoch ==
    /\ ~ NgramTrainer
    /\ setup.streaming
    /\ consumer = "gone"
    /\ result.status = "training"
    /\ IF passes <= setup.epochs
       THEN \/ PrefetchAgain /\ passes' = passes + 1 /\ UNCHANGED result
            \/ Returns([status |-> "error"]) /\ UNCHANGED <<prefetchVars, passes>>
       ELSE /\ Returns([result EXCEPT !.status = "ok"])
            /\ UNCHANGED <<prefetchVars, passes>>
    /\ UNCHANGED <<setup, vocab, trie, tasks, stats, faults, words>>

-----------------------------------------------------------------------------
Trainer ==
    \/ NextBatch
    \/ ReceiveEnd /\ UNCHANGED trainingVars
    \/ \E i \in DOMAIN tasks : CountNgram(i) \/ VocabularyFails(i)
    \/ CountWords
    \/ TrainBatch
    \/ BatchDone
    \/ BatchPanics
    \/ Drop /\ UNCHANGED trainingVars
    \/ TrainNgrams
    \/ BuildVocabulary
    \/ TrainCollected
    \/ Epoch

Next ==
    \/ Produce /\ UNCHANGED trainingVars
    \/ Trainer

vars == <<setup, prefetchVars, trainingVars>>

Spec == Init /\ [][Next]_vars

\* The threads run, and an operation that can go on does.
FairSpec ==
    Spec /\ WF_vars(Produce /\ UNCHANGED trainingVars) /\ WF_vars(Trainer)

-----------------------------------------------------------------------------
(* Properties.                                                             *)

TypeOK ==
    /\ PrefetchTypeOK
    /\ \A k \in DOMAIN trie :
           /\ DOMAIN trie[k] = {"count", "continuation", "unique"}
           /\ trie[k].count \in Nat
    /\ Cardinality(Range(vocab)) = Len(vocab)
    /\ \A i \in DOMAIN tasks : tasks[i].next \in 1 .. Len(Slices(tasks[i].tokens)) + 1
    /\ faults \subseteq {"panic", "sampling"}
    /\ passes \in 1 .. setup.epochs + 1
    /\ result.status \in {"none", "training", "ok", "EmptyCorpus", "panic", "error"}

\* The n-grams of the corpus as the reader has it, and the words.
CorpusWords == WordsOf(Corpus)
TokensUpTo(n) == UNION {[1 .. m -> CorpusWords] : m \in 1 .. n}
OccurrencesOf(gram) ==
    FoldLeft(LAMBDA sum, s : sum + Cardinality({i \in 1 .. Len(s) - Len(gram) + 1 :
                 SubSeq(s, i, i + Len(gram) - 1) = gram}), 0, Corpus)

\* What an n-gram is looked up by: get() by the joined tokens, which a trie of
\* varints does not have, and get_by_key().
Lookup(gram) ==
    LET known == setup.keys = "joined" \/ Range(Terms(gram)) \subseteq Range(vocab)
    IN  IF known /\ KeyOf(vocab, gram) \in DOMAIN trie
        THEN trie[KeyOf(vocab, gram)] ELSE NewEntry(0)

\* Every part of a key is a word: no token has a pipe in it, and, for the
\* trainer that takes characters for words, no index needs two bytes.
PartsAreWords ==
    IF setup.keys = "varints"
    THEN Len(vocab) - 1 + FirstValidIndex < VarintBase
    ELSE \A w \in CorpusWords : Len(w) = 1

ReadToTheEnd == setup.panicsAt = 0

\* An n-gram model has, for every n-gram up to its order, the number of times
\* it occurs in the corpus, and no other entry; as many words and tokens as
\* there are; for every word the number of its histories and for every
\* history the number of its words.
NgramsAreExact ==
    LET grams    == {g \in TokensUpTo(setup.order) : OccurrencesOf(g) > 0}
        Before(w) == {g \in grams : Len(g) > 1 /\ Last(g) = w}
        After(h)  == {g \in grams : Len(g) > 1 /\ Front(g) = h}
    IN  /\ \A g \in TokensUpTo(setup.order) : Lookup(g).count = OccurrencesOf(g)
        /\ Cardinality(DOMAIN trie) = Cardinality(grams)
        /\ result.vocabSize = Cardinality(CorpusWords)
        /\ result.total = FoldLeft(LAMBDA sum, s : sum + Len(s), 0, Corpus)
        /\ stats.ngrams = FoldLeft(LAMBDA sum, s : sum + Len(Slices(s)), 0, Corpus)
        /\ \A w \in CorpusWords :
               Lookup(<<w>>).continuation = Cardinality(Before(w))
        /\ \A g \in grams : Lookup(g).unique = Cardinality(After(g))

\* An embedding vocabulary has the words that occur often enough, the most
\* frequent first, each beside its own count.
VocabularyIsExact ==
    /\ Range(result.vocab) = {w \in CorpusWords : OccurrencesOf(<<w>>) >= setup.minCount}
    /\ \A i \in DOMAIN result.vocab :
           /\ result.counts[i] = OccurrencesOf(<<result.vocab[i]>>)
           /\ i > 1 => result.counts[i] <= result.counts[i - 1]

\* What training returns is what counting by hand gives: batches counted by
\* many threads in whatever order, the keys of the three encodings, and the
\* passes of the embedding trainer, the last of which has read the corpus to
\* its end (NgramTrainer::train, EmbeddingTrainer::train, train_streaming).  A
\* reader that panics is left out: a model comes back all the same.
ModelIsExact ==
    result.status = "ok" /\ ReadToTheEnd =>
        /\ NgramTrainer /\ PartsAreWords => NgramsAreExact
        /\ ~ NgramTrainer => VocabularyIsExact
        /\ seen = Corpus

\* Whatever else happens, training comes back, unless it looks for a negative
\* sample in a vocabulary of one word.  The drop of the iterator must not
\* wait for a producer that waits for room in the channel: after the drain it
\* may send one more batch, begun before the stop, and the final message, so
\* two places are enough and one is not.
TrainingReturns ==
    <>(result.status \in {"ok", "EmptyCorpus", "panic", "error"} \/ "sampling" \in faults)
=============================================================================
