------------------------ MODULE MC_CorpusTraining ------------------------
(* Small corpora for CorpusTraining.  A varint group holds four values, so *)
(* that an index from 4 on takes two bytes.                                *)
EXTENDS CorpusTraining

a == <<"a">>
b == <<"b">>
c == <<"c">>
Piped == <<"a", "b">>   \* the token a|b

Setup(trainer, keys, corpus, batchSize) ==
    [trainer |-> trainer, keys |-> keys, corpus |-> corpus, batchSize |-> batchSize,
     buffer |-> 1, order |-> 2, vocab |-> <<>>, vocabularyFails |-> FALSE,
     panicsAt |-> 0, minCount |-> 1, epochs |-> 0, streaming |-> FALSE, window |-> 2]

\* Five sentences in batches of one, so that the channel fills; and of two,
\* so that the last is not full.
Five == << <<a, b>>, <<b>>, <<>>, <<a, b, a>>, <<b, a>> >>
Three == << <<a, b, a>>, <<c, a, b>>, <<b, a>> >>

MCSetups ==
    {Setup("ngrams", keys, corpus, size) :
        keys \in {"joined", "indexed", "varints"}, corpus \in {Five, Three}, size \in {1, 2}}
    \cup {Setup("ngrams", "joined", <<>>, 2)}
    \* A vocabulary that other trainers have filled, up to the second byte.
    \cup {[Setup("ngrams", "indexed", Three, 2) EXCEPT !.vocab = <<"x", "y">>],
          [Setup("ngrams", "varints", Three, 2) EXCEPT !.vocab = <<<<"x">>, <<"y">>>>]}
    \* A token with a pipe in it.
    \cup {Setup("ngrams", keys, << <<a, Piped>>, <<b>> >>, 2) :
            keys \in {"joined", "indexed", "varints"}}
    \* Readers and vocabularies that fail.
    \cup {[Setup(trainer, "varints", Five, 1) EXCEPT !.panicsAt = n] :
            trainer \in {"ngrams", "embeddings"}, n \in {1, 3}}
    \cup {[Setup("ngrams", keys, Five, size) EXCEPT !.vocabularyFails = TRUE] :
            keys \in {"indexed", "varints"}, size \in {1, 2}}
    \* Embeddings, in one pass or in several; 4 is enough for one word only.
    \cup {[Setup("embeddings", "joined", Three, 2) EXCEPT
              !.minCount = n, !.epochs = e, !.streaming = streaming] :
            n \in {1, 3, 4, 9}, e \in {0, 2}, streaming \in BOOLEAN}
==========================================================================
