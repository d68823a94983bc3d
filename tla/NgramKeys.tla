---------------------------- MODULE NgramKeys ----------------------------
(***************************************************************************)
(* The keys of the n-gram tries (ngram/vocabulary.rs): a word has an index *)
(* in the vocabulary, an index is written in groups of seven bits, lowest  *)
(* first, with a flag on all but the last (LEB128), and the key of an      *)
(* n-gram is the indices of its words, one after the other.                *)
(***************************************************************************)
EXTENDS Naturals, Sequences, SequencesExt, FiniteSetsExt

CONSTANTS
    VarintBase,  \* what one group can hold, 2^7
    MaxGroups    \* the groups that a u64 takes, 10

ASSUME VarintAssumption ==
    /\ VarintBase \in Nat \ {0, 1}
    /\ MaxGroups \in Nat \ {0}

\* The index of the first word: 0 would be written as the byte that starts
\* the keys of metadata.
FirstValidIndex == 1

\* A vocabulary is the sequence of its words, in order of their indices.


\* Mutant of WithWords: a word that is known gets another index.
WithWordsTwice(vocab, words) == vocab \o words

WithWords(vocab, words) ==
    FoldLeft(LAMBDA v, w : IF Contains(v, w) THEN v ELSE Append(v, w),
             vocab, words)

IndexOf(vocab, word) ==
    (CHOOSE i \in DOMAIN vocab : vocab[i] = word) - 1 + FirstValidIndex

-----------------------------------------------------------------------------
(* Varints.                                                                *)

\* Mutant of EncodeVarint: the flag also on the last group.
EncodeVarintAllFlagged(value) ==
    LET bytes[v \in 0 .. value] ==
            IF v < VarintBase THEN <<v + VarintBase>>
            ELSE <<(v % VarintBase) + VarintBase>> \o bytes[v \div VarintBase]
    IN  bytes[value]

EncodeVarint(value) ==
    LET bytes[v \in 0 .. value] ==
            IF v < VarintBase THEN <<v>>
            ELSE <<(v % VarintBase) + VarintBase>> \o bytes[v \div VarintBase]
    IN  bytes[value]

\* How many bytes of an incomplete or oversized varint are consumed: none.
ConsumedBy(bytes) ==
    LET ends == {i \in DOMAIN bytes : i <= MaxGroups /\ bytes[i] < VarintBase}
    IN  IF ends = {} THEN 0 ELSE Min(ends)

DecodeVarint(bytes) ==
    LET from[i \in 1 .. Len(bytes) + 1] ==
            IF i > Len(bytes) THEN 0
            ELSE (bytes[i] % VarintBase) + VarintBase * from[i + 1]
    IN  from[1]

-----------------------------------------------------------------------------
(* N-gram keys.                                                            *)

EncodeIndices(indices) ==
    FoldLeft(LAMBDA key, index : key \o EncodeVarint(index), <<>>, indices)

EncodeNgram(vocab, words) ==
    EncodeIndices([i \in DOMAIN words |-> IndexOf(vocab, words[i])])

DecodeKey(key) ==
    LET from[o \in 0 .. Len(key)] ==
            LET rest == SubSeq(key, o + 1, Len(key))
                n    == ConsumedBy(rest)
            IN  IF n = 0 THEN <<>>
                ELSE <<DecodeVarint(SubSeq(rest, 1, n))>> \o from[o + n]
    IN  from[0]

KeyOrder(key) == Len(DecodeKey(key))
=============================================================================
