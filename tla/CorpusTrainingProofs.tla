----------------------- MODULE CorpusTrainingProofs -----------------------
(***************************************************************************)
(* Proofs about CorpusTraining, for any corpora, batches, buffers, words   *)
(* and failures: the types of what is prefetched and the bounds of batch   *)
(* and channel, and that the trainers see the corpus in order and once.    *)
(***************************************************************************)
EXTENDS CorpusTraining, SequenceTheorems, WellFoundedInduction, TLAPS

---------------------------------------------------------------------------
(* Flattening, unfolded: FlattenSeq is defined by a function on the        *)
(* positions, and a claim about it that fails somewhere has a first place  *)
(* where it fails.                                                         *)

Less == {ss \in Nat \X Nat : ss[1] < ss[2]}

\* A set of numbers has a least one.
LEMMA LeastOf ==
    ASSUME NEW T \in SUBSET Nat, T # {}
    PROVE  \E n \in T : \A m \in T : n <= m
<1>1. IsWellFoundedOn(Less, Nat)
  BY NatLessThanWellFounded DEF OpToRel, Less
<1>2. PICK n \in T : \A m \in T : ~ (<<m, n>> \in Less)
  <2>1. T \subseteq Nat /\ T # {}
    OBVIOUS
  <2>. HIDE DEF Less
  <2>. QED BY <1>1, <2>1, WFMin
<1>3. \A i, j \in Nat : i < j => <<i, j>> \in Less
  BY DEF Less
<1>4. ASSUME NEW m \in T PROVE n <= m
  <2>1. m \in Nat /\ n \in Nat
    OBVIOUS
  <2>2. ~ (m < n)
    BY ONLY <1>2, <1>3, <2>1, m \in T
  <2>. QED BY ONLY <2>1, <2>2
<1>. QED BY <1>4

\* The function that FlattenSeq unfolds.
Builds(F, s) ==
    /\ DOMAIN F = 1 .. Len(s)
    /\ F = [i \in 1 .. Len(s) |-> IF i = 1 THEN s[i] ELSE F[i - 1] \o s[i]]

LEMMA FlattenIs ==
    ASSUME NEW s, Len(s) \in Nat \ {0}, NEW F, Builds(F, s)
    PROVE  FlattenSeq(s) = F[Len(s)]
<1>. DEFINE n == Len(s)
            G == CHOOSE f : f = [i \in 1 .. n |-> IF i = 1 THEN s[i] ELSE f[i - 1] \o s[i]]
<1>1. FlattenSeq(s) = G[n]
  BY DEF FlattenSeq
<1>2. G = [i \in 1 .. n |-> IF i = 1 THEN s[i] ELSE G[i - 1] \o s[i]]
  BY DEF Builds
<1>. HIDE DEF G
<1>. DEFINE T == {i \in 1 .. n : G[i] # F[i]}
<1>3. T = {}
  <2>1. SUFFICES ASSUME T # {} PROVE FALSE
    OBVIOUS
  <2>2. PICK i \in T : \A j \in T : i <= j
    <3>1. T \in SUBSET Nat
      OBVIOUS
    <3>. HIDE DEF T
    <3>. QED BY <2>1, <3>1, LeastOf
  <2>3. i # 1 => i - 1 \in 1 .. n /\ G[i - 1] = F[i - 1]
    BY <2>2
  <2>4. i \in 1 .. n /\ G[i] # F[i]
    BY <2>2
  <2>5. F[i] = IF i = 1 THEN s[i] ELSE F[i - 1] \o s[i]
    BY <2>4 DEF Builds
  <2>6. G[i] = IF i = 1 THEN s[i] ELSE G[i - 1] \o s[i]
    BY <2>4, <1>2
  <2>. HIDE DEF T, n
  <2>. QED BY <2>3, <2>4, <2>5, <2>6
<1>. QED BY <1>1, <1>3

\* Sequences of sequences have such a function.
LEMMA Unfolds ==
    ASSUME NEW A, NEW s \in Seq(Seq(A)), s # <<>>
    PROVE  \E F \in [1 .. Len(s) -> Seq(A)] : Builds(F, s)
<1>. DEFINE n == Len(s)
            P(k) == \E F \in [1 .. k -> Seq(A)] :
                       \A i \in 1 .. k : F[i] = IF i = 1 THEN s[i] ELSE F[i - 1] \o s[i]
            T == {k \in 1 .. n : ~ P(k)}
<1>1. n \in Nat \ {0} /\ \A i \in 1 .. n : s[i] \in Seq(A)
  OBVIOUS
<1>2. P(1)
  <2>. DEFINE F == [i \in 1 .. 1 |-> s[1]]
  <2>1. F \in [1 .. 1 -> Seq(A)]
    BY <1>1
  <2>2. \A i \in 1 .. 1 : i = 1 /\ F[i] = s[i]
    OBVIOUS
  <2>3. \A i \in 1 .. 1 : F[i] = IF i = 1 THEN s[i] ELSE F[i - 1] \o s[i]
    BY <2>2
  <2>. HIDE DEF F
  <2>. QED BY <2>1, <2>3
<1>3. ASSUME NEW k \in 1 .. n, k > 1, P(k - 1) PROVE P(k)
  <2>1. PICK F \in [1 .. k - 1 -> Seq(A)] :
          \A i \in 1 .. k - 1 : F[i] = IF i = 1 THEN s[i] ELSE F[i - 1] \o s[i]
    BY <1>3
  <2>. DEFINE G == [i \in 1 .. k |-> IF i = k THEN F[k - 1] \o s[k] ELSE F[i]]
  <2>2. F[k - 1] \o s[k] \in Seq(A)
    BY <1>1, <1>3
  <2>3. G \in [1 .. k -> Seq(A)]
    BY <1>1, <1>3, <2>2
  <2>4. ASSUME NEW i \in 1 .. k
        PROVE  G[i] = IF i = 1 THEN s[i] ELSE G[i - 1] \o s[i]
    <3>1. CASE i = k
      <4>1. k # 1 /\ k - 1 \in 1 .. k /\ k - 1 # k /\ k \in 1 .. k
        BY <1>1, <1>3
      <4>2. G[k] = F[k - 1] \o s[k] /\ G[k - 1] = F[k - 1]
        BY <4>1
      <4>. HIDE DEF G
      <4>. QED BY <3>1, <4>1, <4>2
    <3>2. CASE i # k
      <4>1. i \in 1 .. k - 1 /\ (i # 1 => i - 1 \in 1 .. k - 1 /\ i - 1 # k)
        BY <1>1, <1>3, <3>2
      <4>2. G[i] = F[i] /\ (i # 1 => G[i - 1] = F[i - 1])
        BY <1>1, <1>3, <3>2, <4>1
      <4>. HIDE DEF G
      <4>. QED BY <2>1, <4>1, <4>2
    <3>. QED BY <3>1, <3>2
  <2>. HIDE DEF G
  <2>. QED BY <2>3, <2>4
<1>. HIDE DEF P
<1>4. T = {}
  <2>1. SUFFICES ASSUME T # {} PROVE FALSE
    OBVIOUS
  <2>2. T \in SUBSET Nat
    BY <1>1
  <2>3. PICK k \in T : \A j \in T : k <= j
    <3>. HIDE DEF T
    <3>. QED BY <2>1, <2>2, LeastOf
  <2>4. k \in 1 .. n /\ ~ P(k)
    OBVIOUS
  <2>5. k > 1 /\ k - 1 \in 1 .. n /\ k - 1 \notin T
    BY <1>1, <1>2, <2>2, <2>3, <2>4
  <2>6. P(k - 1)
    BY <2>5
  <2>. QED BY <1>3, <2>4, <2>5, <2>6
<1>5. P(n)
  BY <1>1, <1>4
<1>6. PICK F \in [1 .. n -> Seq(A)] :
        \A i \in 1 .. n : F[i] = IF i = 1 THEN s[i] ELSE F[i - 1] \o s[i]
  BY <1>5 DEF P
<1>. QED BY <1>6 DEF Builds

LEMMA FlattenNothing == FlattenSeq(<<>>) = <<>>
BY DEF FlattenSeq

LEMMA FlattenIsSeq ==
    ASSUME NEW A, NEW s \in Seq(Seq(A))
    PROVE  FlattenSeq(s) \in Seq(A)
<1>1. CASE s = <<>>
  <2>1. FlattenSeq(s) = <<>>
    BY <1>1, FlattenNothing
  <2>2. <<>> \in Seq(A)
    OBVIOUS
  <2>. QED BY <2>1, <2>2
<1>2. CASE s # <<>>
  <2>1. PICK F \in [1 .. Len(s) -> Seq(A)] : Builds(F, s)
    BY <1>2, Unfolds
  <2>2. Len(s) \in Nat \ {0}
    BY <1>2
  <2>3. FlattenSeq(s) = F[Len(s)]
    BY <2>1, <2>2, FlattenIs
  <2>4. F[Len(s)] \in Seq(A)
    <3>. DEFINE n == Len(s)
    <3>1. n \in 1 .. n
      BY <2>2
    <3>. HIDE DEF n
    <3>. QED BY <3>1 DEF n
  <2>. QED BY <2>3, <2>4
<1>. QED BY <1>1, <1>2

LEMMA FlattenAppend ==
    ASSUME NEW A, NEW s \in Seq(Seq(A)), NEW e \in Seq(A)
    PROVE  FlattenSeq(Append(s, e)) = FlattenSeq(s) \o e
<1>. DEFINE t == Append(s, e)
            n == Len(s)
<1>1. /\ t \in Seq(Seq(A)) /\ Len(t) = n + 1 /\ n \in Nat /\ t[n + 1] = e
      /\ \A i \in 1 .. n : t[i] = s[i]
  BY AppendProperties
<1>. HIDE DEF t
<1>2. CASE s = <<>>
  <2>. DEFINE F == [i \in 1 .. 1 |-> e]
  <2>1. n = 0 /\ Len(t) = 1 /\ t[1] = e
    BY <1>1, <1>2
  <2>2. Builds(F, t)
    BY <2>1 DEF Builds
  <2>3. FlattenSeq(t) = e
    <3>1. F[1] = e /\ Len(t) \in Nat \ {0}
      BY <2>1
    <3>. HIDE DEF F
    <3>2. FlattenSeq(t) = F[Len(t)]
      BY <2>2, <3>1, FlattenIs
    <3>. QED BY <2>1, <3>1, <3>2
  <2>4. <<>> \o e = e
    BY ConcatEmptySeq
  <2>. QED BY <1>2, <2>3, <2>4, FlattenNothing DEF t
<1>3. CASE s # <<>>
  <2>1. PICK F \in [1 .. n -> Seq(A)] : Builds(F, s)
    BY <1>3, Unfolds
  <2>2. n > 0
    BY <1>3
  <2>. DEFINE G == [i \in 1 .. n + 1 |-> IF i = n + 1 THEN F[n] \o e ELSE F[i]]
  <2>3. ASSUME NEW i \in 1 .. n + 1
        PROVE  G[i] = IF i = 1 THEN t[i] ELSE G[i - 1] \o t[i]
    <3>1. CASE i = n + 1
      <4>1. i # 1 /\ n \in 1 .. n + 1 /\ n # n + 1 /\ i - 1 = n
        BY <1>1, <2>2, <3>1
      <4>2. G[n + 1] = F[n] \o e /\ G[n] = F[n]
        BY <1>1, <4>1
      <4>. HIDE DEF G
      <4>. QED BY <1>1, <3>1, <4>1, <4>2
    <3>2. CASE i # n + 1
      <4>1. i \in 1 .. n /\ (i # 1 => i - 1 \in 1 .. n)
        BY <1>1, <3>2
      <4>2. G[i] = F[i] /\ (i # 1 => G[i - 1] = F[i - 1])
        BY <1>1, <3>2, <4>1
      <4>3. F[i] = IF i = 1 THEN s[i] ELSE F[i - 1] \o s[i]
        BY <2>1, <4>1 DEF Builds
      <4>. HIDE DEF G
      <4>. QED BY <1>1, <4>1, <4>2, <4>3
    <3>. QED BY <3>1, <3>2
  <2>4. DOMAIN G = 1 .. n + 1 /\ G[n + 1] = F[n] \o e
    BY <1>1
  <2>5. G = [i \in 1 .. n + 1 |-> G[i]]
    OBVIOUS
  <2>. HIDE DEF G
  <2>6. Builds(G, t)
    BY <1>1, <2>3, <2>4, <2>5 DEF Builds
  <2>7. FlattenSeq(t) = G[n + 1]
    BY <1>1, <2>6, FlattenIs
  <2>8. FlattenSeq(s) = F[n]
    BY <1>1, <2>1, <2>2, FlattenIs
  <2>. QED BY <2>4, <2>7, <2>8 DEF t
<1>. QED BY <1>2, <1>3

LEMMA Regrouped ==
    ASSUME NEW A, NEW u \in Seq(A), NEW v \in Seq(A), NEW w \in Seq(A)
    PROVE  u \o (v \o w) = (u \o v) \o w
OBVIOUS

LEMMA FlattenTail ==
    ASSUME NEW A, NEW s \in Seq(Seq(A)), s # <<>>
    PROVE  FlattenSeq(s) = Head(s) \o FlattenSeq(Tail(s))
<1>. DEFINE t == Tail(s)
            n == Len(t)
<1>1. /\ t \in Seq(Seq(A)) /\ Len(s) = n + 1 /\ n \in Nat /\ Head(s) = s[1]
      /\ s[1] \in Seq(A)
      /\ \A i \in 1 .. n : t[i] = s[i + 1] /\ t[i] \in Seq(A)
  BY HeadTailProperties
<1>. HIDE DEF t
<1>2. CASE t = <<>>
  <2>. DEFINE F == [i \in 1 .. 1 |-> s[1]]
  <2>1. n = 0 /\ Len(s) = 1
    BY <1>1, <1>2
  <2>2. Builds(F, s)
    BY <2>1 DEF Builds
  <2>3. FlattenSeq(s) = s[1]
    <3>1. F[1] = s[1] /\ Len(s) \in Nat \ {0}
      BY <2>1
    <3>. HIDE DEF F
    <3>2. FlattenSeq(s) = F[Len(s)]
      BY <2>2, <3>1, FlattenIs
    <3>. QED BY <2>1, <3>1, <3>2
  <2>4. s[1] \o <<>> = s[1]
    BY <1>1, ConcatEmptySeq
  <2>. QED BY <1>1, <1>2, <2>3, <2>4, FlattenNothing DEF t
<1>3. CASE t # <<>>
  <2>1. PICK F \in [1 .. n -> Seq(A)] : Builds(F, t)
    BY <1>1, <1>3, Unfolds
  <2>2. n > 0
    BY <1>1, <1>3
  <2>. DEFINE G == [i \in 1 .. n + 1 |-> IF i = 1 THEN s[1] ELSE s[1] \o F[i - 1]]
  <2>3. ASSUME NEW i \in 1 .. n + 1
        PROVE  G[i] = IF i = 1 THEN s[i] ELSE G[i - 1] \o s[i]
    <3>1. CASE i = 1
      BY <3>1
    <3>2. CASE i = 2
      <4>1. 2 \in 1 .. n + 1 /\ 1 \in 1 .. n + 1 /\ 1 \in 1 .. n
        BY <1>1, <2>2
      <4>2. G[2] = s[1] \o F[1] /\ G[1] = s[1]
        BY <4>1
      <4>3. F[1] = t[1] /\ t[1] = s[2]
        BY <1>1, <2>1, <4>1 DEF Builds
      <4>. HIDE DEF G
      <4>4. i - 1 = 1 /\ i # 1
        BY <3>2
      <4>. QED BY <3>2, <4>2, <4>3, <4>4
    <3>3. CASE i > 2
      <4>1. i - 1 \in 1 .. n /\ i - 2 \in 1 .. n /\ i - 1 \in 1 .. n + 1
            /\ i # 1 /\ i - 1 # 1 /\ (i - 1) - 1 = i - 2 /\ (i - 1) + 1 = i
        BY <1>1, <3>3
      <4>2. G[i] = s[1] \o F[i - 1] /\ G[i - 1] = s[1] \o F[i - 2]
        BY <4>1
      <4>3. F[i - 1] = F[i - 2] \o t[i - 1]
        BY <2>1, <4>1 DEF Builds
      <4>4. t[i - 1] = s[i] /\ t[i - 1] \in Seq(A) /\ F[i - 2] \in Seq(A)
        BY <1>1, <4>1
      <4>5. s[1] \o (F[i - 2] \o s[i]) = (s[1] \o F[i - 2]) \o s[i]
        <5>. DEFINE u == s[1]
                    v == F[i - 2]
                    w == s[i]
        <5>1. u \in Seq(A) /\ v \in Seq(A) /\ w \in Seq(A)
          BY <1>1, <4>4
        <5>. HIDE DEF u, v, w
        <5>2. u \o (v \o w) = (u \o v) \o w
          BY <5>1, Regrouped
        <5>. QED BY <5>2 DEF u, v, w
      <4>. HIDE DEF G
      <4>. QED BY <4>1, <4>2, <4>3, <4>4, <4>5
    <3>. QED BY <1>1, <3>1, <3>2, <3>3
  <2>4. DOMAIN G = 1 .. n + 1 /\ G[n + 1] = s[1] \o F[n] /\ G = [i \in 1 .. n + 1 |-> G[i]]
    <3>1. n + 1 \in 1 .. n + 1 /\ n + 1 # 1 /\ (n + 1) - 1 = n
      BY <1>1, <2>2
    <3>2. G[n + 1] = s[1] \o F[n]
      BY <3>1
    <3>. QED BY <3>2
  <2>. HIDE DEF G
  <2>5. Builds(G, s)
    BY <1>1, <2>3, <2>4 DEF Builds
  <2>6. FlattenSeq(s) = G[n + 1]
    BY <1>1, <2>5, FlattenIs
  <2>7. FlattenSeq(t) = F[n]
    BY <1>1, <2>1, <2>2, FlattenIs
  <2>. QED BY <1>1, <2>4, <2>6, <2>7 DEF t
<1>. QED BY <1>2, <1>3

---------------------------------------------------------------------------
(* What is on its way. *)

Sentences == Range(Corpus)
Messages  == {Batch(b) : b \in Seq(Sentences)} \cup {Done, Error}

Batches(c) == [i \in DOMAIN c |-> c[i].batch]
Carried(c) == FlattenSeq(Batches(c))

LEMMA SentIs == Sent = Carried(channel)
BY DEF Sent, Carried, Batches

LEMMA CarriedNothing == Carried(<<>>) = <<>>
<1>1. Batches(<<>>) = <<>>
  BY DEF Batches
<1>. QED BY <1>1, FlattenNothing DEF Carried

LEMMA MessagesCarry ==
    ASSUME NEW m \in Messages
    PROVE  m.batch \in Seq(Sentences)
<1>1. CASE m \in {Done, Error}
  <2>1. m.batch = <<>>
    BY <1>1 DEF Done, Error
  <2>2. <<>> \in Seq(Sentences)
    OBVIOUS
  <2>. QED BY <2>1, <2>2
<1>2. ASSUME NEW b \in Seq(Sentences), m = Batch(b)
      PROVE  m.batch \in Seq(Sentences)
  <2>1. m.batch = b
    BY <1>2 DEF Batch
  <2>. QED BY <2>1
<1>. QED BY <1>1, <1>2 DEF Messages

LEMMA CarriedAppend ==
    ASSUME NEW c \in Seq(Messages), NEW m \in Messages
    PROVE  /\ Carried(c) \in Seq(Sentences) /\ m.batch \in Seq(Sentences)
           /\ Carried(Append(c, m)) = Carried(c) \o m.batch
<1>1. \A x \in Messages : x.batch \in Seq(Sentences)
  BY MessagesCarry
<1>2. Batches(c) \in Seq(Seq(Sentences))
  BY <1>1 DEF Batches
<1>3. Batches(Append(c, m)) = Append(Batches(c), m.batch)
  BY DEF Batches
<1>. QED BY <1>1, <1>2, <1>3, FlattenAppend, FlattenIsSeq DEF Carried

LEMMA CarriedTail ==
    ASSUME NEW c \in Seq(Messages), c # <<>>
    PROVE  /\ Carried(Tail(c)) \in Seq(Sentences) /\ Head(c) \in Messages
           /\ Carried(c) = Head(c).batch \o Carried(Tail(c))
<1>1. \A x \in Messages : x.batch \in Seq(Sentences)
  BY MessagesCarry
<1>2. \A d \in Seq(Messages) : Batches(d) \in Seq(Seq(Sentences))
  BY <1>1 DEF Batches
<1>3. Batches(c) # <<>> /\ Tail(c) \in Seq(Messages) /\ Head(c) \in Messages
  BY DEF Batches
<1>4. Head(Batches(c)) = Head(c).batch /\ Tail(Batches(c)) = Batches(Tail(c))
  BY DEF Batches
<1>. QED BY <1>2, <1>3, <1>4, FlattenTail, FlattenIsSeq DEF Carried

---------------------------------------------------------------------------
(* The steps of the two threads, with the rest of the trainer left out.    *)

TypedFlow ==
    /\ setup \in Setups
    /\ producer \in [pc : {"read", "send", "last", "sendLast", "done", "error", "ended"},
                     pos : 0 .. Len(Corpus), batch : Seq(Sentences)]
    /\ channel \in Seq(Messages)
    /\ seen \in Seq(Sentences)
    /\ stopSignal \in BOOLEAN
    /\ consumer \in {"next", "busy", "drop", "drain", "join", "gone"}
    /\ stopSignal <=> consumer \in {"drain", "join", "gone"}

\* The sentences that are yielded, sent or in the batch.
Flow == seen \o Sent \o producer.batch

Whole == producer.pc \notin {"error", "ended"} \/ setup.panicsAt = 0

\* What flows is the corpus up to some sentence, and, unless the reader has
\* panicked, up to where it stands.
FlowInv ==
    /\ TypedFlow
    /\ producer.pc \in {"error", "done", "ended"} => producer.batch = <<>>
    /\ setup.panicsAt = 0 => producer.pc # "error"
    /\ ~ stopSignal =>
          /\ \E n \in 0 .. producer.pos : Flow = SubSeq(Corpus, 1, n)
          /\ Whole => Flow = SubSeq(Corpus, 1, producer.pos)
    /\ IsPrefix(seen, Corpus)

\* A step of the trainer, as the prefetcher sees it.
Moves ==
    /\ consumer = "busy"
    /\ consumer' \in {"busy", "next", "drop"}
    /\ UNCHANGED <<setup, producer, channel, stopSignal, seen>>

PrefetchNext ==
    \/ Produce
    \/ Receive
    \/ ReceiveEnd
    \/ Moves
    \/ Drop
    \/ PrefetchAgain /\ UNCHANGED setup
    \/ UNCHANGED <<setup, prefetchVars>>

LEMMA StepsAre == [Next]_vars => PrefetchNext
<1>. SUFFICES ASSUME [Next]_vars PROVE PrefetchNext
  OBVIOUS
<1>. USE DEF PrefetchNext
<1>1. CASE Produce \/ ReceiveEnd \/ Drop
  BY <1>1
<1>2. CASE NextBatch
  BY <1>2 DEF NextBatch
<1>3. CASE \E i \in DOMAIN tasks : CountNgram(i) \/ VocabularyFails(i)
  BY <1>3 DEF CountNgram, VocabularyFails
<1>4. CASE CountWords \/ TrainBatch
  BY <1>4 DEF CountWords, TrainBatch, Proceed, Moves
<1>5. CASE BatchDone \/ BatchPanics
  BY <1>5 DEF BatchDone, BatchPanics, Proceed, Unwind, Moves
<1>6. CASE TrainNgrams \/ BuildVocabulary \/ TrainCollected
  BY <1>6 DEF TrainNgrams, BuildVocabulary, TrainCollected
<1>7. CASE Epoch
  BY <1>7 DEF Epoch
<1>8. CASE UNCHANGED vars
  BY <1>8 DEF vars
<1>. QED BY <1>1, <1>2, <1>3, <1>4, <1>5, <1>6, <1>7, <1>8 DEF Next, Trainer

\* The corpus and its beginnings.
LEMMA CorpusFacts ==
    ASSUME setup \in Setups
    PROVE  /\ Corpus \in Seq(Sentences) /\ Len(Corpus) \in Nat
           /\ SubSeq(Corpus, 1, 0) = <<>>
           /\ \A n \in 0 .. Len(Corpus) : SubSeq(Corpus, 1, n) \in Seq(Sentences)
           /\ \A n \in 0 .. Len(Corpus) - 1 :
                 /\ Corpus[n + 1] \in Sentences
                 /\ SubSeq(Corpus, 1, n + 1) = Append(SubSeq(Corpus, 1, n), Corpus[n + 1])
<1>1. Corpus \in Seq(Sentences) /\ Len(Corpus) \in Nat
  BY SetupsAssumption DEF Corpus, Sentences
<1>. DEFINE c == Corpus
<1>2. c \in Seq(Sentences) /\ Len(c) \in Nat
  BY <1>1
<1>. HIDE DEF c
<1>. QED BY <1>2 DEF c

LEMMA BeginningIsPrefix ==
    ASSUME NEW A, NEW c \in Seq(A), NEW n \in 0 .. Len(c),
           NEW s \in Seq(A), NEW t \in Seq(A), s \o t = SubSeq(c, 1, n)
    PROVE  IsPrefix(s, c)
<1>1. Len(s) + Len(t) = n
  <2>1. Len(s \o t) = Len(s) + Len(t)
    BY ConcatProperties
  <2>2. Len(SubSeq(c, 1, n)) = n
    OBVIOUS
  <2>. QED BY <2>1, <2>2
<1>2. ASSUME NEW i \in 1 .. Len(s) PROVE s[i] = c[i]
  <2>1. (s \o t)[i] = s[i]
    BY ConcatProperties
  <2>2. i \in 1 .. n
    BY <1>1
  <2>3. SubSeq(c, 1, n)[i] = c[i]
    BY <2>2
  <2>. QED BY <2>1, <2>3
<1>3. Len(s) <= Len(c)
  BY <1>1
<1>4. SubSeq(s, 1, Len(s)) = SubSeq(c, 1, Len(s))
  BY <1>2, <1>3
<1>. QED BY <1>3, <1>4 DEF IsPrefix

LEMMA FlowTypes ==
    ASSUME TypedFlow
    PROVE  /\ Sent \in Seq(Sentences) /\ seen \in Seq(Sentences)
           /\ producer.batch \in Seq(Sentences)
           /\ channel \in Seq(Messages) /\ setup \in Setups
           /\ producer.pos \in Nat /\ producer.pos <= Len(Corpus)
           /\ producer.pos \in 0 .. Len(Corpus)
<1>1. Done \in Messages
  BY DEF Messages
<1>2. Len(Corpus) \in Nat
  BY CorpusFacts DEF TypedFlow
<1>. QED BY <1>1, <1>2, CarriedAppend, SentIs DEF TypedFlow

LEMMA InitFlow ==
    ASSUME setup \in Setups,
           producer = Fresh.producer, channel = Fresh.channel,
           stopSignal = Fresh.stopSignal, consumer = Fresh.consumer, seen = Fresh.seen
    PROVE  FlowInv
<1>1. TypedFlow
  BY CorpusFacts DEF TypedFlow, Fresh
<1>2. Flow = <<>>
  <2>1. Sent = <<>>
    BY SentIs, CarriedNothing DEF Fresh
  <2>. QED BY <2>1 DEF Flow, Fresh
<1>3. IsPrefix(seen, Corpus)
  BY CorpusFacts DEF Fresh, IsPrefix
<1>. QED BY <1>1, <1>2, <1>3, CorpusFacts DEF FlowInv, Fresh

\* A step that leaves the corpus and what flows as it is.
LEMMA FlowStays ==
    ASSUME FlowInv, TypedFlow', setup' = setup, seen' = seen, stopSignal' = stopSignal,
           Sent' \o producer'.batch = Sent \o producer.batch,
           producer'.pos = producer.pos,
           producer'.pc \in {"error", "done", "ended"} => producer'.batch = <<>>,
           setup.panicsAt = 0 => producer'.pc # "error",
           Whole' => Whole
    PROVE  FlowInv'
<1>1. Sent \in Seq(Sentences) /\ seen \in Seq(Sentences) /\ producer.batch \in Seq(Sentences)
  BY FlowTypes DEF FlowInv
<1>2. Sentences' = Sentences /\ Corpus' = Corpus
  BY DEF Sentences, Corpus
<1>3. Sent' \in Seq(Sentences) /\ producer'.batch \in Seq(Sentences)
  <2>1. channel' \in Seq(Messages) /\ producer'.batch \in Seq(Sentences)
    BY <1>2 DEF TypedFlow, Messages
  <2>2. Done \in Messages
    BY DEF Messages
  <2>. QED BY <2>1, <2>2, CarriedAppend DEF Sent, Carried, Batches
<1>4. Flow' = Flow
  <2>. DEFINE a == seen
              b == Sent
              c == producer.batch
              d == Sent'
              e == producer'.batch
  <2>1. /\ a \in Seq(Sentences) /\ b \in Seq(Sentences) /\ c \in Seq(Sentences)
        /\ d \in Seq(Sentences) /\ e \in Seq(Sentences)
    BY <1>1, <1>3
  <2>2. d \o e = b \o c
    OBVIOUS
  <2>3. Flow = (a \o b) \o c /\ Flow' = (a \o d) \o e
    BY DEF Flow
  <2>. HIDE DEF a, b, c, d, e
  <2>4. (a \o b) \o c = a \o (b \o c)
    BY <2>1
  <2>5. (a \o d) \o e = a \o (d \o e)
    BY <2>1
  <2>. QED BY <2>2, <2>3, <2>4, <2>5
<1>. QED BY <1>2, <1>4 DEF FlowInv

LEMMA ReadFlow ==
    ASSUME FlowInv, ReadSentence PROVE FlowInv'
<1>. DEFINE p == producer.pos
            x == Corpus[p + 1]
<1>1. /\ p \in Nat /\ p < Len(Corpus) /\ p \in 0 .. Len(Corpus) - 1 /\ Len(Corpus) \in Nat
      /\ x \in Sentences /\ SubSeq(Corpus, 1, p + 1) = Append(SubSeq(Corpus, 1, p), x)
      /\ producer.pc = "read" /\ setup' = setup /\ seen' = seen /\ stopSignal' = stopSignal
      /\ channel' = channel /\ consumer' = consumer
  <2>1. p < Len(Corpus) /\ producer.pc = "read" /\ UNCHANGED <<setup, seen, stopSignal, channel, consumer>>
    BY DEF ReadSentence, HasSentence, Producing
  <2>2. p \in Nat /\ Len(Corpus) \in Nat /\ setup \in Setups
    BY CorpusFacts DEF FlowInv, TypedFlow
  <2>3. p \in 0 .. Len(Corpus) - 1
    BY <2>1, <2>2
  <2>4. x \in Sentences /\ SubSeq(Corpus, 1, p + 1) = Append(SubSeq(Corpus, 1, p), x)
    BY <2>2, <2>3, CorpusFacts
  <2>. QED BY <2>1, <2>2, <2>3, <2>4
<1>2. /\ producer.batch \in Seq(Sentences) /\ Sent \in Seq(Sentences) /\ seen \in Seq(Sentences)
  BY FlowTypes DEF FlowInv
<1>3. /\ producer'.pos = p + 1
      /\ producer' \in [pc : {"read", "send", "last"}, pos : {p + 1}, batch : Seq(Sentences)]
      /\ ~ stopSignal => producer'.batch = Append(producer.batch, x)
  <2>1. Append(producer.batch, x) \in Seq(Sentences)
    BY <1>1, <1>2
  <2>. DEFINE b == Append(producer.batch, x)
  <2>2. CASE stopSignal
    <3>1. producer' = [producer EXCEPT !.pc = "last", !.pos = p + 1]
      BY <2>2 DEF ReadSentence
    <3>. QED BY <2>2, <3>1, <1>2 DEF FlowInv, TypedFlow
  <2>3. CASE ~ stopSignal
    <3>1. producer' = [pc |-> IF Len(b) >= setup.batchSize THEN "send" ELSE "read",
                       pos |-> p + 1, batch |-> b]
      BY <2>3 DEF ReadSentence
    <3>. HIDE DEF b
    <3>. QED BY <2>1, <2>3, <3>1 DEF b
  <2>. QED BY <2>2, <2>3
<1>. HIDE DEF p, x
<1>4. TypedFlow'
  <2>1. Corpus' = Corpus /\ Sentences' = Sentences /\ Messages' = Messages
    BY <1>1 DEF Corpus, Sentences, Messages
  <2>2. p + 1 \in 0 .. Len(Corpus)
    BY <1>1
  <2>. QED BY <1>1, <1>3, <2>1, <2>2 DEF FlowInv, TypedFlow
<1>5. ASSUME ~ stopSignal PROVE Flow' = SubSeq(Corpus, 1, p + 1)
  <2>1. Flow = SubSeq(Corpus, 1, p)
    BY <1>1, <1>5 DEF FlowInv, Whole, p
  <2>2. Flow' = (seen \o Sent) \o Append(producer.batch, x)
    BY <1>1, <1>3, <1>5 DEF Flow, Sent
  <2>3. Flow' = Append(Flow, x)
    <3>. DEFINE u == seen \o Sent
                b == producer.batch
    <3>1. u \in Seq(Sentences) /\ b \in Seq(Sentences)
      BY <1>2
    <3>2. Flow' = u \o Append(b, x) /\ Flow = u \o b
      BY <2>2 DEF Flow
    <3>. HIDE DEF u, b
    <3>3. u \o Append(b, x) = Append(u \o b, x)
      BY <3>1, <1>1
    <3>. QED BY <3>2, <3>3
  <2>. QED BY <1>1, <2>1, <2>3
<1>6. Corpus' = Corpus /\ p + 1 \in 0 .. producer'.pos
  BY <1>1, <1>3 DEF Corpus
<1>. QED BY <1>1, <1>3, <1>4, <1>5, <1>6 DEF FlowInv

LEMMA SendFlow ==
    ASSUME FlowInv, NEW m \in Messages, m.batch = producer.batch,
           NEW next \in {"read", "done", "ended"}, Send(m, next),
           producer.pc # "ended", producer.pc = "error" => next = "ended",
           next = "ended" => producer.pc \in {"error", "done"},
           UNCHANGED <<setup, stopSignal, consumer, seen>>
    PROVE  FlowInv'
<1>1. Sent \in Seq(Sentences) /\ producer.batch \in Seq(Sentences) /\ channel \in Seq(Messages)
  BY FlowTypes DEF FlowInv
<1>2. Sent' = Sent \o producer.batch
  BY <1>1, CarriedAppend DEF Send, Sent, Carried, Batches
<1>3. producer' = [producer EXCEPT !.pc = next, !.batch = <<>>]
  BY DEF Send
<1>4. /\ producer'.pc = next /\ producer'.batch = <<>> /\ producer'.pos = producer.pos
      /\ producer' \in [pc : {"read", "done", "ended"}, pos : 0 .. Len(Corpus),
                        batch : Seq(Sentences)]
  <2>1. /\ producer \in [pc : {"read", "send", "last", "sendLast", "done", "error", "ended"},
                        pos : 0 .. Len(Corpus), batch : Seq(Sentences)]
        /\ <<>> \in Seq(Sentences)
    BY DEF FlowInv, TypedFlow
  <2>. QED BY <1>3, <2>1
<1>5. TypedFlow'
  <2>1. Corpus' = Corpus /\ Sentences' = Sentences /\ Messages' = Messages
    BY DEF Corpus, Sentences, Messages
  <2>2. channel' \in Seq(Messages)
    BY <1>1 DEF Send
  <2>. QED BY <1>4, <2>1, <2>2 DEF FlowInv, TypedFlow
<1>6. Sent' \o producer'.batch = Sent \o producer.batch
  <2>1. Sent \o producer.batch \in Seq(Sentences)
    BY <1>1
  <2>. QED BY <1>2, <1>4, <2>1, ConcatEmptySeq
<1>7. Whole' => Whole
  BY <1>4 DEF Whole
<1>. QED BY <1>4, <1>5, <1>6, <1>7, FlowStays

LEMMA ProduceFlow ==
    ASSUME FlowInv, Produce PROVE FlowInv'
<1>1. /\ producer.batch \in Seq(Sentences) /\ Batch(producer.batch) \in Messages
      /\ Done \in Messages /\ Error \in Messages
      /\ Batch(producer.batch).batch = producer.batch
      /\ Done.batch = <<>> /\ Error.batch = <<>>
  BY FlowTypes DEF FlowInv, Messages, Batch, Done, Error
<1>2. CASE ReadSentence
  BY <1>2, ReadFlow
<1>3. CASE SendBatch
  BY <1>1, <1>3, SendFlow DEF SendBatch, Producing
<1>4. CASE SendLast
  BY <1>1, <1>4, SendFlow DEF SendLast, Producing
<1>5. CASE SendDone
  <2>1. producer.pc = "done" /\ producer.batch = <<>>
    BY <1>5 DEF SendDone, Producing, FlowInv
  <2>. QED BY <1>1, <1>5, <2>1, SendFlow DEF SendDone, Producing
<1>6. CASE SendError
  <2>1. producer.pc = "error" /\ producer.batch = <<>>
    BY <1>6 DEF SendError, Producing, FlowInv
  <2>. QED BY <1>1, <1>6, <2>1, SendFlow DEF SendError, Producing
<1>7. CASE EndOfCorpus
  <2>1. /\ producer.pc = "read" /\ UNCHANGED <<setup, stopSignal, consumer, seen, channel>>
        /\ producer' = [producer EXCEPT !.pc = "last"]
    BY <1>7 DEF EndOfCorpus, Producing
  <2>2. /\ producer'.pc = "last" /\ producer'.pos = producer.pos
        /\ producer'.batch = producer.batch
        /\ producer' \in [pc : {"last"}, pos : 0 .. Len(Corpus), batch : Seq(Sentences)]
    BY <2>1 DEF FlowInv, TypedFlow
  <2>3. TypedFlow'
    BY <2>1, <2>2 DEF FlowInv, TypedFlow, Corpus, Sentences, Messages
  <2>4. Sent' = Sent
    BY <2>1 DEF Sent
  <2>. QED BY <2>1, <2>2, <2>3, <2>4, FlowStays DEF Whole
<1>8. CASE ReaderPanics
  <2>1. /\ producer.pc = "read" /\ UNCHANGED <<setup, stopSignal, consumer, seen, channel>>
        /\ producer' = [producer EXCEPT !.pc = "error", !.batch = <<>>]
        /\ setup.panicsAt = producer.pos + 1
    BY <1>8 DEF ReaderPanics, Producing
  <2>2. /\ producer'.pc = "error" /\ producer'.pos = producer.pos
        /\ producer'.batch = <<>>
        /\ producer' \in [pc : {"error"}, pos : 0 .. Len(Corpus), batch : Seq(Sentences)]
    <3>1. /\ producer \in [pc : {"read", "send", "last", "sendLast", "done", "error", "ended"},
                        pos : 0 .. Len(Corpus), batch : Seq(Sentences)]
        /\ <<>> \in Seq(Sentences)
      BY DEF FlowInv, TypedFlow
    <3>. QED BY <2>1, <3>1
  <2>3. TypedFlow'
    BY <2>1, <2>2 DEF FlowInv, TypedFlow, Corpus, Sentences, Messages
  <2>4. setup.panicsAt # 0
    BY <2>1, FlowTypes DEF FlowInv
  <2>5. ASSUME ~ stopSignal
        PROVE  \E n \in 0 .. producer.pos : Flow' = SubSeq(Corpus, 1, n)
    <3>. DEFINE u == seen \o Sent
    <3>1. u \in Seq(Sentences) /\ producer.batch \in Seq(Sentences) /\ Corpus \in Seq(Sentences)
      BY FlowTypes, CorpusFacts DEF FlowInv
    <3>2. Flow' = u
      <4>1. Flow' = u \o <<>>
        BY <2>1, <2>2 DEF Flow, Sent
      <4>. HIDE DEF u
      <4>. QED BY <3>1, <4>1, ConcatEmptySeq
    <3>3. Flow = u \o producer.batch
      BY DEF Flow
    <3>4. PICK n \in 0 .. producer.pos : Flow = SubSeq(Corpus, 1, n)
      BY <2>5 DEF FlowInv
    <3>5. n \in 0 .. Len(Corpus) /\ producer.pos \in Nat
      BY <3>4, FlowTypes DEF FlowInv
    <3>. HIDE DEF u
    <3>6. IsPrefix(u, Corpus)
      BY <3>1, <3>3, <3>4, <3>5, BeginningIsPrefix
    <3>7. u = SubSeq(Corpus, 1, Len(u))
      BY <3>1, <3>6 DEF IsPrefix
    <3>8. Len(u) \in 0 .. producer.pos
      <4>1. Len(SubSeq(Corpus, 1, n)) = n
        BY <3>1, <3>5
      <4>2. Len(u \o producer.batch) = Len(u) + Len(producer.batch)
        BY <3>1, ConcatProperties
      <4>. QED BY <3>1, <3>3, <3>4, <3>5, <4>1, <4>2
    <3>. QED BY <3>2, <3>7, <3>8
  <2>. QED BY <2>1, <2>2, <2>3, <2>4, <2>5 DEF FlowInv, Whole, Corpus
<1>9. CASE CheckLast
  <2>1. /\ producer.pc = "last" /\ UNCHANGED <<setup, stopSignal, consumer, seen, channel>>
        /\ producer' = IF producer.batch # <<>> /\ ~ stopSignal
                       THEN [producer EXCEPT !.pc = "sendLast"]
                       ELSE [producer EXCEPT !.pc = "done", !.batch = <<>>]
    BY <1>9 DEF CheckLast, Producing
  <2>2. /\ producer'.pc \in {"sendLast", "done"} /\ producer'.pos = producer.pos
        /\ producer'.pc = "done" => producer'.batch = <<>>
        /\ producer' \in [pc : {"sendLast", "done"}, pos : 0 .. Len(Corpus), batch : Seq(Sentences)]
        /\ ~ stopSignal => producer'.batch = producer.batch
    <3>1. /\ producer \in [pc : {"read", "send", "last", "sendLast", "done", "error", "ended"},
                        pos : 0 .. Len(Corpus), batch : Seq(Sentences)]
        /\ <<>> \in Seq(Sentences)
      BY DEF FlowInv, TypedFlow
    <3>. QED BY <2>1, <3>1
  <2>3. TypedFlow'
    BY <2>1, <2>2 DEF FlowInv, TypedFlow, Corpus, Sentences, Messages
  <2>4. ~ stopSignal => Flow' = Flow
    BY <2>1, <2>2 DEF Flow, Sent
  <2>5. Whole
    BY <2>1 DEF Whole
  <2>. QED BY <2>1, <2>2, <2>3, <2>4, <2>5 DEF FlowInv, Corpus
<1>. QED BY <1>2, <1>3, <1>4, <1>5, <1>6, <1>7, <1>8, <1>9 DEF Produce

LEMMA ReceiveFlow ==
    ASSUME FlowInv, Receive \/ ReceiveEnd PROVE FlowInv'
<1>1. /\ channel \in Seq(Messages) /\ channel # <<>> /\ ~ stopSignal
      /\ consumer = "next" /\ channel' = Tail(channel)
      /\ UNCHANGED <<setup, producer, stopSignal>>
  BY DEF FlowInv, TypedFlow, Receive, ReceiveEnd
<1>2. /\ seen \in Seq(Sentences) /\ Head(channel).batch \in Seq(Sentences)
      /\ Carried(Tail(channel)) \in Seq(Sentences) /\ producer.batch \in Seq(Sentences)
      /\ Sent = Head(channel).batch \o Carried(Tail(channel))
  BY <1>1, CarriedTail, MessagesCarry, FlowTypes, SentIs DEF FlowInv
<1>3. seen' = seen \o Head(channel).batch
  <2>1. CASE Receive
    BY <2>1 DEF Receive
  <2>2. CASE ReceiveEnd
    <3>1. Head(channel) \in Messages /\ Head(channel).type # "Batch" /\ seen' = seen
      BY <1>1, <2>2, CarriedTail DEF ReceiveEnd
    <3>2. Head(channel).batch = <<>>
      BY <3>1 DEF Messages, Batch, Done, Error
    <3>. QED BY <1>2, <3>1, <3>2, ConcatEmptySeq
  <2>. QED BY <2>1, <2>2
<1>4. Sent' = Carried(Tail(channel))
  BY <1>1 DEF Sent, Carried, Batches
<1>5. seen' \o Sent' = seen \o Sent /\ seen' \in Seq(Sentences)
  <2>. DEFINE a == seen
              b == Head(channel).batch
              c == Carried(Tail(channel))
  <2>1. a \in Seq(Sentences) /\ b \in Seq(Sentences) /\ c \in Seq(Sentences)
    BY <1>2
  <2>2. seen' \o Sent' = (a \o b) \o c /\ seen \o Sent = a \o (b \o c) /\ seen' = a \o b
    BY <1>2, <1>3, <1>4
  <2>. HIDE DEF a, b, c
  <2>. QED BY <2>1, <2>2, Regrouped
<1>6. Flow' = Flow /\ Corpus' = Corpus /\ Whole' = Whole /\ Sentences' = Sentences
      /\ Messages' = Messages
  BY <1>1, <1>5 DEF Flow, Corpus, Whole, Sentences, Messages
<1>7. TypedFlow'
  <2>1. channel' \in Seq(Messages) /\ consumer' \in {"busy", "drop"}
    BY <1>1 DEF Receive, ReceiveEnd
  <2>. QED BY <1>1, <1>5, <1>6, <2>1 DEF FlowInv, TypedFlow
<1>8. IsPrefix(seen', Corpus)
  <2>. DEFINE v == Sent' \o producer.batch
  <2>1. v \in Seq(Sentences) /\ Sent' \in Seq(Sentences)
    BY <1>2, <1>4
  <2>2. PICK n \in 0 .. producer.pos : Flow' = SubSeq(Corpus, 1, n)
    BY <1>1, <1>6 DEF FlowInv
  <2>3. n \in 0 .. Len(Corpus) /\ Corpus \in Seq(Sentences)
    BY <2>2, FlowTypes, CorpusFacts DEF FlowInv
  <2>4. Flow' = seen' \o v
    <3>1. Flow' = (seen' \o Sent') \o producer.batch
      BY <1>1 DEF Flow
    <3>2. (seen' \o Sent') \o producer.batch = seen' \o v
      <4>. DEFINE a == seen'
                  b == Sent'
                  c == producer.batch
      <4>1. a \in Seq(Sentences) /\ b \in Seq(Sentences) /\ c \in Seq(Sentences)
        BY <1>2, <1>5, <2>1
      <4>2. v = b \o c
        OBVIOUS
      <4>. HIDE DEF a, b, c, v
      <4>3. (a \o b) \o c = a \o (b \o c)
        BY <4>1
      <4>. QED BY <4>2, <4>3 DEF a, b, c
    <3>. QED BY <3>1, <3>2
  <2>. HIDE DEF v
  <2>. QED BY <1>5, <2>1, <2>2, <2>3, <2>4, BeginningIsPrefix
<1>. QED BY <1>1, <1>6, <1>7, <1>8 DEF FlowInv

LEMMA FlowStep ==
    ASSUME FlowInv, PrefetchNext PROVE FlowInv'
<1>1. CASE Produce
  BY <1>1, ProduceFlow
<1>2. CASE Receive \/ ReceiveEnd
  BY <1>2, ReceiveFlow
<1>3. CASE Moves \/ UNCHANGED <<setup, prefetchVars>>
  <2>1. UNCHANGED <<setup, producer, channel, stopSignal, seen>>
        /\ \/ consumer' = consumer
           \/ consumer = "busy" /\ consumer' \in {"busy", "next", "drop"}
    BY <1>3 DEF Moves, prefetchVars
  <2>. QED BY <2>1 DEF FlowInv, TypedFlow, Flow, Whole, Sent, Corpus, Sentences, Messages
<1>4. CASE Drop
  <2>1. /\ UNCHANGED <<setup, seen, producer>> /\ stopSignal'
        /\ channel' = channel \/ (channel # <<>> /\ channel' = Tail(channel))
        /\ consumer' \in {"drain", "join", "gone"}
    BY <1>4 DEF Drop, SignalStop, Drain, Join, FlowInv, TypedFlow
  <2>2. channel' \in Seq(Messages) /\ stopSignal' \in BOOLEAN
    <3>1. channel \in Seq(Messages)
      BY DEF FlowInv, TypedFlow
    <3>2. channel # <<>> => Tail(channel) \in Seq(Messages)
      BY <3>1
    <3>3. stopSignal' \in BOOLEAN
      BY <1>4 DEF FlowInv, TypedFlow, Drop, SignalStop, Drain, Join
    <3>. QED BY <2>1, <3>1, <3>2, <3>3
  <2>. QED BY <2>1, <2>2 DEF FlowInv, TypedFlow, Corpus, Sentences, Messages
<1>5. CASE PrefetchAgain /\ UNCHANGED setup
  <2>1. /\ setup \in Setups /\ setup' = setup
        /\ producer' = Fresh.producer /\ channel' = <<>> /\ stopSignal' = FALSE
        /\ consumer' = "next" /\ seen' = <<>>
    BY <1>5 DEF PrefetchAgain, FlowInv, TypedFlow, Fresh
  <2>2. /\ producer'.pc = "read" /\ producer'.pos = 0 /\ producer'.batch = <<>>
        /\ producer' = [pc |-> "read", pos |-> 0, batch |-> <<>>]
    BY <2>1 DEF Fresh
  <2>3. Corpus' = Corpus /\ Sentences' = Sentences /\ Messages' = Messages
    BY <2>1 DEF Corpus, Sentences, Messages
  <2>4. TypedFlow'
    <3>1. 0 \in 0 .. Len(Corpus) /\ <<>> \in Seq(Sentences) /\ <<>> \in Seq(Messages)
      BY <2>1, CorpusFacts
    <3>2. producer' \in [pc : {"read"}, pos : 0 .. Len(Corpus), batch : Seq(Sentences)]
      BY <2>2, <3>1
    <3>. QED BY <2>1, <2>3, <3>1, <3>2 DEF TypedFlow
  <2>5. Flow' = <<>>
    <3>1. Sent' = <<>>
      BY <2>1, CarriedNothing DEF Sent, Carried, Batches
    <3>. QED BY <2>1, <2>2, <3>1 DEF Flow
  <2>6. IsPrefix(seen', Corpus)
    BY <2>1, CorpusFacts DEF IsPrefix
  <2>. QED BY <2>1, <2>2, <2>3, <2>4, <2>5, <2>6, CorpusFacts DEF FlowInv
<1>. QED BY <1>1, <1>2, <1>3, <1>4, <1>5 DEF PrefetchNext

\* What the trainers loop over is the corpus, in order and once: in every
\* pass, for any batches and any channel, whoever is ahead.
THEOREM CorpusComesInOrder == Spec => []CorpusInOrder
<1>1. Init => FlowInv
  BY InitFlow DEF Init, PrefetchInit
<1>2. FlowInv /\ [Next]_vars => FlowInv'
  BY FlowStep, StepsAre
<1>3. FlowInv => CorpusInOrder
  BY DEF FlowInv, CorpusInOrder, Whole, Flow
<1>. QED BY <1>1, <1>2, <1>3, PTL DEF Spec

---------------------------------------------------------------------------
(* The bounds of the batch and of the channel. *)

Fullest == Max({1, setup.batchSize})

LEMMA GreaterOfTwo ==
    ASSUME NEW x \in Nat, NEW y \in Nat
    PROVE  /\ Max({x, y}) \in Nat /\ Max({x, y}) >= x /\ Max({x, y}) >= y
           /\ Min({x, y}) \in Nat
<1>1. \E m \in {x, y} : \A n \in {x, y} : m >= n
  BY x >= y \/ y >= x
<1>2. \E m \in {x, y} : \A n \in {x, y} : n >= m
  BY x >= y \/ y >= x
<1>3. Max({x, y}) \in {x, y} /\ \A n \in {x, y} : Max({x, y}) >= n
  BY <1>1 DEF Max
<1>4. Min({x, y}) \in {x, y}
  BY <1>2 DEF Min
<1>. QED BY <1>3, <1>4

LEMMA Limits ==
    ASSUME setup \in Setups
    PROVE  /\ Capacity \in Nat /\ Fullest \in Nat /\ Fullest >= 1
           /\ setup.batchSize \in Nat /\ Fullest >= setup.batchSize
BY SetupsAssumption, GreaterOfTwo DEF Capacity, Fullest

\* A batch that is being read has room for one more sentence.
RoomInv ==
    /\ Len(channel) <= Capacity
    /\ Len(producer.batch) <= Fullest
    /\ producer.pc = "read" => Len(producer.batch) < Fullest

LEMMA RoomStep ==
    ASSUME FlowInv, RoomInv, PrefetchNext PROVE RoomInv'
<1>0. /\ setup \in Setups /\ setup' = setup
      /\ Len(channel) \in Nat /\ Len(producer.batch) \in Nat
      /\ producer.batch \in Seq(Sentences) /\ channel \in Seq(Messages)
  BY FlowTypes DEF FlowInv, PrefetchNext, Produce, Producing, ReadSentence, EndOfCorpus,
     ReaderPanics, SendBatch, CheckLast, SendLast, SendDone, SendError, Receive, ReceiveEnd,
     Moves, Drop, SignalStop, Drain, Join
<1>1. Capacity' = Capacity /\ Fullest' = Fullest
  BY <1>0 DEF Capacity, Fullest
<1>2. CASE ReadSentence
  <2>1. channel' = channel /\ producer.pc = "read"
    BY <1>2 DEF ReadSentence, Producing
  <2>2. CASE stopSignal
    <3>1. producer' = [producer EXCEPT !.pc = "last", !.pos = @ + 1]
      BY <1>2, <2>2 DEF ReadSentence
    <3>2. producer'.batch = producer.batch /\ producer'.pc = "last"
      BY <3>1 DEF FlowInv, TypedFlow
    <3>. QED BY <1>1, <2>1, <3>2 DEF RoomInv
  <2>3. CASE ~ stopSignal
    <3>. DEFINE b == Append(producer.batch, Corpus[producer.pos + 1])
    <3>1. producer' = [pc |-> IF Len(b) >= setup.batchSize THEN "send" ELSE "read",
                       pos |-> producer.pos + 1, batch |-> b]
      BY <1>2, <2>3 DEF ReadSentence
    <3>2. Len(b) = Len(producer.batch) + 1
      BY <1>0
    <3>. HIDE DEF b
    <3>. QED BY <1>0, <1>1, <2>1, <3>1, <3>2, Limits DEF RoomInv
  <2>. QED BY <2>2, <2>3
<1>3. CASE EndOfCorpus \/ ReaderPanics \/ CheckLast
  <2>1. /\ producer' \in {[producer EXCEPT !.pc = "last"],
                          [producer EXCEPT !.pc = "error", !.batch = <<>>],
                          [producer EXCEPT !.pc = "sendLast"],
                          [producer EXCEPT !.pc = "done", !.batch = <<>>]}
        /\ channel' = channel
    BY <1>3 DEF EndOfCorpus, ReaderPanics, CheckLast
  <2>2. producer'.pc # "read" /\ producer'.batch \in {producer.batch, <<>>}
    BY <2>1 DEF FlowInv, TypedFlow
  <2>. QED BY <1>0, <1>1, <2>1, <2>2, Limits DEF RoomInv
<1>4. ASSUME NEW m, NEW next, Send(m, next) PROVE RoomInv'
  <2>1. /\ Len(channel') = Len(channel) + 1 /\ Len(channel) < Capacity
        /\ producer' = [producer EXCEPT !.pc = next, !.batch = <<>>]
    BY <1>0, <1>4 DEF Send
  <2>2. producer'.batch = <<>>
    BY <2>1 DEF FlowInv, TypedFlow
  <2>. QED BY <1>0, <1>1, <2>1, <2>2, Limits DEF RoomInv
<1>5. CASE SendBatch \/ SendLast \/ SendDone \/ SendError
  BY <1>4, <1>5 DEF SendBatch, SendLast, SendDone, SendError
<1>6. CASE Receive \/ ReceiveEnd \/ Drop
  <2>1. producer' = producer /\ (channel' = channel \/ (channel # <<>> /\ channel' = Tail(channel)))
    BY <1>6 DEF Receive, ReceiveEnd, Drop, SignalStop, Drain, Join
  <2>2. channel # <<>> => Len(Tail(channel)) = Len(channel) - 1
    BY <1>0
  <2>. QED BY <1>0, <1>1, <2>1, <2>2, Limits DEF RoomInv
<1>7. CASE Moves \/ UNCHANGED <<setup, prefetchVars>>
  BY <1>1, <1>7 DEF Moves, prefetchVars, RoomInv
<1>8. CASE PrefetchAgain
  BY <1>0, <1>1, <1>8, Limits DEF PrefetchAgain, Fresh, RoomInv
<1>. QED BY <1>2, <1>3, <1>5, <1>6, <1>7, <1>8 DEF PrefetchNext, Produce

\* The prefetcher is well typed, the batch that is filled and the channel stay
\* within their bounds, and the producer never reads past the corpus.
THEOREM Typing == Spec => []PrefetchTypeOK
<1>1. Init => FlowInv /\ RoomInv
  BY InitFlow, Limits DEF Init, PrefetchInit, Fresh, RoomInv
<1>2. FlowInv /\ RoomInv /\ [Next]_vars => (FlowInv /\ RoomInv)'
  BY FlowStep, RoomStep, StepsAre
<1>3. FlowInv /\ RoomInv => PrefetchTypeOK
  BY DEF FlowInv, TypedFlow, RoomInv, PrefetchTypeOK, Fullest
<1>. QED BY <1>1, <1>2, <1>3, PTL DEF Spec
===========================================================================
