------------------------ MODULE NgramPipelineProofs ------------------------
(***************************************************************************)
(* Proofs about NgramPipeline, for any words, files, lines, workers,       *)
(* storage, CPUs and number of sessions: the keys of the vocabulary decode *)
(* and never collide, what is stored of an n-gram is the sum of its lines  *)
(* or a multiple of it, a lookup finds it, the statistics count it once,   *)
(* and the merge keeps it whole.                                           *)
(*                                                                         *)
(* The first sections are about the operators: folds, varints, keys, sums. *)
(* Then the state of the import is given names, and the invariant is that  *)
(* of the tries, of the jobs and of the files that are done.               *)
(***************************************************************************)
EXTENDS NgramPipeline, FiniteSetTheorems, SequenceTheorems, WellFoundedInduction, TLAPS

---------------------------------------------------------------------------
(* Induction, over sets instead of predicates.                             *)

Less == {ss \in Nat \X Nat : ss[1] < ss[2]}

\* A set of numbers has a least one.
LEMMA LeastOf ==
    ASSUME NEW T \in SUBSET Nat, T # {}
    PROVE  \E n \in T : \A m \in T : n <= m
<1>1. IsWellFoundedOn(Less, Nat)
  BY NatLessThanWellFounded DEF OpToRel, Less
<1>2. PICK n \in T : \A m \in T : ~ (<<m, n>> \in Less)
  <2>1. T \subseteq Nat /\ T # {}
    OBVIOUS
  <2>. HIDE DEF Less
  <2>. QED BY <1>1, <2>1, WFMin
<1>3. \A i, j \in Nat : i < j => <<i, j>> \in Less
  BY DEF Less
<1>4. ASSUME NEW m \in T PROVE n <= m
  <2>1. m \in Nat /\ n \in Nat
    OBVIOUS
  <2>2. ~ (m < n)
    BY ONLY <1>2, <1>3, <2>1, m \in T
  <2>. QED BY ONLY <2>1, <2>2
<1>. QED BY <1>4

\* A set of numbers that has n whenever it has all below n has all numbers.
LEMMA Induction ==
    ASSUME NEW S \in SUBSET Nat,
           \A n \in Nat : (\A m \in 0 .. n - 1 : m \in S) => n \in S
    PROVE  S = Nat
<1>. DEFINE T == Nat \ S
<1>1. SUFFICES ASSUME T # {} PROVE FALSE
  OBVIOUS
<1>2. PICK n \in T : \A m \in T : n <= m
  <2>1. T \in SUBSET Nat
    OBVIOUS
  <2>. HIDE DEF T
  <2>. QED BY <1>1, <2>1, LeastOf
<1>3. ASSUME NEW m \in 0 .. n - 1 PROVE m \in S
  BY <1>2
<1>. QED BY <1>3

\* The least element of a set of naturals.
LEMMA MinIsIn ==
    ASSUME NEW T \in SUBSET Nat, T # {}
    PROVE  Min(T) \in T /\ \A m \in T : Min(T) <= m
<1>1. \E n \in T : \A m \in T : n <= m
  BY LeastOf
<1>2. \E n \in T : \A m \in T : m >= n
  BY <1>1
<1>. QED BY <1>2 DEF Min

\* The greatest of a bounded one.
LEMMA MaxIsIn ==
    ASSUME NEW n \in Nat, NEW T \in SUBSET (1 .. n), T # {}
    PROVE  Max(T) \in T /\ \A m \in T : Max(T) >= m
<1>. DEFINE D == {n - m : m \in T}
<1>1. D \in SUBSET Nat /\ D # {}
  <2>1. PICK m \in T : TRUE
    OBVIOUS
  <2>2. n - m \in D
    OBVIOUS
  <2>3. \A m1 \in T : n - m1 \in Nat
    OBVIOUS
  <2>. QED BY <2>2, <2>3
<1>2. PICK d \in D : \A e \in D : d <= e
  <2>. HIDE DEF D
  <2>. QED BY <1>1, LeastOf
<1>3. \E m \in T : d = n - m
  BY ONLY d \in D, Zenon
<1>4. PICK m \in T : d = n - m
  BY ONLY <1>3
<1>5. ASSUME NEW k \in T PROVE m >= k
  <2>1. d <= n - k
    BY <1>2
  <2>2. m \in 1 .. n /\ k \in 1 .. n
    OBVIOUS
  <2>. QED BY ONLY <1>4, <2>1, <2>2, n \in Nat
<1>6. \E x \in T : \A y \in T : x >= y
  BY <1>5
<1>. QED BY <1>6 DEF Max

\* A family that has a finite set whenever it has all that are smaller.
LEMMA SetInduction ==
    ASSUME NEW U, IsFiniteSet(U), NEW A,
           \A T \in SUBSET U : (\A R \in SUBSET T : R # T => R \in A) => T \in A
    PROVE  \A T \in SUBSET U : T \in A
<1>. DEFINE S == {n \in Nat : \A T \in SUBSET U : Cardinality(T) = n => T \in A}
<1>1. ASSUME NEW n \in Nat, \A m \in 0 .. n - 1 : m \in S PROVE n \in S
  <2>1. ASSUME NEW T \in SUBSET U, Cardinality(T) = n PROVE T \in A
    <3>1. ASSUME NEW R \in SUBSET T, R # T PROVE R \in A
      <4>1. IsFiniteSet(T)
        BY FS_Subset
      <4>2. Cardinality(R) < Cardinality(T) /\ Cardinality(R) \in Nat
        BY <3>1, <4>1, FS_Subset, FS_CardinalityType
      <4>3. Cardinality(R) \in 0 .. n - 1
        BY <2>1, <4>2
      <4>. QED BY <1>1, <4>3
    <3>. QED BY <3>1
  <2>. QED BY <2>1
<1>2. S = Nat
  <2>1. S \in SUBSET Nat
    OBVIOUS
  <2>. HIDE DEF S
  <2>. QED BY <1>1, <2>1, Induction
<1>3. ASSUME NEW T \in SUBSET U PROVE T \in A
  <2>1. Cardinality(T) \in S
    BY <1>2, FS_Subset, FS_CardinalityType
  <2>. QED BY <2>1
<1>. QED BY <1>3

---------------------------------------------------------------------------
(* Folds.  A fold takes the elements of a finite set one at a time, in the *)
(* order of a choice; here the choice and the step are functions.          *)

Picks(pick, U) == \A T \in SUBSET U : T # {} => pick[T] \in T

Folds(F, U, base, pick, step) ==
    \A T \in SUBSET U :
        F[T] = IF T = {} THEN base ELSE step[<<pick[T], F[T \ {pick[T]}]>>]

\* Two folds that do the same are the same.
LEMMA FoldsAgree ==
    ASSUME NEW U, IsFiniteSet(U), NEW base, NEW pick, Picks(pick, U), NEW step,
           NEW F, Folds(F, U, base, pick, step),
           NEW G, Folds(G, U, base, pick, step)
    PROVE  \A T \in SUBSET U : F[T] = G[T]
<1>. DEFINE A == {T \in SUBSET U : F[T] = G[T]}
<1>1. ASSUME NEW T \in SUBSET U, \A R \in SUBSET T : R # T => R \in A
      PROVE  T \in A
  <2>1. CASE T = {}
    BY <2>1 DEF Folds
  <2>2. CASE T # {}
    <3>1. pick[T] \in T
      BY <2>2 DEF Picks
    <3>2. T \ {pick[T]} \in A
      BY <1>1, <3>1
    <3>3. F[T \ {pick[T]}] = G[T \ {pick[T]}]
      BY <3>2
    <3>. QED BY <2>2, <3>3 DEF Folds
  <2>. QED BY <2>1, <2>2
<1>2. \A T \in SUBSET U : T \in A
  <2>. HIDE DEF A
  <2>. QED BY <1>1, SetInduction
<1>. QED BY <1>2

\* Every typed step has a fold.
LEMMA FoldExists ==
    ASSUME NEW U, IsFiniteSet(U), NEW V, NEW base \in V, NEW pick, Picks(pick, U),
           NEW step, \A x \in U, v \in V : step[<<x, v>>] \in V
    PROVE  \E F \in [SUBSET U -> V] : Folds(F, U, base, pick, step)
<1>. DEFINE Good(F, T) == F \in [SUBSET T -> V] /\ Folds(F, T, base, pick, step)
            A == {T \in SUBSET U : \E F : Good(F, T)}
<1>1. ASSUME NEW T \in SUBSET U, \A R \in SUBSET T : R # T => R \in A
      PROVE  T \in A
  <2>. DEFINE Of(R) == CHOOSE F : Good(F, R)
              x    == pick[T]
              G    == [R \in SUBSET T |->
                         IF R # T THEN Of(R)[R]
                         ELSE IF T = {} THEN base
                         ELSE step[<<x, Of(T \ {x})[T \ {x}]>>]]
  <2>1. ASSUME NEW R \in SUBSET T, R # T PROVE Good(Of(R), R) /\ Of(R)[R] \in V
    <3>1. \E F : Good(F, R)
      BY <1>1, <2>1
    <3>2. Good(Of(R), R)
      BY <3>1
    <3>. QED BY <3>2
  <2>2. T # {} => x \in T
    BY DEF Picks
  <2>. HIDE DEF x, Of
  <2>3. G \in [SUBSET T -> V]
    <3>1. T # {} => Of(T \ {x})[T \ {x}] \in V /\ x \in U
      BY <2>1, <2>2
    <3>. QED BY <2>1, <3>1
  <2>4. ASSUME NEW R \in SUBSET T
        PROVE  G[R] = IF R = {} THEN base ELSE step[<<pick[R], G[R \ {pick[R]}]>>]
    <3>1. CASE R = T
      <4>1. CASE T = {}
        BY <3>1, <4>1
      <4>2. CASE T # {}
        <5>1. T \ {x} \in SUBSET T /\ T \ {x} # T
          BY <2>2, <4>2
        <5>2. G[T \ {x}] = Of(T \ {x})[T \ {x}]
          BY <5>1
        <5>3. G[T] = step[<<x, Of(T \ {x})[T \ {x}]>>]
          BY <4>2
        <5>. HIDE DEF G
        <5>. QED BY <3>1, <4>2, <5>2, <5>3 DEF x
      <4>. QED BY <4>1, <4>2
    <3>2. CASE R # T
      <4>1. G[R] = Of(R)[R] /\ Good(Of(R), R)
        BY <2>1, <3>2
      <4>2. CASE R = {}
        <5>1. Of(R)[R] = base
          BY <4>1, <4>2 DEF Folds
        <5>. QED BY <4>1, <4>2, <5>1
      <4>3. CASE R # {}
        <5>. DEFINE y == pick[R]
                    Q == R \ {y}
        <5>1. y \in R /\ Q \in SUBSET T /\ Q # T /\ Q \in SUBSET R /\ Q \in SUBSET U
          BY <4>3 DEF Picks
        <5>2. Good(Of(Q), Q) /\ G[Q] = Of(Q)[Q]
          BY <2>1, <5>1
        <5>3. Of(R)[Q] = Of(Q)[Q]
          <6>1. Picks(pick, Q) /\ IsFiniteSet(Q)
            BY <5>1, FS_Subset DEF Picks
          <6>2. Folds(Of(R), Q, base, pick, step) /\ Folds(Of(Q), Q, base, pick, step)
            <7>. HIDE DEF Q
            <7>. QED BY <4>1, <5>1, <5>2 DEF Folds
          <6>. DEFINE F1 == Of(R)
                      F2 == Of(Q)
          <6>3. Folds(F1, Q, base, pick, step) /\ Folds(F2, Q, base, pick, step)
            BY <6>2
          <6>. HIDE DEF Q, F1, F2
          <6>4. \A P \in SUBSET Q : F1[P] = F2[P]
            BY ONLY <6>1, <6>3, FoldsAgree
          <6>. QED BY <6>4 DEF F1, F2
        <5>4. Of(R)[R] = step[<<y, Of(R)[Q]>>]
          BY <4>1, <4>3 DEF Folds
        <5>. HIDE DEF G
        <5>. QED BY <4>1, <4>3, <5>2, <5>3, <5>4
      <4>. QED BY <4>2, <4>3
    <3>. QED BY <3>1, <3>2
  <2>. HIDE DEF G
  <2>5. Folds(G, T, base, pick, step)
    BY <2>4 DEF Folds
  <2>. QED BY <2>3, <2>5
<1>. HIDE DEF A
<1>2. \A T \in SUBSET U : T \in A
  BY <1>1, SetInduction
<1>3. U \in A
  BY <1>2
<1>. QED BY <1>3 DEF A

\* An interval is folded from its end.
LEMMA MaxOfInterval ==
    ASSUME NEW n \in Nat, NEW k \in 1 .. n
    PROVE  /\ 1 .. k \in SUBSET (1 .. n) /\ 1 .. k # {}
           /\ Max(1 .. k) = k /\ (1 .. k) \ {k} = 1 .. k - 1
<1>1. 1 .. k \in SUBSET (1 .. n) /\ k \in 1 .. k /\ (1 .. k) \ {k} = 1 .. k - 1
  OBVIOUS
<1>2. Max(1 .. k) \in 1 .. k /\ Max(1 .. k) >= k
  BY <1>1, MaxIsIn
<1>. QED BY <1>1, <1>2

\* A fold over the positions of a sequence, the last one outermost, goes
\* through it from the left.
LeftFolds(F, n, base, step) ==
    /\ \A T \in SUBSET (1 .. n) :
         F[T] = IF T = {} THEN base ELSE step[<<Max(T), F[T \ {Max(T)}]>>]
    /\ F[1 .. 0] = base
    /\ \A k \in 1 .. n : F[1 .. k] = step[<<k, F[1 .. k - 1]>>]

\* The fold of an interval, as that of a sequence.
LEMMA LeftFold ==
    ASSUME NEW n \in Nat, NEW V, NEW base \in V,
           NEW step, \A x \in 1 .. n, v \in V : step[<<x, v>>] \in V
    PROVE  \E F \in [SUBSET (1 .. n) -> V] : LeftFolds(F, n, base, step)
<1>. DEFINE U    == 1 .. n
            pick == [T \in SUBSET U |-> Max(T)]
<1>1. IsFiniteSet(U)
  BY FS_Interval
<1>2. Picks(pick, U)
  <2>1. ASSUME NEW T \in SUBSET U, T # {} PROVE pick[T] \in T
    BY <2>1, MaxIsIn
  <2>. QED BY <2>1 DEF Picks
<1>3. PICK F \in [SUBSET U -> V] : Folds(F, U, base, pick, step)
  <2>1. \A x \in U, v \in V : step[<<x, v>>] \in V
    OBVIOUS
  <2>. HIDE DEF U, pick
  <2>. QED BY <1>1, <1>2, <2>1, FoldExists
<1>4. ASSUME NEW T \in SUBSET U
      PROVE  F[T] = IF T = {} THEN base ELSE step[<<Max(T), F[T \ {Max(T)}]>>]
  <2>1. pick[T] = Max(T)
    OBVIOUS
  <2>. HIDE DEF pick
  <2>. QED BY <1>3, <2>1 DEF Folds
<1>5. ASSUME NEW k \in 1 .. n PROVE F[1 .. k] = step[<<k, F[1 .. k - 1]>>]
  BY <1>4, MaxOfInterval
<1>6. F[1 .. 0] = base
  <2>1. 1 .. 0 = {} /\ {} \in SUBSET U
    OBVIOUS
  <2>. QED BY <1>4, <2>1
<1>. QED BY <1>3, <1>4, <1>5, <1>6 DEF LeftFolds

\* A function that is defined by recursion on the way down to 0: at x it goes
\* on at down[x], or stops where that is no smaller number.
Descends(F, n, down, stop, step) ==
    \A x \in 0 .. n :
        F[x] = IF down[x] \in 0 .. x - 1 THEN step[<<x, F[down[x]]>>] ELSE stop[x]

\* A recursion that goes down, to 0 or to a stop.
LEMMA DescentExists ==
    ASSUME NEW n \in Nat, NEW V, NEW down, NEW stop, NEW step,
           \A x \in 0 .. n : stop[x] \in V /\ \A v \in V : step[<<x, v>>] \in V
    PROVE  \E F \in [0 .. n -> V] : Descends(F, n, down, stop, step)
<1>. DEFINE P(m) == \E F \in [0 .. m -> V] : Descends(F, m, down, stop, step)
            S == {m \in Nat : m <= n => P(m)}
<1>1. ASSUME NEW m \in Nat, \A l \in 0 .. m - 1 : l \in S PROVE m \in S
  <2>1. CASE m > n
    BY <2>1
  <2>2. CASE m = 0
    <3>. DEFINE G == [x \in 0 .. 0 |-> stop[0]]
    <3>1. G \in [0 .. m -> V]
      BY <2>2
    <3>2. \A x \in 0 .. 0 : x = 0 /\ G[x] = stop[0] /\ ~ down[x] \in 0 .. 0 - 1
      OBVIOUS
    <3>. HIDE DEF G
    <3>3. Descends(G, m, down, stop, step)
      BY <2>2, <3>2 DEF Descends
    <3>4. P(m)
      BY <3>1, <3>3
    <3>. QED BY <3>4
  <2>3. CASE m # 0 /\ m <= n
    <3>1. m - 1 \in S /\ m - 1 <= n
      BY <1>1, <2>3
    <3>2. PICK F \in [0 .. m - 1 -> V] : Descends(F, m - 1, down, stop, step)
      BY <3>1
    <3>. DEFINE d == down[m]
                G == [x \in 0 .. m |->
                        IF x # m THEN F[x]
                        ELSE IF d \in 0 .. m - 1 THEN step[<<m, F[d]>>] ELSE stop[m]]
    <3>3. G \in [0 .. m -> V]
      <4>1. m \in 0 .. n /\ m \in Nat
        BY <2>3
      <4>2. d \in 0 .. m - 1 => F[d] \in V
        OBVIOUS
      <4>3. stop[m] \in V /\ (d \in 0 .. m - 1 => step[<<m, F[d]>>] \in V)
        BY <4>1, <4>2
      <4>4. \A x \in 0 .. m : x # m => F[x] \in V
        BY <4>1
      <4>. HIDE DEF d
      <4>. QED BY <4>3, <4>4
    <3>4. ASSUME NEW x \in 0 .. m
          PROVE  G[x] = IF down[x] \in 0 .. x - 1 THEN step[<<x, G[down[x]]>>] ELSE stop[x]
      <4>1. CASE x = m
        <5>1. d \in 0 .. m - 1 => d # m /\ d \in 0 .. m /\ G[d] = F[d]
          BY <2>3
        <5>2. G[m] = IF d \in 0 .. m - 1 THEN step[<<m, F[d]>>] ELSE stop[m]
          OBVIOUS
        <5>. HIDE DEF G
        <5>. QED BY <4>1, <5>1, <5>2
      <4>2. CASE x # m
        <5>1. x \in 0 .. m - 1
          BY <4>2
        <5>2. down[x] \in 0 .. x - 1 => down[x] \in 0 .. m /\ down[x] # m
          BY <5>1
        <5>3. G[x] = F[x] /\ (down[x] \in 0 .. x - 1 => G[down[x]] = F[down[x]])
          BY <4>2, <5>1, <5>2
        <5>. HIDE DEF G
        <5>. QED BY <3>2, <5>1, <5>3 DEF Descends
      <4>. QED BY <4>1, <4>2
    <3>. HIDE DEF G
    <3>5. Descends(G, m, down, stop, step)
      BY <3>4 DEF Descends
    <3>6. P(m)
      BY <3>3, <3>5
    <3>. QED BY <3>6
  <2>. QED BY <2>1, <2>2, <2>3
<1>2. S = Nat
  <2>1. S \in SUBSET Nat
    OBVIOUS
  <2>. HIDE DEF S
  <2>. QED BY <1>1, <2>1, Induction
<1>3. P(n)
  <2>1. n \in S /\ n <= n
    BY <1>2
  <2>. QED BY <2>1
<1>. QED BY <1>3

---------------------------------------------------------------------------
(* The vocabulary. *)

Vocabularies(W) == {v \in Seq(W) : IsInjective(v)}

Contained(v, g) == \A i \in DOMAIN g : Contains(v, g[i])

\* What WithWords does for one word.
Enter(v, w) == IF Contains(v, w) THEN v ELSE Append(v, w)

\* A word enters the vocabulary once.
LEMMA EnterIs ==
    ASSUME NEW W, NEW v \in Vocabularies(W), NEW w \in W
    PROVE  /\ Enter(v, w) \in Vocabularies(W) /\ Contains(Enter(v, w), w)
           /\ Len(v) <= Len(Enter(v, w))
           /\ \A i \in 1 .. Len(v) : Enter(v, w)[i] = v[i]
<1>1. v \in Seq(W) /\ \A i, j \in DOMAIN v : v[i] = v[j] => i = j
  BY DEF Vocabularies, IsInjective
<1>2. CASE Contains(v, w)
  BY <1>1, <1>2 DEF Enter
<1>3. CASE ~ Contains(v, w)
  <2>1. \A i \in DOMAIN v : v[i] # w
    BY <1>3 DEF Contains
  <2>2. /\ Append(v, w) \in Seq(W) /\ Len(Append(v, w)) = Len(v) + 1
        /\ \A i \in 1 .. Len(v) : Append(v, w)[i] = v[i]
        /\ Append(v, w)[Len(v) + 1] = w
    BY <1>1
  <2>3. IsInjective(Append(v, w))
    BY <1>1, <2>1, <2>2 DEF IsInjective
  <2>4. Contains(Append(v, w), w)
    BY <1>1, <2>2 DEF Contains
  <2>5. Enter(v, w) = Append(v, w)
    BY <1>3 DEF Enter
  <2>6. Append(v, w) \in Vocabularies(W)
    BY <2>2, <2>3 DEF Vocabularies
  <2>. QED BY <1>1, <2>2, <2>4, <2>5, <2>6
<1>. QED BY <1>2, <1>3

\* WithWords adds the words it lacks behind those it has.
LEMMA WithWordsIs ==
    ASSUME NEW W, NEW v \in Vocabularies(W), NEW g \in Seq(W)
    PROVE  /\ WithWords(v, g) \in Vocabularies(W)
           /\ Len(v) <= Len(WithWords(v, g))
           /\ \A i \in 1 .. Len(v) : WithWords(v, g)[i] = v[i]
           /\ Contained(WithWords(v, g), g)
<1>. DEFINE n == Len(g)
            V == Vocabularies(W)
            step == [p \in (1 .. n) \X V |-> Enter(p[2], g[p[1]])]
            Is(it) == it = [T \in SUBSET DOMAIN g |->
                              IF T = {} THEN v
                              ELSE LET x == Max(T)
                                   IN  IF Contains(it[T \ {x}], g[x]) THEN it[T \ {x}]
                                       ELSE Append(it[T \ {x}], g[x])]
            iter == CHOOSE it : Is(it)
<1>1. WithWords(v, g) = iter[DOMAIN g]
  BY DEF WithWords, FoldLeft, MapThenFoldSet
<1>2. DOMAIN g = 1 .. n /\ n \in Nat
  OBVIOUS
<1>3. \A x \in 1 .. n, u \in V : step[<<x, u>>] = Enter(u, g[x]) /\ Enter(u, g[x]) \in V
  <2>1. ASSUME NEW x \in 1 .. n, NEW u \in V
        PROVE  Enter(u, g[x]) \in V /\ <<x, u>> \in (1 .. n) \X V
    <3>1. g[x] \in W
      BY <1>2
    <3>. QED BY <3>1, EnterIs
  <2>. HIDE DEF n, V
  <2>. QED BY <2>1
<1>4. v \in V
  OBVIOUS
<1>. HIDE DEF n, V, step
<1>5. PICK F \in [SUBSET (1 .. n) -> V] : LeftFolds(F, n, v, step)
  <2>1. \A x \in 1 .. n, u \in V : step[<<x, u>>] \in V
    BY <1>3
  <2>. QED BY <1>2, <1>4, <2>1, LeftFold
<1>6. Is(F)
  <2>1. ASSUME NEW T \in SUBSET (1 .. n), T # {}
        PROVE  F[T] = Enter(F[T \ {Max(T)}], g[Max(T)])
    BY <1>2, <1>3, <1>5, <2>1, MaxIsIn DEF LeftFolds
  <2>2. F = [T \in SUBSET (1 .. n) |-> IF T = {} THEN v
                                       ELSE Enter(F[T \ {Max(T)}], g[Max(T)])]
    BY <1>5, <2>1 DEF LeftFolds
  <2>. QED BY <1>2, <2>2 DEF Enter
<1>7. Is(iter)
  BY <1>6
<1>. HIDE DEF iter
<1>8. iter[1 .. 0] = v /\ \A k \in 1 .. n : iter[1 .. k] = Enter(iter[1 .. k - 1], g[k])
  <2>1. \A T \in SUBSET (1 .. n) :
            iter[T] = IF T = {} THEN v ELSE Enter(iter[T \ {Max(T)}], g[Max(T)])
    BY <1>2, <1>7 DEF Enter
  <2>2. 1 .. 0 = {}
    OBVIOUS
  <2>3. ASSUME NEW k \in 1 .. n
        PROVE  iter[1 .. k] = Enter(iter[1 .. k - 1], g[k])
    <3>1. /\ 1 .. k \in SUBSET (1 .. n) /\ 1 .. k # {}
          /\ Max(1 .. k) = k /\ (1 .. k) \ {k} = 1 .. k - 1
      BY ONLY <1>2, k \in 1 .. n, MaxOfInterval
    <3>. QED BY ONLY <2>1, <3>1
  <2>4. iter[1 .. 0] = v
    BY ONLY <2>1, <2>2
  <2>. QED BY ONLY <2>3, <2>4
<1>. DEFINE Good(k, u) == /\ u \in V /\ Len(v) <= Len(u)
                          /\ \A i \in 1 .. Len(v) : u[i] = v[i]
                          /\ \A i \in 1 .. k : Contains(u, g[i])
            S == {k \in Nat : k <= n => Good(k, iter[1 .. k])}
<1>9. ASSUME NEW k \in Nat, \A m \in 0 .. k - 1 : m \in S PROVE k \in S
  <2>1. CASE k = 0
    BY <1>4, <1>8, <2>1 DEF V, Vocabularies
  <2>2. CASE k \in 1 .. n
    <3>. DEFINE u == iter[1 .. k - 1]
    <3>1. Good(k - 1, u)
      BY <1>2, <1>9, <2>2
    <3>2. iter[1 .. k] = Enter(u, g[k]) /\ g[k] \in W
      BY <1>2, <1>8, <2>2
    <3>. HIDE DEF u
    <3>3. /\ Enter(u, g[k]) \in V /\ Contains(Enter(u, g[k]), g[k])
          /\ Len(u) <= Len(Enter(u, g[k]))
          /\ \A i \in 1 .. Len(u) : Enter(u, g[k])[i] = u[i]
      BY <3>1, <3>2, EnterIs DEF V
    <3>4. u \in Seq(W) /\ v \in Seq(W) /\ Enter(u, g[k]) \in Seq(W)
      BY <3>1, <3>3 DEF V, Vocabularies
    <3>5. ASSUME NEW i \in 1 .. k PROVE Contains(Enter(u, g[k]), g[i])
      <4>1. CASE i = k
        BY <3>3, <4>1
      <4>2. CASE i # k
        <5>1. Contains(u, g[i])
          BY <3>1, <4>2
        <5>. QED BY <3>3, <3>4, <5>1 DEF Contains
      <4>. QED BY <4>1, <4>2
    <3>6. Good(k, Enter(u, g[k]))
      BY <3>1, <3>3, <3>4, <3>5
    <3>. QED BY <3>2, <3>6
  <2>3. CASE k > n
    BY <1>2, <2>3
  <2>. QED BY <1>2, <2>1, <2>2, <2>3
<1>10. S = Nat
  <2>1. S \in SUBSET Nat
    OBVIOUS
  <2>. HIDE DEF S
  <2>. QED BY <1>9, <2>1, Induction
<1>11. Good(n, iter[1 .. n])
  <2>1. n \in S /\ n <= n
    BY <1>2, <1>10
  <2>. QED BY <2>1
<1>. QED BY <1>1, <1>2, <1>11 DEF Contained, V

\* A word has one index, by which it is found.
LEMMA IndexIs ==
    ASSUME NEW W, NEW v \in Vocabularies(W), NEW w, Contains(v, w)
    PROVE  IndexOf(v, w) \in 1 .. Len(v) /\ v[IndexOf(v, w)] = w
<1>. DEFINE c == CHOOSE i \in DOMAIN v : v[i] = w
<1>1. v \in Seq(W) /\ \E i \in DOMAIN v : v[i] = w
  BY DEF Vocabularies, Contains
<1>2. c \in DOMAIN v /\ v[c] = w
  BY <1>1
<1>. HIDE DEF c
<1>3. c \in 1 .. Len(v) /\ Len(v) \in Nat /\ (c - 1) + 1 = c
  BY <1>1, <1>2
<1>4. IndexOf(v, w) = (c - 1) + 1
  BY DEF IndexOf, c, FirstValidIndex
<1>. QED BY <1>2, <1>3, <1>4

\* A vocabulary has no more words than there are.
LEMMA VocabularyIsSmall ==
    ASSUME NEW W, IsFiniteSet(W), NEW v \in Vocabularies(W)
    PROVE  Len(v) \in Nat /\ Len(v) <= Cardinality(W)
<1>1. v \in Seq(W) /\ \A i, j \in 1 .. Len(v) : v[i] = v[j] => i = j
  BY DEF Vocabularies, IsInjective
<1>2. Len(v) \in Nat /\ IsFiniteSet(1 .. Len(v)) /\ Cardinality(1 .. Len(v)) = Len(v)
  BY <1>1, FS_Interval
<1>3. v \in Injection(1 .. Len(v), W)
  BY <1>1 DEF Injection, IsInjective
<1>4. Cardinality(1 .. Len(v)) <= Cardinality(W)
  BY <1>3, FS_Injection
<1>. QED BY <1>2, <1>4

---------------------------------------------------------------------------
(* Varints. *)

\* The base and the groups of varints.
LEMMA Base == VarintBase \in Nat /\ VarintBase > 1 /\ MaxGroups \in Nat /\ MaxGroups > 0
BY VarintAssumption

\* Division goes down, and what it takes off can be put back.
LEMMA Divided ==
    ASSUME NEW v \in Nat
    PROVE  /\ v \div VarintBase \in Nat /\ v % VarintBase \in 0 .. VarintBase - 1
           /\ v = (v % VarintBase) + VarintBase * (v \div VarintBase)
           /\ v >= VarintBase => v \div VarintBase \in 1 .. v - 1
           /\ v < VarintBase => v % VarintBase = v
           /\ ((v % VarintBase) + VarintBase) % VarintBase = v % VarintBase
<1>. DEFINE b == VarintBase
<1>1. b \in Nat /\ b > 1
  BY Base
<1>. HIDE DEF b
<1>2. v \div b \in Nat /\ v % b \in 0 .. b - 1 /\ v = b * (v \div b) + (v % b)
  BY <1>1
<1>3. v >= b => v \div b < v /\ v \div b > 0
  BY <1>1
<1>4. \A x \in Nat : x < b => x % b = x /\ (x + b) % b = x
  BY <1>1
<1>. DEFINE q == v \div b
            r == v % b
<1>5. q \in Nat /\ r \in 0 .. b - 1 /\ v = b * q + r
  BY <1>2
<1>6. r \in Nat /\ r < b
  BY <1>1, <1>5
<1>7. (r + b) % b = r
  BY <1>4, <1>6
<1>8. v = r + b * q
  <2>. HIDE DEF q, r
  <2>1. b * q \in Nat
    BY <1>1, <1>5
  <2>. QED BY <1>5, <1>6, <2>1
<1>. QED BY <1>1, <1>3, <1>4, <1>5, <1>7, <1>8 DEF b

Groups(F, n) ==
    \A v \in 0 .. n :
        F[v] = IF v < VarintBase THEN <<v>>
               ELSE <<(v % VarintBase) + VarintBase>> \o F[v \div VarintBase]

\* The recursion of EncodeVarint has a solution.
LEMMA GroupsExist ==
    ASSUME NEW n \in Nat
    PROVE  \E F \in [0 .. n -> Seq(Nat)] : Groups(F, n)
<1>. DEFINE b == VarintBase
            V == Seq(Nat)
            down == [v \in 0 .. n |-> IF v < b THEN v ELSE v \div b]
            stop == [v \in 0 .. n |-> <<v>>]
            step == [p \in (0 .. n) \X V |-> <<(p[1] % b) + b>> \o p[2]]
<1>1. \A v \in 0 .. n : stop[v] \in V
  OBVIOUS
<1>2. \A v \in 0 .. n : (v % b) + b \in Nat
  BY Base, Divided
<1>3. ASSUME NEW x \in 0 .. n, NEW v \in V
      PROVE  step[<<x, v>>] = <<(x % b) + b>> \o v /\ step[<<x, v>>] \in V
  <2>1. <<(x % b) + b>> \in V
    BY <1>2
  <2>2. <<x, v>> \in (0 .. n) \X V
    OBVIOUS
  <2>. HIDE DEF V
  <2>3. step[<<x, v>>] = <<(x % b) + b>> \o v
    BY <2>2
  <2>. HIDE DEF step, b
  <2>. QED BY <2>1, <2>3 DEF V
<1>4. ASSUME NEW v \in 0 .. n
      PROVE  /\ v < b => down[v] \notin 0 .. v - 1
             /\ ~ v < b => down[v] \in 0 .. v - 1 /\ down[v] = v \div b
  <2>1. CASE v < b
    <3>1. down[v] = v /\ v \notin 0 .. v - 1
      BY <2>1
    <3>. QED BY <2>1, <3>1
  <2>2. CASE ~ v < b
    <3>1. v >= b
      BY <2>2, Base
    <3>2. v \div b \in 1 .. v - 1
      BY <3>1, Divided
    <3>3. down[v] = v \div b
      BY <2>2
    <3>. QED BY <2>2, <3>2, <3>3
  <2>. QED BY <2>1, <2>2
<1>5. \A v \in 0 .. n : stop[v] = <<v>>
  OBVIOUS
<1>. HIDE DEF down, stop, step, V
<1>6. PICK F \in [0 .. n -> V] : Descends(F, n, down, stop, step)
  <2>1. \A x \in 0 .. n : stop[x] \in V /\ \A v \in V : step[<<x, v>>] \in V
    BY <1>1, <1>3
  <2>. QED BY ONLY <2>1, DescentExists, n \in Nat
<1>7. ASSUME NEW v \in 0 .. n
      PROVE  F[v] = IF v < b THEN <<v>> ELSE <<(v % b) + b>> \o F[v \div b]
  <2>1. CASE v < b
    BY <1>4, <1>5, <1>6, <2>1 DEF Descends
  <2>2. CASE ~ v < b
    <3>1. down[v] \in 0 .. v - 1 /\ down[v] = v \div b /\ F[down[v]] \in V
      BY <1>4, <2>2
    <3>. QED BY <1>3, <1>6, <2>2, <3>1 DEF Descends
  <2>. QED BY <2>1, <2>2
<1>8. Groups(F, n)
  BY <1>6, <1>7 DEF Groups
<1>. QED BY <1>6, <1>8 DEF V

\* It has one.
LEMMA GroupsAgree ==
    ASSUME NEW n \in Nat, NEW F, Groups(F, n), NEW m \in Nat, NEW G, Groups(G, m)
    PROVE  \A v \in Nat : v <= n /\ v <= m => F[v] = G[v]
<1>. DEFINE S == {v \in Nat : v <= n /\ v <= m => F[v] = G[v]}
<1>1. ASSUME NEW v \in Nat, \A l \in 0 .. v - 1 : l \in S PROVE v \in S
  <2>1. SUFFICES ASSUME v <= n, v <= m PROVE F[v] = G[v]
    OBVIOUS
  <2>2. F[v] = IF v < VarintBase THEN <<v>>
               ELSE <<(v % VarintBase) + VarintBase>> \o F[v \div VarintBase]
    BY <2>1 DEF Groups
  <2>3. G[v] = IF v < VarintBase THEN <<v>>
               ELSE <<(v % VarintBase) + VarintBase>> \o G[v \div VarintBase]
    BY <2>1 DEF Groups
  <2>4. CASE v < VarintBase
    BY <2>2, <2>3, <2>4
  <2>5. CASE v >= VarintBase
    <3>1. v \div VarintBase \in 0 .. v - 1
      BY <2>5, Divided
    <3>2. F[v \div VarintBase] = G[v \div VarintBase]
      BY <1>1, <2>1, <3>1
    <3>. QED BY <2>2, <2>3, <3>2
  <2>. QED BY <2>4, <2>5, Base
<1>2. S = Nat
  <2>1. S \in SUBSET Nat
    OBVIOUS
  <2>. HIDE DEF S
  <2>. QED BY <1>1, <2>1, Induction
<1>. QED BY <1>2

\* A varint, unfolded.
LEMMA VarintUnfolds ==
    ASSUME NEW v \in Nat
    PROVE  /\ EncodeVarint(v) \in Seq(Nat)
           /\ EncodeVarint(v) =
                IF v < VarintBase THEN <<v>>
                ELSE <<(v % VarintBase) + VarintBase>> \o EncodeVarint(v \div VarintBase)
<1>1. ASSUME NEW n \in Nat
      PROVE  \E F \in [0 .. n -> Seq(Nat)] : Groups(F, n) /\ EncodeVarint(n) = F[n]
  <2>. DEFINE Is(F) ==
                F = [v1 \in 0 .. n |->
                       IF v1 < VarintBase THEN <<v1>>
                       ELSE <<(v1 % VarintBase) + VarintBase>> \o F[v1 \div VarintBase]]
              it == CHOOSE F : Is(F)
  <2>1. EncodeVarint(n) = it[n]
    BY DEF EncodeVarint
  <2>2. PICK F \in [0 .. n -> Seq(Nat)] : Groups(F, n)
    BY GroupsExist
  <2>3. Groups(it, n)
    <3>1. F = [v1 \in 0 .. n |-> F[v1]]
      OBVIOUS
    <3>2. Is(F)
      BY <2>2, <3>1 DEF Groups
    <3>3. Is(it)
      BY <3>2
    <3>. HIDE DEF it
    <3>. QED BY <3>3 DEF Groups
  <2>. HIDE DEF it
  <2>4. it[n] = F[n]
    BY <2>2, <2>3, GroupsAgree
  <2>. QED BY <2>1, <2>2, <2>4
<1>2. PICK F \in [0 .. v -> Seq(Nat)] : Groups(F, v) /\ EncodeVarint(v) = F[v]
  BY <1>1
<1>3. F[v] = IF v < VarintBase THEN <<v>>
             ELSE <<(v % VarintBase) + VarintBase>> \o F[v \div VarintBase]
  BY <1>2 DEF Groups
<1>4. ASSUME v >= VarintBase
      PROVE  F[v \div VarintBase] = EncodeVarint(v \div VarintBase)
  <2>. DEFINE q == v \div VarintBase
  <2>1. q \in Nat /\ q <= v
    BY <1>4, Divided
  <2>. HIDE DEF q
  <2>2. PICK G \in [0 .. q -> Seq(Nat)] : Groups(G, q) /\ EncodeVarint(q) = G[q]
    BY <1>1, <2>1
  <2>3. F[q] = G[q]
    <3>1. Groups(F, v) /\ Groups(G, q) /\ v \in Nat /\ q \in Nat /\ q <= v /\ q <= q
      BY <1>2, <2>1, <2>2
    <3>2. ASSUME NEW x \in Nat, NEW A, Groups(A, v), NEW B, Groups(B, x), x <= v
          PROVE  A[x] = B[x]
      <4>1. \A l \in Nat : l <= v /\ l <= x => A[l] = B[l]
        BY <3>2, GroupsAgree
      <4>. QED BY <3>2, <4>1
    <3>. QED BY <3>1, <3>2
  <2>. QED BY <2>2, <2>3 DEF q
<1>5. F[v] \in Seq(Nat)
  BY <1>2
<1>6. v < VarintBase \/ v >= VarintBase
  BY Base
<1>. QED BY <1>2, <1>3, <1>4, <1>5, <1>6

\* Only the last byte of a varint is without the flag, and the first is not
\* the byte that starts the keys of metadata.
LEMMA VarintEnds ==
    ASSUME NEW v \in Nat
    PROVE  LET e == EncodeVarint(v)
           IN  /\ e \in Seq(Nat) /\ e # <<>> /\ e[Len(e)] < VarintBase
               /\ \A i \in 1 .. Len(e) - 1 : ~ e[i] < VarintBase
               /\ v # 0 => e[1] # 0
<1>. DEFINE Good(e) == /\ e \in Seq(Nat) /\ e # <<>> /\ e[Len(e)] < VarintBase
                       /\ \A i \in 1 .. Len(e) - 1 : ~ e[i] < VarintBase
            S == {n \in Nat : Good(EncodeVarint(n)) /\ (n # 0 => EncodeVarint(n)[1] # 0)}
<1>1. ASSUME NEW n \in Nat, \A m \in 0 .. n - 1 : m \in S PROVE n \in S
  <2>1. CASE n < VarintBase
    <3>1. EncodeVarint(n) = <<n>>
      BY <2>1, VarintUnfolds
    <3>2. Good(<<n>>) /\ <<n>>[1] = n
      BY <2>1
    <3>. QED BY <3>1, <3>2
  <2>2. CASE ~ n < VarintBase
    <3>. DEFINE x == (n % VarintBase) + VarintBase
                e == EncodeVarint(n \div VarintBase)
    <3>1. n \div VarintBase \in 0 .. n - 1 /\ x \in Nat /\ ~ x < VarintBase /\ x # 0
      <4>1. n >= VarintBase
        BY <2>2, Base
      <4>2. n \div VarintBase \in 1 .. n - 1 /\ n % VarintBase \in 0 .. VarintBase - 1
        BY <4>1, Divided
      <4>. QED BY <4>2, Base
    <3>2. Good(e)
      BY <1>1, <3>1
    <3>3. EncodeVarint(n) = <<x>> \o e
      BY <2>2, VarintUnfolds
    <3>. HIDE DEF x, e
    <3>4. /\ <<x>> \o e \in Seq(Nat) /\ Len(<<x>> \o e) = Len(e) + 1 /\ Len(e) \in Nat \ {0}
          /\ (<<x>> \o e)[1] = x
          /\ \A i \in 1 .. Len(e) : (<<x>> \o e)[i + 1] = e[i]
      BY <3>1, <3>2
    <3>. DEFINE y == <<x>> \o e
    <3>. HIDE DEF y
    <3>5. \A i \in 1 .. Len(y) - 1 : ~ y[i] < VarintBase
      <4>1. ASSUME NEW i \in 1 .. Len(y) - 1 PROVE ~ y[i] < VarintBase
        <5>1. CASE i = 1
          BY <3>1, <3>4, <5>1 DEF y
        <5>2. CASE i # 1
          <6>1. i - 1 \in 1 .. Len(e) - 1 /\ (i - 1) + 1 = i /\ i - 1 \in 1 .. Len(e)
            BY <3>4, <5>2 DEF y
          <6>2. y[i] = e[i - 1]
            BY <3>4, <6>1 DEF y
          <6>. QED BY <3>2, <6>1, <6>2
        <5>. QED BY <5>1, <5>2
      <4>. QED BY <4>1
    <3>6. y[Len(y)] = e[Len(e)] /\ y # <<>>
      BY <3>4 DEF y
    <3>7. Good(y) /\ y[1] # 0
      BY <3>1, <3>2, <3>4, <3>5, <3>6 DEF y
    <3>. QED BY <3>3, <3>7 DEF y
  <2>. QED BY <2>1, <2>2
<1>2. S = Nat
  <2>1. S \in SUBSET Nat
    OBVIOUS
  <2>. HIDE DEF S
  <2>. QED BY <1>1, <2>1, Induction
<1>3. v \in S
  BY <1>2
<1>. QED BY <1>3

Values(F, s) ==
    \A i \in 1 .. Len(s) + 1 :
        F[i] = IF i > Len(s) THEN 0
               ELSE (s[i] % VarintBase) + VarintBase * F[i + 1]

\* t has s from d on.
Ending(t, s, d) ==
    /\ s \in Seq(Nat) /\ t \in Seq(Nat) /\ d \in Nat
    /\ Len(t) = Len(s) + d /\ \A i \in 1 .. Len(s) : t[i + d] = s[i]

Shifted(F, G, s, d) == \A i \in 1 .. Len(s) + 1 : F[i] = G[i + d]

\* What the bytes of t are worth from i + d on is what those of s are from i on
\* where the one ends with the other.
LEMMA ValuesAgree ==
    ASSUME NEW s, NEW t, NEW d, Ending(t, s, d),
           NEW F, Values(F, s), NEW G, Values(G, t)
    PROVE  Shifted(F, G, s, d)
<1>0. /\ s \in Seq(Nat) /\ t \in Seq(Nat) /\ d \in Nat
      /\ Len(t) = Len(s) + d /\ \A i \in 1 .. Len(s) : t[i + d] = s[i]
  BY DEF Ending
<1>. DEFINE n == Len(s)
            S == {k \in Nat : k <= n => F[n + 1 - k] = G[n + 1 - k + d]}
<1>1. n \in Nat
  BY <1>0
<1>2. ASSUME NEW k \in Nat, \A l \in 0 .. k - 1 : l \in S PROVE k \in S
  <2>1. SUFFICES ASSUME k <= n PROVE F[n + 1 - k] = G[n + 1 - k + d]
    OBVIOUS
  <2>. DEFINE i == n + 1 - k
  <2>2. i \in 1 .. n + 1 /\ i + d \in 1 .. Len(t) + 1
    BY <1>0, <1>1, <2>1
  <2>3. F[i] = IF i > n THEN 0 ELSE (s[i] % VarintBase) + VarintBase * F[i + 1]
    BY <2>2 DEF Values
  <2>4. G[i + d] = IF i + d > Len(t) THEN 0
                   ELSE (t[i + d] % VarintBase) + VarintBase * G[(i + d) + 1]
    BY <2>2 DEF Values
  <2>5. CASE k = 0
    BY <1>0, <1>1, <2>2, <2>3, <2>4, <2>5
  <2>6. CASE k # 0
    <3>1. k - 1 \in 0 .. k - 1 /\ k - 1 \in Nat /\ k - 1 <= n
      BY <1>1, <2>1, <2>6
    <3>2. n + 1 - (k - 1) = i + 1 /\ n + 1 - (k - 1) + d = (i + d) + 1
      BY <1>0, <1>1
    <3>3. F[n + 1 - (k - 1)] = G[n + 1 - (k - 1) + d]
      BY <1>2, <3>1
    <3>4. i \in 1 .. n
      BY <1>1, <2>2, <2>6
    <3>5. ~ i > n /\ ~ i + d > n + d /\ Len(t) = n + d
      BY <1>0, <1>1, <3>4
    <3>6. t[i + d] = s[i]
      <4>. HIDE DEF i
      <4>. QED BY <1>0, <3>4
    <3>7. F[i + 1] = G[(i + d) + 1]
      <4>. HIDE DEF i
      <4>. QED BY <3>2, <3>3
    <3>. DEFINE f == F[i + 1]
                e == s[i]
    <3>8. F[i] = (e % VarintBase) + VarintBase * f
      BY <2>3, <3>5
    <3>9. G[i + d] = (e % VarintBase) + VarintBase * f
      <4>1. ~ i + d > Len(t)
        BY ONLY <3>5
      <4>2. G[i + d] = (t[i + d] % VarintBase) + VarintBase * G[(i + d) + 1]
        BY ONLY <2>4, <4>1
      <4>. QED BY ONLY <3>6, <3>7, <4>2
    <3>. QED BY ONLY <3>8, <3>9
  <2>. QED BY <2>5, <2>6
<1>3. S = Nat
  <2>1. S \in SUBSET Nat
    OBVIOUS
  <2>. HIDE DEF S
  <2>. QED BY <1>2, <2>1, Induction
<1>4. ASSUME NEW i \in 1 .. n + 1 PROVE F[i] = G[i + d]
  <2>. DEFINE k == n + 1 - i
  <2>1. k \in Nat /\ k <= n /\ n + 1 - k = i
    BY <1>0, <1>1
  <2>2. F[n + 1 - k] = G[n + 1 - k + d]
    <3>. HIDE DEF k
    <3>. QED BY <1>3, <2>1
  <2>. HIDE DEF k, n
  <2>. QED BY <2>1, <2>2
<1>. QED BY <1>4 DEF Shifted

\* The recursion of DecodeVarint has a solution.
LEMMA ValuesExist ==
    ASSUME NEW s \in Seq(Nat)
    PROVE  \E F \in [1 .. Len(s) + 1 -> Nat] : Values(F, s)
<1>. DEFINE b == VarintBase
            n == Len(s)
            down == [x \in 0 .. n |-> x - 1]
            stop == [x \in 0 .. n |-> 0]
            step == [p \in (0 .. n) \X Nat |->
                        IF p[1] = 0 THEN 0 ELSE (s[n + 1 - p[1]] % b) + b * p[2]]
<1>1. n \in Nat /\ b \in Nat /\ b > 1
  BY Base
<1>2. ASSUME NEW x \in 1 .. n, NEW v \in Nat
      PROVE  /\ step[<<x, v>>] = (s[n + 1 - x] % b) + b * v
             /\ (s[n + 1 - x] % b) + b * v \in Nat
  <2>1. n + 1 - x \in 1 .. n /\ x # 0 /\ <<x, v>> \in (0 .. n) \X Nat
    BY <1>1
  <2>2. s[n + 1 - x] \in Nat
    BY <2>1
  <2>3. s[n + 1 - x] % b \in Nat
    <3>1. \A y \in Nat : y % b \in Nat
      BY Base, Divided
    <3>. HIDE DEF n
    <3>. QED BY <2>2, <3>1
  <2>4. b * v \in Nat
    BY <1>1
  <2>. HIDE DEF b, n
  <2>. QED BY <2>1, <2>3, <2>4
<1>3. \A v \in Nat : step[<<0, v>>] = 0
  <2>1. \A v \in Nat : <<0, v>> \in (0 .. n) \X Nat
    BY <1>1
  <2>. QED BY <2>1
<1>. HIDE DEF b, n
<1>4. \A x \in 0 .. n : down[x] = x - 1 /\ stop[x] = 0
  OBVIOUS
<1>. HIDE DEF down, stop, step
<1>5. PICK F \in [0 .. n -> Nat] : Descends(F, n, down, stop, step)
  <2>1. \A x \in 0 .. n : stop[x] \in Nat /\ \A v \in Nat : step[<<x, v>>] \in Nat
    <3>1. ASSUME NEW x \in 0 .. n, NEW v \in Nat PROVE step[<<x, v>>] \in Nat
      <4>1. x = 0 \/ x \in 1 .. n
        BY <1>1
      <4>. QED BY <1>2, <1>3, <4>1
    <3>. QED BY <1>4, <3>1
  <2>. QED BY ONLY <1>1, <2>1, DescentExists
<1>. DEFINE G == [i \in 1 .. n + 1 |-> F[n + 1 - i]]
<1>6. G \in [1 .. n + 1 -> Nat]
  <2>1. \A i \in 1 .. n + 1 : n + 1 - i \in 0 .. n
    BY <1>1
  <2>. QED BY <2>1
<1>7. ASSUME NEW i \in 1 .. n + 1
      PROVE  G[i] = IF i > n THEN 0 ELSE (s[i] % b) + b * G[i + 1]
  <2>. DEFINE x == n + 1 - i
  <2>1. x \in 0 .. n /\ G[i] = F[x]
    BY <1>1
  <2>2. CASE i > n
    <3>1. x = 0 /\ down[0] \notin 0 .. 0 - 1 /\ stop[0] = 0 /\ 0 \in 0 .. n
      BY <1>1, <1>4, <2>2
    <3>. QED BY <1>5, <2>1, <2>2, <3>1 DEF Descends
  <2>3. CASE ~ i > n
    <3>1. /\ x \in 1 .. n /\ down[x] = x - 1 /\ x - 1 \in 0 .. x - 1 /\ x - 1 \in 0 .. n
          /\ n + 1 - x = i /\ i + 1 \in 1 .. n + 1 /\ n + 1 - (i + 1) = x - 1
      BY <1>1, <1>4, <2>3
    <3>2. G[i + 1] = F[x - 1] /\ F[x - 1] \in Nat
      BY <3>1
    <3>3. F[x] = step[<<x, F[x - 1]>>]
      BY <1>5, <2>1, <3>1 DEF Descends
    <3>. HIDE DEF G, x
    <3>4. step[<<x, F[x - 1]>>] = (s[n + 1 - x] % b) + b * F[x - 1]
      BY <1>2, <3>1, <3>2
    <3>. QED BY <2>1, <2>3, <3>1, <3>2, <3>3, <3>4
  <2>. QED BY <2>2, <2>3
<1>. HIDE DEF G
<1>8. Values(G, s)
  BY <1>7 DEF Values, n, b
<1>. QED BY <1>6, <1>8 DEF n

\* The value of bytes, unfolded.
LEMMA DecodeIs ==
    ASSUME NEW s \in Seq(Nat)
    PROVE  \E F \in [1 .. Len(s) + 1 -> Nat] : Values(F, s) /\ DecodeVarint(s) = F[1]
<1>. DEFINE Is(F) == F = [i \in 1 .. Len(s) + 1 |->
                            IF i > Len(s) THEN 0
                            ELSE (s[i] % VarintBase) + VarintBase * F[i + 1]]
            it == CHOOSE F : Is(F)
<1>1. DecodeVarint(s) = it[1]
  BY DEF DecodeVarint
<1>2. PICK F \in [1 .. Len(s) + 1 -> Nat] : Values(F, s)
  BY ValuesExist
<1>3. Values(it, s)
  <2>1. F = [i \in 1 .. Len(s) + 1 |-> F[i]]
    OBVIOUS
  <2>2. Is(F)
    BY <1>2, <2>1 DEF Values
  <2>3. Is(it)
    BY <2>2
  <2>. HIDE DEF it
  <2>. QED BY <2>3 DEF Values
<1>. HIDE DEF it
<1>4. F[1] = it[1]
  <2>. DEFINE d == 0
  <2>1. /\ d \in Nat /\ Len(s) = Len(s) + d /\ \A i \in 1 .. Len(s) : s[i + d] = s[i]
        /\ 1 \in 1 .. Len(s) + 1 /\ 1 + d = 1
    OBVIOUS
  <2>. HIDE DEF d
  <2>2. ASSUME NEW A, Values(A, s), NEW B, Values(B, s)
        PROVE  \A i \in 1 .. Len(s) + 1 : A[i] = B[i + d]
    <3>1. Ending(s, s, d)
      BY <2>1 DEF Ending
    <3>2. Shifted(A, B, s, d)
      BY <2>2, <3>1, ValuesAgree
    <3>. QED BY <3>2 DEF Shifted
  <2>3. \A i \in 1 .. Len(s) + 1 : F[i] = it[i + d]
    BY <1>2, <1>3, <2>2
  <2>. QED BY <2>1, <2>3
<1>. QED BY <1>1, <1>2, <1>4

\* DecodeVarint, one group at a time.
LEMMA DecodeUnfolds ==
    ASSUME NEW s \in Seq(Nat), NEW x \in Nat
    PROVE  /\ DecodeVarint(s) \in Nat
           /\ DecodeVarint(<<x>> \o s) = (x % VarintBase) + VarintBase * DecodeVarint(s)
<1>. DEFINE t == <<x>> \o s
<1>1. /\ t \in Seq(Nat) /\ Len(t) = Len(s) + 1 /\ t[1] = x /\ Len(s) \in Nat
      /\ \A i \in 1 .. Len(s) : t[i + 1] = s[i]
  OBVIOUS
<1>. HIDE DEF t
<1>2. PICK F \in [1 .. Len(s) + 1 -> Nat] : Values(F, s) /\ DecodeVarint(s) = F[1]
  BY DecodeIs
<1>3. PICK G \in [1 .. Len(t) + 1 -> Nat] : Values(G, t) /\ DecodeVarint(t) = G[1]
  BY <1>1, DecodeIs
<1>5. F[1] = G[2]
  <2>. DEFINE d == 1
  <2>1. /\ d \in Nat /\ Len(t) = Len(s) + d /\ \A i \in 1 .. Len(s) : t[i + d] = s[i]
        /\ 1 \in 1 .. Len(s) + 1 /\ 1 + d = 2
    BY <1>1
  <2>. HIDE DEF d
  <2>2. ASSUME NEW A, Values(A, s), NEW B, Values(B, t)
        PROVE  \A i \in 1 .. Len(s) + 1 : A[i] = B[i + d]
    <3>1. Ending(t, s, d)
      BY <1>1, <2>1 DEF Ending
    <3>2. Shifted(A, B, s, d)
      BY <2>2, <3>1, ValuesAgree
    <3>. QED BY <3>2 DEF Shifted
  <2>3. \A i \in 1 .. Len(s) + 1 : F[i] = G[i + d]
    BY <1>2, <1>3, <2>2
  <2>. QED BY <2>1, <2>3
<1>6. G[1] = (x % VarintBase) + VarintBase * G[2]
  <2>1. 1 \in 1 .. Len(t) + 1 /\ ~ 1 > Len(t) /\ 1 + 1 = 2
    BY <1>1
  <2>2. G[1] = IF 1 > Len(t) THEN 0 ELSE (t[1] % VarintBase) + VarintBase * G[1 + 1]
    BY <1>3, <2>1 DEF Values
  <2>. QED BY ONLY <1>1, <2>1, <2>2
<1>7. F[1] \in Nat
  <2>1. 1 \in 1 .. Len(s) + 1
    BY ONLY <1>1
  <2>. QED BY ONLY <1>2, <2>1
<1>. QED BY <1>2, <1>3, <1>5, <1>6, <1>7 DEF t

\* Nothing decodes to 0.
LEMMA DecodeNothing == DecodeVarint(<<>>) = 0
<1>1. <<>> \in Seq(Nat) /\ Len(<<>>) = 0
  OBVIOUS
<1>2. PICK F \in [1 .. Len(<<>>) + 1 -> Nat] : Values(F, <<>>) /\ DecodeVarint(<<>>) = F[1]
  BY <1>1, DecodeIs
<1>3. 1 \in 1 .. Len(<<>>) + 1 /\ 1 > Len(<<>>)
  BY <1>1
<1>. QED BY <1>2, <1>3 DEF Values

\* A varint is read back.
LEMMA VarintDecodes ==
    ASSUME NEW v \in Nat
    PROVE  DecodeVarint(EncodeVarint(v)) = v
<1>. DEFINE S == {n \in Nat : DecodeVarint(EncodeVarint(n)) = n}
<1>1. ASSUME NEW n \in Nat, \A m \in 0 .. n - 1 : m \in S PROVE n \in S
  <2>1. CASE n < VarintBase
    <3>1. EncodeVarint(n) = <<n>> \o <<>>
      <4>1. <<n>> \in Seq(Nat) /\ EncodeVarint(n) = <<n>>
        BY <2>1, VarintUnfolds
      <4>. QED BY <4>1
    <3>2. DecodeVarint(<<n>> \o <<>>) = (n % VarintBase) + VarintBase * 0
      <4>1. <<>> \in Seq(Nat)
        OBVIOUS
      <4>. QED BY <4>1, DecodeUnfolds, DecodeNothing
    <3>3. n % VarintBase = n /\ VarintBase * 0 = 0
      BY <2>1, Base, Divided
    <3>. QED BY <3>1, <3>2, <3>3
  <2>2. CASE ~ n < VarintBase
    <3>. DEFINE q == n \div VarintBase
                x == (n % VarintBase) + VarintBase
    <3>1. n >= VarintBase
      BY <2>2, Base
    <3>2. /\ q \in 0 .. n - 1 /\ q \in Nat /\ x \in Nat /\ x % VarintBase = n % VarintBase
          /\ n = (n % VarintBase) + VarintBase * q
      <4>1. q \in 1 .. n - 1 /\ n % VarintBase \in 0 .. VarintBase - 1
        BY <3>1, Divided
      <4>2. q \in 0 .. n - 1 /\ q \in Nat /\ x \in Nat
        BY <4>1, Base
      <4>3. x % VarintBase = n % VarintBase /\ n = (n % VarintBase) + VarintBase * q
        BY Divided
      <4>. QED BY <4>2, <4>3
    <3>3. EncodeVarint(n) = <<x>> \o EncodeVarint(q)
      BY <2>2, VarintUnfolds
    <3>. HIDE DEF q, x
    <3>4. EncodeVarint(q) \in Seq(Nat) /\ DecodeVarint(EncodeVarint(q)) = q
      BY <1>1, <3>2, VarintUnfolds
    <3>5. DecodeVarint(<<x>> \o EncodeVarint(q)) = (x % VarintBase) + VarintBase * q
      BY <3>2, <3>4, DecodeUnfolds
    <3>. QED BY <3>2, <3>3, <3>5
  <2>. QED BY <2>1, <2>2
<1>2. S = Nat
  <2>1. S \in SUBSET Nat
    OBVIOUS
  <2>. HIDE DEF S
  <2>. QED BY <1>1, <2>1, Induction
<1>. QED BY <1>2

\* A varint has at least one group, and ends in the key.
LEMMA ConsumedIsIn ==
    ASSUME NEW s \in Seq(Nat)
    PROVE  ConsumedBy(s) \in 0 .. Len(s)
<1>. DEFINE ends == {i \in DOMAIN s : i <= MaxGroups /\ s[i] < VarintBase}
<1>1. ends \in SUBSET Nat /\ ends \subseteq 1 .. Len(s)
  OBVIOUS
<1>2. ends # {} => Min(ends) \in ends
  <2>. HIDE DEF ends
  <2>. QED BY <1>1, MinIsIn
<1>3. ConsumedBy(s) = IF ends = {} THEN 0 ELSE Min(ends)
  BY DEF ConsumedBy
<1>. HIDE DEF ends
<1>4. CASE ends = {}
  <2>1. Len(s) \in Nat
    OBVIOUS
  <2>. QED BY <1>3, <1>4, <2>1
<1>5. CASE ends # {}
  <2>1. Min(ends) \in 1 .. Len(s)
    BY <1>1, <1>2, <1>5
  <2>. QED BY <1>3, <1>5, <2>1
<1>. QED BY <1>4, <1>5

\* A varint is consumed whole, and nothing of what follows it.
LEMMA ConsumedIsVarint ==
    ASSUME NEW v \in Nat, NEW r \in Seq(Nat), Len(EncodeVarint(v)) <= MaxGroups
    PROVE  ConsumedBy(EncodeVarint(v) \o r) = Len(EncodeVarint(v))
<1>. DEFINE e == EncodeVarint(v)
            n == Len(e)
            s == e \o r
            ends == {i \in DOMAIN s : i <= MaxGroups /\ s[i] < VarintBase}
<1>1. /\ e \in Seq(Nat) /\ e # <<>> /\ e[n] < VarintBase
      /\ \A i \in 1 .. n - 1 : ~ e[i] < VarintBase
  BY VarintEnds
<1>. HIDE DEF e
<1>2. n \in Nat \ {0} /\ DOMAIN s = 1 .. n + Len(r) /\ \A i \in 1 .. n : s[i] = e[i]
  BY <1>1
<1>3. ConsumedBy(s) = IF ends = {} THEN 0 ELSE Min(ends)
  BY DEF ConsumedBy
<1>4. n \in ends
  BY <1>1, <1>2 DEF e
<1>5. \A i \in ends : n <= i
  <2>1. ASSUME NEW i \in ends, i < n PROVE FALSE
    <3>1. i \in 1 .. n - 1 /\ i \in 1 .. n
      BY <1>2, <2>1
    <3>2. s[i] < VarintBase
      OBVIOUS
    <3>. QED BY <1>1, <1>2, <3>1, <3>2
  <2>. QED BY <1>2, <2>1
<1>6. ends \in SUBSET Nat
  OBVIOUS
<1>. HIDE DEF ends
<1>7. Min(ends) \in ends /\ Min(ends) <= n
  BY <1>4, <1>6, MinIsIn
<1>8. n <= Min(ends)
  BY <1>5, <1>7
<1>9. Min(ends) = n
  <2>1. Min(ends) \in Nat /\ n \in Nat
    BY <1>2, <1>6, <1>7
  <2>. QED BY <1>7, <1>8, <2>1
<1>10. ConsumedBy(s) = n
  BY <1>3, <1>4, <1>9
<1>. QED BY <1>10 DEF e

\* Concatenation.
LEMMA Associative ==
    \A a, b, c \in Seq(Nat) : (a \o b) \o c = a \o (b \o c) /\ b \o c \in Seq(Nat)
OBVIOUS

\* A function over 1 .. n is a sequence.
LEMMA FunctionIsSeq ==
    ASSUME NEW T, NEW m \in Nat, NEW f \in [1 .. m -> T]
    PROVE  f \in Seq(T) /\ Len(f) = m
OBVIOUS

\* The elements of a concatenation.
LEMMA Prefixed ==
    ASSUME NEW T, NEW x \in T, NEW s \in Seq(T)
    PROVE  /\ <<x>> \o s \in Seq(T) /\ Len(<<x>> \o s) = Len(s) + 1
           /\ (<<x>> \o s)[1] = x
           /\ \A j \in 1 .. Len(s) : (<<x>> \o s)[j + 1] = s[j]
OBVIOUS

\* P[k] is the key of the first k indices.
Joins(P, s) ==
    /\ P \in [0 .. Len(s) -> Seq(Nat)] /\ P[0] = <<>>
    /\ \A k \in 1 .. Len(s) : P[k] = P[k - 1] \o EncodeVarint(s[k])

\* A key is its varints, joined one after the other.
LEMMA EncodeIs ==
    ASSUME NEW s \in Seq(Nat)
    PROVE  \E P : Joins(P, s) /\ EncodeIndices(s) = P[Len(s)]
<1>. DEFINE n == Len(s)
            V == Seq(Nat)
            step == [p \in (1 .. n) \X V |-> p[2] \o EncodeVarint(s[p[1]])]
            Is(it) == it = [T \in SUBSET DOMAIN s |->
                              IF T = {} THEN <<>>
                              ELSE LET x == Max(T)
                                   IN  it[T \ {x}] \o EncodeVarint(s[x])]
            iter == CHOOSE it : Is(it)
<1>1. EncodeIndices(s) = iter[DOMAIN s]
  BY DEF EncodeIndices, FoldLeft, MapThenFoldSet
<1>2. DOMAIN s = 1 .. n /\ n \in Nat
  OBVIOUS
<1>3. \A x \in 1 .. n, u \in V : /\ step[<<x, u>>] = u \o EncodeVarint(s[x])
                                 /\ u \o EncodeVarint(s[x]) \in V
  <2>1. ASSUME NEW x \in 1 .. n, NEW u \in V
        PROVE  u \o EncodeVarint(s[x]) \in V /\ <<x, u>> \in (1 .. n) \X V
    <3>1. s[x] \in Nat
      BY <1>2
    <3>2. EncodeVarint(s[x]) \in Seq(Nat)
      BY <3>1, VarintUnfolds
    <3>. QED BY <3>2
  <2>. HIDE DEF n, V
  <2>. QED BY <2>1
<1>4. <<>> \in V
  OBVIOUS
<1>. HIDE DEF n, V, step
<1>5. PICK F \in [SUBSET (1 .. n) -> V] : LeftFolds(F, n, <<>>, step)
  <2>1. \A x \in 1 .. n, u \in V : step[<<x, u>>] \in V
    BY <1>3
  <2>. QED BY <1>2, <1>4, <2>1, LeftFold
<1>6. Is(F)
  <2>1. ASSUME NEW T \in SUBSET (1 .. n), T # {}
        PROVE  F[T] = F[T \ {Max(T)}] \o EncodeVarint(s[Max(T)])
    BY <1>2, <1>3, <1>5, <2>1, MaxIsIn DEF LeftFolds
  <2>2. F = [T \in SUBSET (1 .. n) |->
                IF T = {} THEN <<>>
                ELSE F[T \ {Max(T)}] \o EncodeVarint(s[Max(T)])]
    BY <1>5, <2>1 DEF LeftFolds
  <2>. QED BY <1>2, <2>2
<1>7. Is(iter)
  BY <1>6
<1>. HIDE DEF iter
<1>8. /\ iter[1 .. 0] = <<>>
      /\ \A k \in 1 .. n : iter[1 .. k] = iter[1 .. k - 1] \o EncodeVarint(s[k])
  <2>1. \A T \in SUBSET (1 .. n) :
            iter[T] = IF T = {} THEN <<>>
                      ELSE iter[T \ {Max(T)}] \o EncodeVarint(s[Max(T)])
    BY <1>2, <1>7
  <2>2. 1 .. 0 = {}
    OBVIOUS
  <2>3. ASSUME NEW k \in 1 .. n
        PROVE  iter[1 .. k] = iter[1 .. k - 1] \o EncodeVarint(s[k])
    <3>1. /\ 1 .. k \in SUBSET (1 .. n) /\ 1 .. k # {}
          /\ Max(1 .. k) = k /\ (1 .. k) \ {k} = 1 .. k - 1
      BY ONLY <1>2, k \in 1 .. n, MaxOfInterval
    <3>. QED BY ONLY <2>1, <3>1
  <2>4. iter[1 .. 0] = <<>>
    BY ONLY <2>1, <2>2
  <2>. QED BY ONLY <2>3, <2>4
<1>. DEFINE S == {k \in Nat : k <= n => iter[1 .. k] \in V}
<1>9. ASSUME NEW k \in Nat, \A m \in 0 .. k - 1 : m \in S PROVE k \in S
  <2>1. CASE k = 0
    BY <1>4, <1>8, <2>1
  <2>2. CASE k \in 1 .. n
    <3>1. iter[1 .. k - 1] \in V
      BY <1>2, <1>9, <2>2
    <3>. QED BY <1>3, <1>8, <2>2, <3>1
  <2>3. CASE k > n
    BY <1>2, <2>3
  <2>. QED BY <1>2, <2>1, <2>2, <2>3
<1>10. S = Nat
  <2>1. S \in SUBSET Nat
    OBVIOUS
  <2>. HIDE DEF S
  <2>. QED BY <1>9, <2>1, Induction
<1>. DEFINE P == [k \in 0 .. n |-> iter[1 .. k]]
<1>11. /\ P \in [0 .. n -> V] /\ P[0] = <<>> /\ P[n] = iter[DOMAIN s]
       /\ \A k \in 1 .. n : P[k] = P[k - 1] \o EncodeVarint(s[k])
  <2>1. \A k \in 0 .. n : iter[1 .. k] \in V
    BY <1>2, <1>10
  <2>. QED BY <1>2, <1>8, <2>1
<1>. HIDE DEF P
<1>12. Joins(P, s)
  BY <1>11 DEF Joins, n, V
<1>. QED BY <1>1, <1>11, <1>12 DEF n

\* A key, cut in two after an index.
LEMMA KeySplits ==
    ASSUME NEW s \in Seq(Nat), NEW P, Joins(P, s)
    PROVE  \A k \in 0 .. Len(s) : \E r \in Seq(Nat) : P[Len(s)] = P[k] \o r
<1>. DEFINE n == Len(s)
            S == {m \in Nat : m <= n => \E r \in Seq(Nat) : P[n] = P[n - m] \o r}
<1>1. n \in Nat
  OBVIOUS
<1>2. ASSUME NEW m \in Nat, \A l \in 0 .. m - 1 : l \in S PROVE m \in S
  <2>1. CASE m = 0
    <3>1. P[n] \in Seq(Nat) /\ n - m = n
      BY <1>1, <2>1 DEF Joins
    <3>2. P[n] = P[n] \o <<>> /\ <<>> \in Seq(Nat)
      BY <3>1
    <3>. QED BY <3>1, <3>2
  <2>2. CASE m # 0 /\ m <= n
    <3>. DEFINE k == n - m + 1
    <3>1. k \in 1 .. n /\ m - 1 \in S /\ m - 1 <= n /\ n - (m - 1) = k /\ k - 1 = n - m
      <4>1. m - 1 \in 0 .. m - 1
        BY <2>2
      <4>2. m - 1 \in S
        <5>. HIDE DEF S
        <5>. QED BY <1>2, <4>1
      <4>3. /\ k \in 1 .. n /\ m - 1 <= n /\ n - (m - 1) = k /\ k - 1 = n - m
        <5>. HIDE DEF S, n
        <5>. QED BY <1>1, <2>2
      <4>. QED BY <4>2, <4>3
    <3>. HIDE DEF k
    <3>2. PICK r \in Seq(Nat) : P[n] = P[k] \o r
      BY <3>1
    <3>3. P[k] = P[k - 1] \o EncodeVarint(s[k]) /\ P[k - 1] \in Seq(Nat) /\ s[k] \in Nat
      <4>. HIDE DEF S
      <4>1. k \in 1 .. Len(s) /\ k - 1 \in 0 .. Len(s)
        BY <1>1, <3>1
      <4>2. s[k] \in Nat
        BY <4>1
      <4>. QED BY <4>1, <4>2 DEF Joins
    <3>4. EncodeVarint(s[k]) \in Seq(Nat)
      BY <3>3, VarintUnfolds
    <3>5. P[n] = P[k - 1] \o (EncodeVarint(s[k]) \o r)
      <4>1. P[n] = (P[k - 1] \o EncodeVarint(s[k])) \o r
        BY <3>2, <3>3
      <4>. HIDE DEF n
      <4>. QED BY ONLY <3>2, <3>3, <3>4, <4>1, Associative
    <3>6. EncodeVarint(s[k]) \o r \in Seq(Nat)
      BY <3>4
    <3>7. \E x \in Seq(Nat) : P[n] = P[n - m] \o x
      BY <3>1, <3>5, <3>6
    <3>. HIDE DEF n
    <3>. QED BY <3>7
  <2>3. CASE m > n
    BY <1>1, <2>3
  <2>. QED BY <1>1, <2>1, <2>2, <2>3
<1>3. S = Nat
  <2>1. S \in SUBSET Nat
    OBVIOUS
  <2>. HIDE DEF S
  <2>. QED BY <1>2, <2>1, Induction
<1>4. ASSUME NEW k \in 0 .. n PROVE \E r \in Seq(Nat) : P[n] = P[k] \o r
  <2>1. n - k \in S /\ n - k <= n /\ n - (n - k) = k
    <3>1. n - k \in Nat /\ n - k <= n /\ n - (n - k) = k
      BY <1>1
    <3>. HIDE DEF S, n
    <3>. QED BY <1>3, <3>1
  <2>. HIDE DEF n
  <2>. QED BY <2>1
<1>. QED BY <1>4

Rest(s, o) == SubSeq(s, o + 1, Len(s))

\* What is left of a key.
LEMMA RestIs ==
    ASSUME NEW p \in Seq(Nat), NEW r \in Seq(Nat)
    PROVE  Rest(p \o r, Len(p)) = r
<1>. DEFINE t == p \o r
            a == Len(p)
<1>1. /\ t \in Seq(Nat) /\ Len(t) = a + Len(r) /\ a \in Nat /\ Len(r) \in Nat
      /\ \A i \in 1 .. Len(r) : t[a + i] = r[i] /\ r[i] \in Nat
  OBVIOUS
<1>. HIDE DEF t, a
<1>2. \A i \in a + 1 .. Len(t) : t[i] \in Nat
  BY <1>1
<1>3. /\ SubSeq(t, a + 1, Len(t)) \in Seq(Nat)
      /\ Len(SubSeq(t, a + 1, Len(t))) = IF a + 1 <= Len(t) THEN Len(t) - (a + 1) + 1 ELSE 0
      /\ \A i \in 1 .. Len(t) - (a + 1) + 1 : SubSeq(t, a + 1, Len(t))[i] = t[(a + 1) + i - 1]
  <2>1. a + 1 \in Int /\ Len(t) \in Int
    BY <1>1
  <2>. QED BY ONLY <1>2, <2>1, SubSeqProperties
<1>. DEFINE x == SubSeq(t, a + 1, Len(t))
<1>. HIDE DEF x
<1>4. x \in Seq(Nat) /\ Len(x) = Len(r) /\ \A i \in 1 .. Len(r) : x[i] = r[i]
  <2>1. x \in Seq(Nat) /\ Len(x) = Len(r)
    BY <1>1, <1>3 DEF x
  <2>2. ASSUME NEW i \in 1 .. Len(r) PROVE x[i] = r[i]
    <3>1. i \in 1 .. Len(t) - (a + 1) + 1 /\ (a + 1) + i - 1 = a + i
      BY <1>1
    <3>. QED BY <1>1, <1>3, <3>1 DEF x
  <2>. QED BY <2>1, <2>2
<1>5. x = r
  BY <1>4, SeqEqual
<1>. QED BY <1>5 DEF x, t, a, Rest

\* The key at its begin.
LEMMA BeginIs ==
    ASSUME NEW p \in Seq(Nat), NEW r \in Seq(Nat)
    PROVE  SubSeq(p \o r, 1, Len(p)) = p
<1>. DEFINE t == p \o r
            x == SubSeq(t, 1, Len(p))
<1>1. /\ Len(p) \in Nat /\ \A i \in 1 .. Len(p) : t[i] = p[i] /\ p[i] \in Nat
  OBVIOUS
<1>. HIDE DEF t
<1>2. \A i \in 1 .. Len(p) : t[i] \in Nat
  BY <1>1
<1>3. x \in Seq(Nat) /\ Len(x) = Len(p) /\ \A i \in 1 .. Len(p) : x[i] = p[i]
  BY <1>1, <1>2, SubSeqProperties
<1>. HIDE DEF x
<1>4. x = p
  BY <1>3, SeqEqual
<1>. QED BY <1>4 DEF x, t

\* A key, decoded from its positions on.
Reads(F, key) ==
    \A o \in 0 .. Len(key) :
        F[o] = IF ConsumedBy(Rest(key, o)) = 0 THEN <<>>
               ELSE <<DecodeVarint(SubSeq(Rest(key, o), 1, ConsumedBy(Rest(key, o))))>>
                    \o F[o + ConsumedBy(Rest(key, o))]

\* The recursion of DecodeKey has a solution.
LEMMA ReadsExist ==
    ASSUME NEW key \in Seq(Nat)
    PROVE  \E F \in [0 .. Len(key) -> Seq(Nat)] : Reads(F, key)
<1>. DEFINE n == Len(key)
            V == Seq(Nat)
            used == [o \in 0 .. n |-> ConsumedBy(Rest(key, o))]
            value == [o \in 0 .. n |-> DecodeVarint(SubSeq(Rest(key, o), 1, used[o]))]
            down == [x \in 0 .. n |-> x - used[n - x]]
            stop == [x \in 0 .. n |-> <<>>]
            step == [p \in (0 .. n) \X V |->
                        IF value[n - p[1]] \in Nat THEN <<value[n - p[1]]>> \o p[2]
                        ELSE <<>>]
<1>1. n \in Nat
  OBVIOUS
<1>2. ASSUME NEW o \in 0 .. n
      PROVE  used[o] \in 0 .. n - o /\ value[o] \in Nat
  <2>. DEFINE r == Rest(key, o)
  <2>1. r \in Seq(Nat) /\ Len(r) = n - o
    <3>1. o \in Nat /\ \A i \in o + 1 .. Len(key) : key[i] \in Nat
      BY <1>1
    <3>. QED BY <1>1, <3>1, SubSeqProperties DEF Rest
  <2>. HIDE DEF r
  <2>2. ConsumedBy(r) \in 0 .. n - o
    BY <2>1, ConsumedIsIn
  <2>3. SubSeq(r, 1, ConsumedBy(r)) \in Seq(Nat)
    <3>. DEFINE c == ConsumedBy(r)
    <3>1. c \in Int /\ \A i \in 1 .. c : r[i] \in Nat
      <4>1. c \in 0 .. Len(r) /\ Len(r) \in Nat
        BY <1>1, <2>1, <2>2
      <4>. HIDE DEF c
      <4>. QED BY <2>1, <4>1
    <3>. HIDE DEF c
    <3>2. SubSeq(r, 1, c) \in Seq(Nat)
      BY <3>1, SubSeqProperties
    <3>. QED BY <3>2 DEF c
  <2>4. DecodeVarint(SubSeq(r, 1, ConsumedBy(r))) \in Nat
    BY <2>3, DecodeUnfolds, 0 \in Nat
  <2>. QED BY <2>2, <2>4 DEF r
<1>3. \A x \in 0 .. n : down[x] = x - used[n - x] /\ stop[x] = <<>>
  OBVIOUS
<1>4. \A x \in 0 .. n, v \in V : step[<<x, v>>] =
            IF value[n - x] \in Nat THEN <<value[n - x]>> \o v ELSE <<>>
  <2>1. \A x \in 0 .. n, v \in V : <<x, v>> \in (0 .. n) \X V
    OBVIOUS
  <2>. HIDE DEF value, n, V
  <2>. QED BY <2>1
<1>5. \A o \in 0 .. n : /\ used[o] = ConsumedBy(Rest(key, o))
                        /\ value[o] = DecodeVarint(SubSeq(Rest(key, o), 1, used[o]))
  OBVIOUS
<1>. HIDE DEF n, used, value, down, stop, step
<1>6. \A x \in 0 .. n, v \in V : step[<<x, v>>] = <<value[n - x]>> \o v /\ step[<<x, v>>] \in V
  <2>1. ASSUME NEW x \in 0 .. n, NEW v \in V
        PROVE  step[<<x, v>>] = <<value[n - x]>> \o v /\ step[<<x, v>>] \in V
    <3>1. value[n - x] \in Nat
      BY <1>1, <1>2
    <3>2. step[<<x, v>>] = <<value[n - x]>> \o v
      BY <1>4, <3>1
    <3>. QED BY <3>1, <3>2
  <2>. HIDE DEF V
  <2>. QED BY <2>1
<1>7. PICK G \in [0 .. n -> V] : Descends(G, n, down, stop, step)
  <2>1. \A x \in 0 .. n : stop[x] \in V /\ \A v \in V : step[<<x, v>>] \in V
    <3>1. <<>> \in V
      OBVIOUS
    <3>. HIDE DEF V
    <3>. QED BY ONLY <1>3, <1>6, <3>1
  <2>. HIDE DEF V
  <2>. QED BY ONLY <1>1, <2>1, DescentExists
<1>. DEFINE F == [o \in 0 .. n |-> G[n - o]]
<1>8. F \in [0 .. n -> V] /\ \A o \in 0 .. n : F[o] = G[n - o]
  <2>1. \A o \in 0 .. n : n - o \in 0 .. n
    BY <1>1
  <2>. HIDE DEF V
  <2>. QED BY <2>1
<1>. HIDE DEF F, V
<1>9. ASSUME NEW o \in 0 .. n
      PROVE  F[o] = IF used[o] = 0 THEN <<>> ELSE <<value[o]>> \o F[o + used[o]]
  <2>. DEFINE x == n - o
  <2>1. x \in 0 .. n /\ n - x = o /\ F[o] = G[x] /\ down[x] = x - used[o]
    BY <1>1, <1>3, <1>8
  <2>2. used[o] \in 0 .. x
    BY <1>2
  <2>. HIDE DEF x
  <2>3. CASE used[o] = 0
    <3>1. ~ down[x] \in 0 .. x - 1
      BY <1>1, <2>1, <2>3
    <3>. QED BY <1>3, <1>7, <2>1, <2>3, <3>1 DEF Descends
  <2>4. CASE used[o] # 0
    <3>1. down[x] \in 0 .. x - 1 /\ down[x] \in 0 .. n
      BY <1>1, <2>1, <2>2, <2>4
    <3>2. G[x] = step[<<x, G[down[x]]>>]
      BY <1>7, <2>1, <3>1 DEF Descends
    <3>3. G[x] = <<value[o]>> \o G[down[x]]
      BY <1>6, <2>1, <3>1, <3>2
    <3>4. o + used[o] \in 0 .. n /\ n - (o + used[o]) = down[x]
      BY <1>1, <2>1, <2>2, <3>1
    <3>5. F[o + used[o]] = G[down[x]]
      BY <1>8, <3>4
    <3>. QED BY <2>1, <2>4, <3>3, <3>5
  <2>. QED BY <2>3, <2>4
<1>10. Reads(F, key)
  BY <1>5, <1>9 DEF Reads, n
<1>. QED BY <1>8, <1>10 DEF n, V

\* A key is decoded to the indices it was made of.
LEMMA KeyDecodes ==
    ASSUME NEW s \in Seq(Nat), \A i \in 1 .. Len(s) : Len(EncodeVarint(s[i])) <= MaxGroups
    PROVE  DecodeKey(EncodeIndices(s)) = s
<1>. DEFINE n == Len(s)
            key == EncodeIndices(s)
            Is(F) == F = [o \in 0 .. Len(key) |->
                            LET rest == SubSeq(key, o + 1, Len(key))
                                c    == ConsumedBy(rest)
                            IN  IF c = 0 THEN <<>>
                                ELSE <<DecodeVarint(SubSeq(rest, 1, c))>> \o F[o + c]]
            it == CHOOSE F : Is(F)
<1>1. DecodeKey(key) = it[0]
  BY DEF DecodeKey
<1>2. PICK P : Joins(P, s) /\ key = P[n]
  BY EncodeIs
<1>3. n \in Nat /\ key \in Seq(Nat)
  BY <1>2 DEF Joins
<1>. HIDE DEF key
<1>4. Reads(it, key)
  <2>1. PICK F \in [0 .. Len(key) -> Seq(Nat)] : Reads(F, key)
    BY <1>3, ReadsExist
  <2>2. F = [o \in 0 .. Len(key) |-> F[o]]
    OBVIOUS
  <2>3. Is(F)
    BY <2>1, <2>2 DEF Reads, Rest
  <2>4. Is(it)
    BY <2>3
  <2>. HIDE DEF it
  <2>. QED BY <2>4 DEF Reads, Rest
<1>. HIDE DEF it
<1>. DEFINE Tl(k) == [i \in 1 .. n - k |-> s[k + i]]
            S == {m \in Nat : m <= n => it[Len(P[n - m])] = Tl(n - m)}
<1>5. ASSUME NEW m \in Nat, \A l \in 0 .. m - 1 : l \in S PROVE m \in S
  <2>1. CASE m = 0
    <3>1. n - m = n /\ key \in Seq(Nat) /\ key = key \o <<>> /\ <<>> \in Seq(Nat)
      <4>. HIDE DEF S, n
      <4>. QED BY <1>3, <2>1
    <3>2. Rest(key, Len(key)) = <<>>
      BY ONLY <3>1, RestIs
    <3>3. ConsumedBy(<<>>) = 0
      BY DEF ConsumedBy
    <3>4. Len(key) \in 0 .. Len(key)
      BY <3>1
    <3>5. it[Len(key)] = <<>>
      BY <1>4, <3>2, <3>3, <3>4 DEF Reads
    <3>6. Tl(n) = <<>>
      <4>1. 1 .. n - n = {}
        BY <1>3
      <4>. QED BY <4>1
    <3>. QED BY <1>2, <3>1, <3>5, <3>6
  <2>2. CASE m # 0 /\ m <= n
    <3>. DEFINE k == n - m + 1
                x == s[k]
                e == EncodeVarint(x)
    <3>1. /\ k \in 1 .. n /\ m - 1 \in S /\ m - 1 <= n /\ n - (m - 1) = k
          /\ k - 1 = n - m /\ k - 1 \in 0 .. n /\ k \in 0 .. n
      <4>1. m - 1 \in 0 .. m - 1
        BY <2>2
      <4>2. m - 1 \in S
        <5>. HIDE DEF S
        <5>. QED BY <1>5, <4>1
      <4>3. /\ k \in 1 .. n /\ m - 1 <= n /\ n - (m - 1) = k /\ k - 1 = n - m
            /\ k - 1 \in 0 .. n /\ k \in 0 .. n
        <5>. HIDE DEF S, n
        <5>. QED BY <1>3, <2>2
      <4>. QED BY <4>2, <4>3
    <3>. HIDE DEF k
    <3>2. it[Len(P[k])] = Tl(k)
      BY <3>1
    <3>. HIDE DEF S
    <3>3. x \in Nat /\ e \in Seq(Nat) /\ Len(e) <= MaxGroups /\ DecodeVarint(e) = x /\ Len(e) # 0
      <4>1. x \in Nat
        BY <3>1
      <4>2. e \in Seq(Nat) /\ e # <<>> /\ DecodeVarint(e) = x
        BY <4>1, VarintEnds, VarintDecodes
      <4>. QED BY <3>1, <4>1, <4>2
    <3>4. P[k] = P[k - 1] \o e /\ P[k - 1] \in Seq(Nat) /\ P[k] \in Seq(Nat)
      BY <1>2, <3>1 DEF Joins
    <3>5. PICK r \in Seq(Nat) : key = P[k] \o r
      <4>1. Joins(P, s) /\ k \in 0 .. Len(s) /\ key = P[Len(s)]
        BY <1>2, <3>1
      <4>. QED BY ONLY s \in Seq(Nat), <4>1, KeySplits
    <3>. HIDE DEF n, x, e
    <3>6. key = P[k - 1] \o (e \o r) /\ e \o r \in Seq(Nat)
      <4>1. key = (P[k - 1] \o e) \o r
        BY <3>4, <3>5
      <4>. QED BY ONLY <3>3, <3>4, <3>5, <4>1, Associative
    <3>. DEFINE o == Len(P[k - 1])
    <3>7. Rest(key, o) = e \o r
      BY <3>4, <3>6, RestIs
    <3>8. ConsumedBy(e \o r) = Len(e)
      BY <3>3, ConsumedIsVarint DEF e
    <3>9. SubSeq(e \o r, 1, Len(e)) = e
      BY <3>3, BeginIs
    <3>10. o \in 0 .. Len(key) /\ o + Len(e) = Len(P[k])
      <4>1. \A a, b \in Seq(Nat) : Len(a \o b) = Len(a) + Len(b) /\ Len(a) \in Nat
        OBVIOUS
      <4>2. Len(key) = o + Len(e \o r) /\ o \in Nat /\ Len(e \o r) \in Nat
        BY <3>4, <3>6, <4>1
      <4>3. Len(P[k]) = o + Len(e)
        BY <3>3, <3>4, <4>1
      <4>. HIDE DEF o
      <4>. QED BY <4>2, <4>3
    <3>. HIDE DEF o
    <3>11. it[o] = <<x>> \o it[Len(P[k])]
      BY <1>4, <3>3, <3>7, <3>8, <3>9, <3>10 DEF Reads
    <3>12. Tl(k - 1) = <<x>> \o Tl(k)
      <4>1. Tl(k) \in Seq(Nat) /\ Len(Tl(k)) = n - k /\ \A i \in 1 .. n - k : Tl(k)[i] = s[k + i]
        <5>1. n - k \in Nat /\ \A i \in 1 .. n - k : s[k + i] \in Nat
          <6>1. \A i \in 1 .. n - k : k + i \in 1 .. n
            BY ONLY <1>3, <3>1
          <6>2. \A j \in 1 .. n : s[j] \in Nat
            BY ONLY s \in Seq(Nat) DEF n
          <6>3. n - k \in Nat
            BY ONLY <1>3, <3>1
          <6>. QED BY <6>1, <6>2, <6>3
        <5>2. Tl(k) \in [1 .. n - k -> Nat] /\ \A i \in 1 .. n - k : Tl(k)[i] = s[k + i]
          BY <5>1
        <5>. HIDE DEF Tl
        <5>. QED BY ONLY <5>1, <5>2, FunctionIsSeq
      <4>2. /\ Tl(k - 1) \in Seq(Nat) /\ Len(Tl(k - 1)) = n - k + 1
            /\ \A i \in 1 .. n - k + 1 : Tl(k - 1)[i] = s[k - 1 + i]
        <5>1. n - (k - 1) = n - k + 1 /\ n - k + 1 \in Nat
          BY <1>3, <3>1
        <5>2. \A i \in 1 .. n - k + 1 : s[k - 1 + i] \in Nat
          <6>1. \A i \in 1 .. n - k + 1 : k - 1 + i \in 1 .. n
            BY ONLY <1>3, <3>1
          <6>2. \A j \in 1 .. n : s[j] \in Nat
            BY ONLY s \in Seq(Nat) DEF n
          <6>. QED BY <6>1, <6>2
        <5>3. /\ Tl(k - 1) \in [1 .. n - k + 1 -> Nat]
              /\ \A i \in 1 .. n - k + 1 : Tl(k - 1)[i] = s[k - 1 + i]
          BY <5>1, <5>2
        <5>. HIDE DEF Tl
        <5>. QED BY ONLY <5>1, <5>3, FunctionIsSeq
      <4>. DEFINE A == Tl(k - 1)
                  B == Tl(k)
      <4>a. B \in Seq(Nat) /\ Len(B) = n - k /\ \A i \in 1 .. n - k : B[i] = s[k + i]
        BY <4>1
      <4>b. /\ A \in Seq(Nat) /\ Len(A) = n - k + 1
            /\ \A i \in 1 .. n - k + 1 : A[i] = s[k - 1 + i]
        BY <4>2
      <4>. HIDE DEF A, B, Tl
      <4>c. /\ <<x>> \o B \in Seq(Nat) /\ Len(<<x>> \o B) = Len(B) + 1
            /\ (<<x>> \o B)[1] = x
            /\ \A j \in 1 .. Len(B) : (<<x>> \o B)[j + 1] = B[j]
        <5>1. x \in Nat /\ B \in Seq(Nat)
          BY <3>3, <4>a
        <5>. QED BY ONLY <5>1, Prefixed
      <4>3. /\ <<x>> \o B \in Seq(Nat) /\ Len(<<x>> \o B) = Len(A)
        BY ONLY <1>3, <3>1, <4>a, <4>b, <4>c
      <4>4. ASSUME NEW i \in 1 .. Len(A) PROVE A[i] = (<<x>> \o B)[i]
        <5>1. i \in 1 .. n - k + 1 /\ A[i] = s[k - 1 + i]
          BY <4>b
        <5>2. CASE i = 1
          <6>1. k - 1 + i = k
            BY <3>1, <5>2
          <6>. QED BY <4>c, <5>1, <5>2, <6>1 DEF x
        <5>3. CASE i # 1
          <6>1. i - 1 \in 1 .. n - k /\ k + (i - 1) = k - 1 + i /\ (i - 1) + 1 = i
            BY <1>3, <3>1, <5>1, <5>3
          <6>2. (<<x>> \o B)[i] = B[i - 1]
            BY ONLY <4>a, <4>c, <6>1
          <6>. QED BY <4>a, <5>1, <6>1, <6>2
        <5>. QED BY <5>2, <5>3
      <4>5. A = <<x>> \o B
        BY <4>b, <4>3, <4>4, SeqEqual
      <4>. QED BY <4>5 DEF A, B
    <3>13. it[Len(P[n - m])] = Tl(n - m)
      <4>. HIDE DEF Tl
      <4>. QED BY <3>1, <3>2, <3>11, <3>12 DEF o
    <3>. QED BY <3>13 DEF S
  <2>3. CASE m > n
    <3>. HIDE DEF n
    <3>. QED BY <1>3, <2>3
  <2>. HIDE DEF S
  <2>. QED BY <1>3, <2>1, <2>2, <2>3
<1>6. S = Nat
  <2>1. S \in SUBSET Nat
    OBVIOUS
  <2>. HIDE DEF S
  <2>. QED BY <1>5, <2>1, Induction
<1>7. it[Len(P[0])] = Tl(0)
  <2>1. n \in Nat /\ n <= n /\ n - n = 0
    BY <1>3
  <2>. HIDE DEF n
  <2>. QED BY <1>6, <2>1
<1>8. Len(P[0]) = 0
  BY <1>2 DEF Joins
<1>9. Tl(0) = s
  <2>1. n - 0 = n /\ \A i \in 1 .. n : 0 + i = i
    BY <1>3
  <2>2. s = [i \in 1 .. n |-> s[i]]
    OBVIOUS
  <2>. QED BY <2>1, <2>2
<1>. HIDE DEF Tl
<1>. QED BY <1>1, <1>7, <1>8, <1>9 DEF key

---------------------------------------------------------------------------
(* The keys of n-grams. *)

Fits(W) == /\ IsFiniteSet(W)
           /\ \A index \in 1 .. Cardinality(W) : Len(EncodeVarint(index)) <= MaxGroups

Indices(v, g) == [i \in DOMAIN g |-> IndexOf(v, g[i])]

\* The indices of an n-gram whose words are in the vocabulary.
LEMMA IndicesAre ==
    ASSUME NEW W, Fits(W), NEW v \in Vocabularies(W), NEW g \in Seq(W), Contained(v, g)
    PROVE  /\ Indices(v, g) \in Seq(Nat) /\ Len(Indices(v, g)) = Len(g)
           /\ \A i \in 1 .. Len(g) : /\ Indices(v, g)[i] \in 1 .. Len(v)
                                     /\ v[Indices(v, g)[i]] = g[i]
                                     /\ Indices(v, g)[i] = IndexOf(v, g[i])
                                     /\ Len(EncodeVarint(Indices(v, g)[i])) <= MaxGroups
           /\ EncodeNgram(v, g) = EncodeIndices(Indices(v, g))
<1>1. DOMAIN g = 1 .. Len(g) /\ Len(g) \in Nat
  OBVIOUS
<1>2. Len(v) \in Nat /\ Len(v) <= Cardinality(W) /\ Cardinality(W) \in Nat
  BY VocabularyIsSmall, FS_CardinalityType DEF Fits
<1>3. ASSUME NEW i \in 1 .. Len(g)
      PROVE  /\ IndexOf(v, g[i]) \in 1 .. Len(v) /\ v[IndexOf(v, g[i])] = g[i]
             /\ IndexOf(v, g[i]) \in 1 .. Cardinality(W)
  <2>1. Contains(v, g[i])
    BY <1>1 DEF Contained
  <2>2. IndexOf(v, g[i]) \in 1 .. Len(v) /\ v[IndexOf(v, g[i])] = g[i]
    BY <2>1, IndexIs
  <2>. QED BY <1>2, <2>2
<1>4. \A i \in 1 .. Len(g) : Indices(v, g)[i] = IndexOf(v, g[i])
  BY <1>1 DEF Indices
<1>5. Indices(v, g) \in [1 .. Len(g) -> Nat]
  <2>1. \A i \in 1 .. Len(g) : IndexOf(v, g[i]) \in Nat
    BY <1>3
  <2>. QED BY <1>1, <2>1 DEF Indices
<1>6. Indices(v, g) \in Seq(Nat) /\ Len(Indices(v, g)) = Len(g)
  BY <1>1, <1>5, FunctionIsSeq
<1>7. EncodeNgram(v, g) = EncodeIndices(Indices(v, g))
  BY DEF EncodeNgram, Indices
<1>8. \A i \in 1 .. Len(g) : Len(EncodeVarint(Indices(v, g)[i])) <= MaxGroups
  BY <1>3, <1>4 DEF Fits
<1>. QED BY <1>3, <1>4, <1>6, <1>7, <1>8

\* The key of an n-gram is decoded to the indices of its words, and is no
\* metadata.
LEMMA KeyReads ==
    ASSUME NEW W, Fits(W), NEW v \in Vocabularies(W), NEW g \in Seq(W), Contained(v, g)
    PROVE  /\ EncodeNgram(v, g) \in Seq(Nat)
           /\ DecodeKey(EncodeNgram(v, g)) = Indices(v, g)
           /\ KeyOrder(EncodeNgram(v, g)) = Len(g)
           /\ g # <<>> => EncodeNgram(v, g) # <<>> /\ EncodeNgram(v, g)[1] # 0
<1>. DEFINE s == Indices(v, g)
<1>1. /\ s \in Seq(Nat) /\ Len(s) = Len(g)
      /\ \A i \in 1 .. Len(g) : /\ s[i] \in 1 .. Len(v)
                                /\ Len(EncodeVarint(s[i])) <= MaxGroups
      /\ EncodeNgram(v, g) = EncodeIndices(s)
  BY IndicesAre
<1>. HIDE DEF s
<1>2. DecodeKey(EncodeIndices(s)) = s
  <2>1. \A i \in 1 .. Len(s) : Len(EncodeVarint(s[i])) <= MaxGroups
    BY <1>1
  <2>. QED BY <1>1, <2>1, KeyDecodes
<1>3. PICK P : Joins(P, s) /\ EncodeIndices(s) = P[Len(s)]
  BY <1>1, EncodeIs
<1>4. EncodeIndices(s) \in Seq(Nat)
  BY <1>1, <1>3 DEF Joins
<1>5. ASSUME g # <<>>
      PROVE  EncodeIndices(s) # <<>> /\ EncodeIndices(s)[1] # 0
  <2>1. Len(g) \in Nat \ {0}
    BY <1>5
  <2>2. 1 \in 1 .. Len(g) /\ s[1] \in Nat \ {0} /\ 1 \in 0 .. Len(s) /\ 1 \in 1 .. Len(s)
    BY <1>1, <2>1
  <2>. DEFINE e == EncodeVarint(s[1])
  <2>3. e \in Seq(Nat) /\ e # <<>> /\ e[1] # 0
    BY <2>2, VarintEnds
  <2>. HIDE DEF e
  <2>4. P[1] = e
    <3>1. P[1] = P[0] \o e /\ P[0] = <<>>
      <4>1. \A k \in 1 .. Len(s) : P[k] = P[k - 1] \o EncodeVarint(s[k])
        BY <1>3 DEF Joins
      <4>2. P[1] = P[0] \o EncodeVarint(s[1])
        <5>. DEFINE k == 1
        <5>1. k \in 1 .. Len(s) /\ k - 1 = 0 /\ k = 1
          BY <2>2
        <5>. HIDE DEF k
        <5>2. P[k] = P[k - 1] \o EncodeVarint(s[k])
          BY ONLY <4>1, <5>1
        <5>. QED BY ONLY <5>1, <5>2
      <4>3. P[0] = <<>>
        BY <1>3 DEF Joins
      <4>. QED BY <4>2, <4>3 DEF e
    <3>2. <<>> \o e = e
      BY <2>3
    <3>. QED BY <3>1, <3>2
  <2>5. PICK r \in Seq(Nat) : EncodeIndices(s) = e \o r
    <3>1. \A k \in 0 .. Len(s) : \E r \in Seq(Nat) : P[Len(s)] = P[k] \o r
      BY <1>1, <1>3, KeySplits
    <3>. QED BY <1>3, <2>2, <2>4, <3>1
  <2>6. /\ Len(e) \in Nat \ {0} /\ Len(e \o r) = Len(e) + Len(r) /\ Len(r) \in Nat
        /\ (e \o r)[1] = e[1]
    BY <2>3
  <2>7. Len(<<>>) = 0 /\ Len(e \o r) # 0
    BY <2>6
  <2>. QED BY <2>3, <2>5, <2>6, <2>7
<1>6. KeyOrder(EncodeIndices(s)) = Len(g)
  BY <1>1, <1>2 DEF KeyOrder
<1>. QED BY <1>1, <1>2, <1>4, <1>5, <1>6 DEF s

\* No two n-grams have a key.
LEMMA KeyInjective ==
    ASSUME NEW W, Fits(W), NEW v \in Vocabularies(W),
           NEW g \in Seq(W), Contained(v, g), NEW h \in Seq(W), Contained(v, h),
           EncodeNgram(v, g) = EncodeNgram(v, h)
    PROVE  g = h
<1>1. Indices(v, g) = Indices(v, h)
  <2>1. DecodeKey(EncodeNgram(v, g)) = Indices(v, g)
    BY KeyReads
  <2>2. DecodeKey(EncodeNgram(v, h)) = Indices(v, h)
    BY KeyReads
  <2>. QED BY <2>1, <2>2
<1>2. /\ Len(Indices(v, g)) = Len(g)
      /\ \A i \in 1 .. Len(g) : v[Indices(v, g)[i]] = g[i]
  BY IndicesAre
<1>3. /\ Len(Indices(v, h)) = Len(h)
      /\ \A i \in 1 .. Len(h) : v[Indices(v, h)[i]] = h[i]
  BY IndicesAre
<1>4. Len(g) = Len(h) /\ \A i \in 1 .. Len(g) : g[i] = h[i]
  BY <1>1, <1>2, <1>3
<1>. QED BY <1>4, SeqEqual

\* The vocabulary u has the words of v under their indices, and perhaps more.
Extended(v, u) == Len(v) <= Len(u) /\ \A i \in 1 .. Len(v) : u[i] = v[i]

\* What is known keeps its key.
LEMMA KeyStable ==
    ASSUME NEW W, NEW v \in Vocabularies(W), NEW u \in Vocabularies(W), Extended(v, u),
           NEW g \in Seq(W), Contained(v, g)
    PROVE  Contained(u, g) /\ EncodeNgram(u, g) = EncodeNgram(v, g)
<1>1. v \in Seq(W) /\ u \in Seq(W) /\ \A i, j \in 1 .. Len(u) : u[i] = u[j] => i = j
  BY DEF Vocabularies, IsInjective
<1>2. ASSUME NEW i \in DOMAIN g
      PROVE  Contains(u, g[i]) /\ IndexOf(u, g[i]) = IndexOf(v, g[i])
  <2>1. Contains(v, g[i])
    BY DEF Contained
  <2>2. IndexOf(v, g[i]) \in 1 .. Len(v) /\ v[IndexOf(v, g[i])] = g[i]
    BY <2>1, IndexIs
  <2>3. IndexOf(v, g[i]) \in 1 .. Len(u) /\ u[IndexOf(v, g[i])] = g[i]
    BY <1>1, <2>2 DEF Extended
  <2>4. Contains(u, g[i])
    BY <1>1, <2>3 DEF Contains
  <2>5. IndexOf(u, g[i]) \in 1 .. Len(u) /\ u[IndexOf(u, g[i])] = g[i]
    BY <2>4, IndexIs
  <2>. QED BY <1>1, <2>3, <2>4, <2>5
<1>3. [i \in DOMAIN g |-> IndexOf(u, g[i])] = [i \in DOMAIN g |-> IndexOf(v, g[i])]
  BY <1>2
<1>. QED BY <1>2, <1>3 DEF Contained, EncodeNgram

---------------------------------------------------------------------------
(* Sums. *)

\* G[T] is the sum of F over T.
Sums(G, F, D) ==
    /\ \A T \in SUBSET D : G[T] \in Nat
    /\ G[{}] = 0
    /\ \A T \in SUBSET D : \A x \in T : G[T] = F[x] + G[T \ {x}]

Summable(F) == IsFiniteSet(DOMAIN F) /\ \A x \in DOMAIN F : F[x] \in Nat

\* Two sums of the same terms are the same.
LEMMA SumsAgree ==
    ASSUME NEW D, IsFiniteSet(D), NEW F, NEW K, \A x \in D : F[x] = K[x],
           NEW G, Sums(G, F, D), NEW H, Sums(H, K, D)
    PROVE  G[D] = H[D]
<1>. DEFINE A == {T \in SUBSET D : G[T] = H[T]}
<1>1. ASSUME NEW T \in SUBSET D, \A R \in SUBSET T : R # T => R \in A
      PROVE  T \in A
  <2>1. CASE T = {}
    BY <2>1 DEF Sums
  <2>2. CASE T # {}
    <3>1. PICK x \in T : TRUE
      BY <2>2
    <3>2. T \ {x} \in A
      BY <1>1
    <3>3. G[T] = F[x] + G[T \ {x}] /\ H[T] = K[x] + H[T \ {x}] /\ F[x] = K[x]
      BY DEF Sums
    <3>. QED BY <3>2, <3>3
  <2>. QED BY <2>1, <2>2
<1>2. \A T \in SUBSET D : T \in A
  <2>. HIDE DEF A
  <2>. QED BY <1>1, SetInduction
<1>. QED BY <1>2

\* SumFunction is a sum, whatever the order.
LEMMA SumIs ==
    ASSUME NEW F, Summable(F)
    PROVE  \E G : Sums(G, F, DOMAIN F) /\ SumFunction(F) = G[DOMAIN F]
<1>. DEFINE D == DOMAIN F
            pick == [T \in SUBSET D |-> CHOOSE x \in T : TRUE]
            step == [p \in D \X Nat |-> F[p[1]] + p[2]]
            Is(it) == it = [T \in SUBSET D |->
                              IF T = {} THEN 0
                              ELSE LET x == CHOOSE x \in T : TRUE
                                   IN  F[x] + it[T \ {x}]]
            iter == CHOOSE it : Is(it)
<1>1. SumFunction(F) = iter[D]
  BY DEF SumFunction, SumFunctionOnSet, FoldFunctionOnSet, MapThenFoldSet
<1>2. IsFiniteSet(D) /\ \A x \in D : F[x] \in Nat
  BY DEF Summable
<1>. HIDE DEF D
<1>3. Picks(pick, D)
  BY DEF Picks
<1>4. \A x \in D, n \in Nat : step[<<x, n>>] = F[x] + n /\ step[<<x, n>>] \in Nat
  BY <1>2
<1>5. \A T \in SUBSET D : pick[T] = CHOOSE x \in T : TRUE
  OBVIOUS
<1>. HIDE DEF pick, step
<1>6. PICK G \in [SUBSET D -> Nat] : Folds(G, D, 0, pick, step)
  <2>1. \A x \in D, n \in Nat : step[<<x, n>>] \in Nat
    BY <1>4
  <2>. QED BY <1>2, <1>3, <2>1, FoldExists
<1>7. Is(G)
  <2>1. ASSUME NEW T \in SUBSET D, T # {}
        PROVE  G[T] = F[CHOOSE x \in T : TRUE] + G[T \ {CHOOSE x \in T : TRUE}]
    <3>. DEFINE y == CHOOSE x \in T : TRUE
    <3>1. y \in T /\ pick[T] = y
      BY <1>5, <2>1
    <3>. HIDE DEF y
    <3>2. G[T \ {y}] \in Nat /\ y \in D
      BY <3>1
    <3>3. G[T] = step[<<y, G[T \ {y}]>>]
      BY <1>6, <2>1, <3>1 DEF Folds
    <3>4. G[T] = F[y] + G[T \ {y}]
      BY <1>4, <3>2, <3>3
    <3>. QED BY <3>4 DEF y
  <2>2. G[{}] = 0 /\ G = [T \in SUBSET D |-> G[T]]
    BY <1>6 DEF Folds
  <2>. QED BY <2>1, <2>2
<1>8. Is(iter)
  BY <1>7
<1>. HIDE DEF iter
<1>9. /\ iter[{}] = 0
      /\ \A T \in SUBSET D : T # {} => /\ pick[T] \in T
                                       /\ iter[T] = F[pick[T]] + iter[T \ {pick[T]}]
  <2>1. \A T \in SUBSET D : iter[T] = IF T = {} THEN 0
                                      ELSE F[pick[T]] + iter[T \ {pick[T]}]
    BY <1>5, <1>8
  <2>. QED BY <1>3, <2>1 DEF Picks
<1>. HIDE DEF Is
<1>. DEFINE Good(T) == /\ iter[T] \in Nat
                       /\ \A x \in T : iter[T] = F[x] + iter[T \ {x}]
            A == {T \in SUBSET D : Good(T)}
<1>10. ASSUME NEW T \in SUBSET D, \A R \in SUBSET T : R # T => R \in A
       PROVE  T \in A
  <2>1. CASE T = {}
    BY <1>9, <2>1
  <2>2. CASE T # {}
    <3>. DEFINE y == pick[T]
    <3>1. y \in T /\ iter[T] = F[y] + iter[T \ {y}]
      BY <1>9, <2>2
    <3>. HIDE DEF y
    <3>2. Good(T \ {y})
      <4>1. T \ {y} \in SUBSET T /\ T \ {y} # T
        BY <3>1
      <4>2. T \ {y} \in A
        BY ONLY <1>10, <4>1
      <4>. QED BY <4>2
    <3>3. ASSUME NEW x \in T PROVE iter[T] = F[x] + iter[T \ {x}]
      <4>1. CASE x = y
        BY <3>1, <4>1
      <4>2. CASE x # y
        <5>1. Good(T \ {x})
          <6>1. T \ {x} \in SUBSET T /\ T \ {x} # T
            OBVIOUS
          <6>2. T \ {x} \in A
            BY ONLY <1>10, <6>1
          <6>. QED BY <6>2
        <5>2. iter[T \ {x}] = F[y] + iter[(T \ {x}) \ {y}]
          BY <3>1, <4>2, <5>1
        <5>3. iter[T \ {y}] = F[x] + iter[(T \ {y}) \ {x}]
          BY <3>2, <4>2
        <5>4. (T \ {x}) \ {y} = (T \ {y}) \ {x}
          OBVIOUS
        <5>5. iter[(T \ {y}) \ {x}] \in Nat
          <6>1. (T \ {y}) \ {x} \in SUBSET T /\ (T \ {y}) \ {x} # T
            OBVIOUS
          <6>2. (T \ {y}) \ {x} \in A
            BY ONLY <1>10, <6>1
          <6>. QED BY <6>2
        <5>6. F[x] \in Nat /\ F[y] \in Nat
          BY <1>2, <3>1
        <5>. DEFINE r == iter[(T \ {y}) \ {x}]
        <5>7. iter[T] = F[y] + (F[x] + r) /\ iter[T \ {x}] = F[y] + r
          BY ONLY <3>1, <5>2, <5>3, <5>4
        <5>8. r \in Nat
          BY <5>5
        <5>. HIDE DEF r
        <5>. QED BY ONLY <5>6, <5>7, <5>8
      <4>. QED BY <4>1, <4>2
    <3>4. iter[T] \in Nat
      BY <1>2, <3>1, <3>2
    <3>. QED BY <3>3, <3>4
  <2>. QED BY <2>1, <2>2
<1>11. \A T \in SUBSET D : T \in A
  <2>. HIDE DEF A
  <2>. QED BY <1>2, <1>10, SetInduction
<1>12. Sums(iter, F, D)
  BY <1>9, <1>11 DEF Sums
<1>. QED BY <1>1, <1>12 DEF D

\* A sum of naturals is one.
LEMMA SumType ==
    ASSUME NEW F, Summable(F)
    PROVE  SumFunction(F) \in Nat
<1>1. PICK G : Sums(G, F, DOMAIN F) /\ SumFunction(F) = G[DOMAIN F]
  BY SumIs
<1>. QED BY <1>1 DEF Sums

\* The empty sum.
LEMMA SumOfNothing ==
    ASSUME NEW F, DOMAIN F = {}
    PROVE  SumFunction(F) = 0
<1>1. Summable(F)
  BY FS_EmptySet DEF Summable
<1>. QED BY <1>1, SumIs DEF Sums

Without(F, x) == [y \in DOMAIN F \ {x} |-> F[y]]

\* A term can be taken out.
LEMMA SumTakes ==
    ASSUME NEW F, Summable(F), NEW x \in DOMAIN F
    PROVE  /\ Summable(Without(F, x))
           /\ SumFunction(F) = F[x] + SumFunction(Without(F, x))
<1>. DEFINE D == DOMAIN F \ {x}
            W == Without(F, x)
<1>1. DOMAIN W = D /\ \A y \in D : W[y] = F[y]
  BY DEF Without
<1>. HIDE DEF W
<1>2. Summable(W)
  BY <1>1, FS_Subset DEF Summable
<1>3. PICK G : Sums(G, F, DOMAIN F) /\ SumFunction(F) = G[DOMAIN F]
  BY SumIs
<1>4. PICK H : Sums(H, W, D) /\ SumFunction(W) = H[D]
  BY <1>1, <1>2, SumIs
<1>5. Sums(G, F, D)
  BY <1>3 DEF Sums
<1>6. G[D] = H[D]
  <2>1. IsFiniteSet(D) /\ \A y \in D : F[y] = W[y]
    BY <1>1, FS_Subset DEF Summable
  <2>. HIDE DEF D
  <2>. QED BY <1>4, <1>5, <2>1, SumsAgree
<1>7. G[DOMAIN F] = F[x] + G[D]
  BY <1>3 DEF Sums
<1>. QED BY <1>2, <1>3, <1>4, <1>6, <1>7 DEF W

\* What is zero throughout adds up to nothing.
LEMMA SumOfZeros ==
    ASSUME NEW F, IsFiniteSet(DOMAIN F), \A x \in DOMAIN F : F[x] = 0
    PROVE  SumFunction(F) = 0
<1>. DEFINE D == DOMAIN F
            H == [T \in SUBSET D |-> 0]
<1>1. Summable(F)
  BY DEF Summable
<1>2. PICK G : Sums(G, F, D) /\ SumFunction(F) = G[D]
  BY <1>1, SumIs
<1>3. Sums(H, F, D)
  <2>1. \A T \in SUBSET D : H[T] = 0
    OBVIOUS
  <2>2. \A T \in SUBSET D : \A x \in T : T \ {x} \in SUBSET D /\ F[x] = 0
    OBVIOUS
  <2>. HIDE DEF H
  <2>. QED BY <2>1, <2>2 DEF Sums
<1>4. H[D] = 0
  OBVIOUS
<1>. HIDE DEF D, H
<1>5. G[D] = H[D]
  <2>1. IsFiniteSet(D)
    BY DEF D
  <2>. QED BY <1>2, <1>3, <2>1, SumsAgree
<1>. QED BY <1>2, <1>4, <1>5

\* One term alone.
LEMMA SumOfOne ==
    ASSUME NEW F, Summable(F), NEW x \in DOMAIN F, \A y \in DOMAIN F \ {x} : F[y] = 0
    PROVE  SumFunction(F) = F[x]
<1>1. SumFunction(F) = F[x] + SumFunction(Without(F, x)) /\ Summable(Without(F, x))
  BY SumTakes
<1>2. SumFunction(Without(F, x)) = 0
  <2>. DEFINE W == Without(F, x)
  <2>1. IsFiniteSet(DOMAIN W) /\ \A y \in DOMAIN W : W[y] = 0
    BY <1>1 DEF Without, Summable
  <2>. HIDE DEF W
  <2>2. SumFunction(W) = 0
    BY <2>1, SumOfZeros
  <2>. QED BY <2>2 DEF W
<1>3. F[x] \in Nat
  BY DEF Summable
<1>. QED BY <1>1, <1>2, <1>3

\* A sum is at least each of its terms.
LEMMA SumHasTerm ==
    ASSUME NEW F, Summable(F), NEW x \in DOMAIN F
    PROVE  F[x] <= SumFunction(F)
<1>1. SumFunction(F) = F[x] + SumFunction(Without(F, x)) /\ Summable(Without(F, x))
  BY SumTakes
<1>2. SumFunction(Without(F, x)) \in Nat /\ F[x] \in Nat
  BY <1>1, SumType DEF Summable
<1>. QED BY <1>1, <1>2

\* A sum that is not zero has a term that is not.
LEMMA SumNeedsTerm ==
    ASSUME NEW F, Summable(F), SumFunction(F) # 0
    PROVE  \E x \in DOMAIN F : F[x] > 0
BY SumOfZeros DEF Summable

\* One term changes, or comes in.
LEMMA SumChanges ==
    ASSUME NEW F, Summable(F), NEW K, NEW x, DOMAIN K = DOMAIN F \cup {x},
           \A y \in DOMAIN F \ {x} : K[y] = F[y], K[x] \in Nat
    PROVE  /\ Summable(K)
           /\ SumFunction(K) + (IF x \in DOMAIN F THEN F[x] ELSE 0) = SumFunction(F) + K[x]
<1>1. Summable(K)
  <2>1. IsFiniteSet(DOMAIN F \cup {x})
    BY FS_AddElement DEF Summable
  <2>. QED BY <2>1 DEF Summable
<1>2. Without(K, x) = Without(F, x)
  <2>1. DOMAIN K \ {x} = DOMAIN F \ {x}
    OBVIOUS
  <2>. QED BY <2>1 DEF Without
<1>3. SumFunction(K) = K[x] + SumFunction(Without(F, x))
  BY <1>1, <1>2, SumTakes
<1>4. CASE x \in DOMAIN F
  <2>1. Summable(Without(F, x)) /\ SumFunction(F) = F[x] + SumFunction(Without(F, x))
    BY <1>4, SumTakes
  <2>2. SumFunction(Without(F, x)) \in Nat /\ F[x] \in Nat
    BY <1>4, <2>1, SumType DEF Summable
  <2>. QED BY <1>1, <1>3, <1>4, <2>1, <2>2
<1>5. CASE x \notin DOMAIN F
  <2>1. PICK G : Sums(G, F, DOMAIN F) /\ SumFunction(F) = G[DOMAIN F]
    BY SumIs
  <2>2. /\ Summable(Without(F, x)) /\ DOMAIN Without(F, x) = DOMAIN F
        /\ \A y \in DOMAIN F : F[y] = Without(F, x)[y]
    BY <1>5 DEF Without, Summable
  <2>3. PICK H : Sums(H, Without(F, x), DOMAIN F) /\ SumFunction(Without(F, x)) = H[DOMAIN F]
    BY <2>2, SumIs
  <2>4. G[DOMAIN F] = H[DOMAIN F]
    <3>1. IsFiniteSet(DOMAIN F)
      BY DEF Summable
    <3>. QED BY <2>1, <2>2, <2>3, <3>1, SumsAgree
  <2>5. SumFunction(F) \in Nat
    BY SumType
  <2>. QED BY <1>1, <1>3, <1>5, <2>1, <2>3, <2>4, <2>5
<1>. QED BY <1>4, <1>5

---------------------------------------------------------------------------
(* The lines of a file f under a setup s, read up to a position p.         *)

Takes(s, line) ==
    /\ line.kind = "ok"
    /\ line.count >= s.minCount
    /\ ~(s.skipTags /\ \E i \in DOMAIN line.ngram : line.ngram[i] \in Tagged)
    /\ line.year \in s.years

Size(s, f) == Len(s.input[f])

Taken(s, f, p) == {i \in DOMAIN s.input[f] : i < p /\ Takes(s, s.input[f][i])}

Of(s, f, g, p) == {i \in Taken(s, f, p) : s.input[f][i].ngram = g}

SoFar(s, f, g, p) == SumFunction([i \in Of(s, f, g, p) |-> s.input[f][i].count])

Seen(s, f, p) == {s.input[f][i].ngram : i \in Taken(s, f, p)}

Wanted(s, f) == Seen(s, f, Size(s, f) + 1)

Whole(s, f, g) == SoFar(s, f, g, Size(s, f) + 1)

\* The assumptions about a setup.
LEMMA SetupIs ==
    ASSUME NEW s \in Setups
    PROVE  /\ s.input \in [Files -> Seq(Lines)] /\ Grouped(s.input)
           /\ s.granularity \in Granularities \cup {None}
           /\ s.minCount \in Nat /\ s.chunk \in Nat /\ s.cpus \subseteq Nat \ {0}
BY SetupsAssumption

\* The lines of a file.
LEMMA LineIs ==
    ASSUME NEW s \in Setups, NEW f \in Files
    PROVE  /\ s.input[f] \in Seq(Lines) /\ Size(s, f) \in Nat
           /\ DOMAIN s.input[f] = 1 .. Size(s, f)
           /\ \A i \in 1 .. Size(s, f) :
                /\ s.input[f][i].ngram \in Seq(Words) /\ s.input[f][i].count \in Nat
                /\ s.input[f][i].kind = "ok" => /\ s.input[f][i].ngram \in NgramsOf(s.input, f)
                                                /\ s.input[f][i].ngram # <<>>
<1>1. s.input[f] \in Seq(Lines) /\ Grouped(s.input)
  BY SetupIs
<1>2. Size(s, f) \in Nat /\ DOMAIN s.input[f] = 1 .. Size(s, f)
  BY <1>1 DEF Size
<1>3. ASSUME NEW i \in 1 .. Size(s, f)
      PROVE  /\ s.input[f][i].ngram \in Seq(Words) /\ s.input[f][i].count \in Nat
             /\ s.input[f][i].kind = "ok" => /\ s.input[f][i].ngram \in NgramsOf(s.input, f)
                                             /\ s.input[f][i].ngram # <<>>
  <2>1. s.input[f][i] \in Lines
    BY <1>1, <1>2
  <2>2. s.input[f][i].ngram \in Seq(Words) /\ s.input[f][i].count \in Nat
    BY <2>1 DEF Lines
  <2>3. ASSUME s.input[f][i].kind = "ok"
        PROVE  s.input[f][i].ngram \in NgramsOf(s.input, f) /\ s.input[f][i].ngram # <<>>
    <3>1. s.input[f][i].ngram \in NgramsOf(s.input, f)
      BY <1>2, <2>3 DEF NgramsOf
    <3>2. Len(s.input[f][i].ngram) = OrderOf[f] /\ OrderOf[f] \in 1 .. MaxOrder
      BY <1>1, <3>1, NumbersAssumption DEF Grouped
    <3>3. Len(<<>>) = 0
      OBVIOUS
    <3>. QED BY <3>1, <3>2, <3>3, NumbersAssumption
  <2>. QED BY <2>2, <2>3
<1>. QED BY <1>1, <1>2, <1>3

\* The lines that were taken.
LEMMA TakenIs ==
    ASSUME NEW s \in Setups, NEW f \in Files, NEW p
    PROVE  /\ Taken(s, f, p) \subseteq 1 .. Size(s, f)
           /\ \A i \in Taken(s, f, p) :
                /\ i \in Nat /\ i < p
                /\ s.input[f][i].ngram \in NgramsOf(s.input, f)
                /\ s.input[f][i].ngram \in Seq(Words)
                /\ s.input[f][i].ngram # <<>> /\ s.input[f][i].count \in Nat
<1>1. Taken(s, f, p) \subseteq 1 .. Size(s, f)
  BY LineIs DEF Taken
<1>2. ASSUME NEW i \in Taken(s, f, p)
      PROVE  /\ i \in Nat /\ i < p /\ s.input[f][i].ngram \in NgramsOf(s.input, f)
             /\ s.input[f][i].ngram \in Seq(Words)
             /\ s.input[f][i].ngram # <<>> /\ s.input[f][i].count \in Nat
  <2>1. i \in 1 .. Size(s, f) /\ s.input[f][i].kind = "ok" /\ i < p
    BY <1>1 DEF Taken, Takes
  <2>. QED BY <2>1, LineIs
<1>. QED BY <1>1, <1>2

\* The n-grams that were seen.
LEMMA SeenIs ==
    ASSUME NEW s \in Setups, NEW f \in Files, NEW p, NEW g \in Seen(s, f, p)
    PROVE  g \in Seq(Words) /\ g # <<>> /\ g \in NgramsOf(s.input, f)
BY TakenIs DEF Seen

\* What was seen is what the whole file will have.
LEMMA SeenIsWanted ==
    ASSUME NEW s \in Setups, NEW f \in Files, NEW p
    PROVE  Seen(s, f, p) \subseteq Wanted(s, f)
<1>1. Taken(s, f, p) \subseteq Taken(s, f, Size(s, f) + 1)
  BY LineIs DEF Taken
<1>. QED BY <1>1 DEF Seen, Wanted

\* An n-gram is in one file.
LEMMA OneFile ==
    ASSUME NEW s \in Setups, NEW f \in Files, NEW e \in Files, e # f
    PROVE  \A g \in NgramsOf(s.input, e) : g \notin Wanted(s, f)
<1>1. NgramsOf(s.input, e) \cap NgramsOf(s.input, f) = {}
  BY SetupIs DEF Grouped
<1>. QED BY <1>1, SeenIs DEF Wanted

\* The lines of an n-gram can be summed.
LEMMA OfIs ==
    ASSUME NEW s \in Setups, NEW f \in Files, NEW g, NEW p
    PROVE  Summable([i \in Of(s, f, g, p) |-> s.input[f][i].count])
<1>1. Of(s, f, g, p) \in SUBSET (1 .. Size(s, f)) /\ Size(s, f) \in Nat
  BY TakenIs, LineIs DEF Of
<1>2. IsFiniteSet(Of(s, f, g, p))
  <2>1. IsFiniteSet(1 .. Size(s, f))
    BY <1>1, FS_Interval
  <2>. QED BY <1>1, <2>1, FS_Subset
<1>. QED BY <1>2, TakenIs DEF Of, Summable

\* Their sum is a natural.
LEMMA SoFarType ==
    ASSUME NEW s \in Setups, NEW f \in Files, NEW g, NEW p
    PROVE  SoFar(s, f, g, p) \in Nat
BY OfIs, SumType DEF SoFar

\* It is 0 before the first.
LEMMA SoFarUnseen ==
    ASSUME NEW s \in Setups, NEW f \in Files, NEW p, NEW g, g \notin Seen(s, f, p)
    PROVE  SoFar(s, f, g, p) = 0
<1>1. Of(s, f, g, p) = {}
  BY DEF Of, Seen
<1>. DEFINE F == [i \in Of(s, f, g, p) |-> s.input[f][i].count]
<1>2. DOMAIN F = {}
  BY <1>1
<1>. HIDE DEF F
<1>3. SumFunction(F) = 0
  BY <1>2, SumOfNothing
<1>. QED BY <1>3 DEF SoFar, F

\* A line that is not taken changes nothing.
LEMMA LineSkipped ==
    ASSUME NEW s \in Setups, NEW f \in Files, NEW p \in 1 .. Size(s, f),
           ~ Takes(s, s.input[f][p])
    PROVE  /\ Taken(s, f, p + 1) = Taken(s, f, p) /\ Seen(s, f, p + 1) = Seen(s, f, p)
           /\ \A g : SoFar(s, f, g, p + 1) = SoFar(s, f, g, p)
<1>1. Taken(s, f, p + 1) = Taken(s, f, p)
  BY LineIs DEF Taken
<1>. QED BY <1>1 DEF Seen, SoFar, Of

\* One that is taken adds to its n-gram.
LEMMA LineTaken ==
    ASSUME NEW s \in Setups, NEW f \in Files, NEW p \in 1 .. Size(s, f),
           Takes(s, s.input[f][p])
    PROVE  LET h == s.input[f][p].ngram
           IN  /\ p \in Taken(s, f, p + 1) /\ Taken(s, f, p + 1) = Taken(s, f, p) \cup {p}
               /\ Seen(s, f, p + 1) = Seen(s, f, p) \cup {h}
               /\ h \in Seen(s, f, p + 1)
               /\ SoFar(s, f, h, p + 1) = SoFar(s, f, h, p) + s.input[f][p].count
               /\ \A g : g # h => SoFar(s, f, g, p + 1) = SoFar(s, f, g, p)
<1>. DEFINE h == s.input[f][p].ngram
            line == s.input[f]
<1>1. Taken(s, f, p + 1) = Taken(s, f, p) \cup {p} /\ p \notin Taken(s, f, p)
  BY LineIs DEF Taken
<1>2. Seen(s, f, p + 1) = Seen(s, f, p) \cup {h}
  BY <1>1 DEF Seen
<1>3. ASSUME NEW g, g # h PROVE SoFar(s, f, g, p + 1) = SoFar(s, f, g, p)
  <2>1. Of(s, f, g, p + 1) = Of(s, f, g, p)
    BY <1>1, <1>3 DEF Of
  <2>. QED BY <2>1 DEF SoFar
<1>4. SoFar(s, f, h, p + 1) = SoFar(s, f, h, p) + line[p].count
  <2>1. Of(s, f, h, p + 1) = Of(s, f, h, p) \cup {p} /\ p \notin Of(s, f, h, p)
    BY <1>1 DEF Of
  <2>. DEFINE F == [i \in Of(s, f, h, p) |-> line[i].count]
              K == [i \in Of(s, f, h, p + 1) |-> line[i].count]
  <2>2. Summable(F)
    BY OfIs
  <2>3. /\ DOMAIN K = DOMAIN F \cup {p} /\ p \notin DOMAIN F /\ K[p] = line[p].count
        /\ \A i \in DOMAIN F \ {p} : K[i] = F[i]
    BY <2>1
  <2>4. line[p].count \in Nat
    BY LineIs
  <2>. HIDE DEF F, K, line, h
  <2>5. SumFunction(K) + (IF p \in DOMAIN F THEN F[p] ELSE 0) = SumFunction(F) + K[p]
    BY <2>2, <2>3, <2>4, SumChanges
  <2>6. Summable(K)
    BY <2>2, <2>3, <2>4, SumChanges
  <2>7. SumFunction(K) \in Nat
    BY <2>6, SumType
  <2>8. SumFunction(K) = SumFunction(F) + line[p].count
    BY <2>3, <2>5, <2>7
  <2>9. SoFar(s, f, h, p + 1) = SumFunction(K) /\ SoFar(s, f, h, p) = SumFunction(F)
    BY DEF SoFar, F, K, line
  <2>. QED BY ONLY <2>8, <2>9
<1>. QED BY <1>1, <1>2, <1>3, <1>4

\* The n-gram of the last line that was taken, and the next of another: the
\* lines of the first are over, those of the second have not begun.
LEMMA Contiguous ==
    ASSUME NEW s \in Setups, NEW f \in Files, NEW p \in 1 .. Size(s, f),
           Takes(s, s.input[f][p]),
           NEW l \in Taken(s, f, p), \A i \in Taken(s, f, p) : i <= l,
           s.input[f][l].ngram # s.input[f][p].ngram
    PROVE  /\ s.input[f][p].ngram \notin Seen(s, f, p)
           /\ SoFar(s, f, s.input[f][l].ngram, p) = Whole(s, f, s.input[f][l].ngram)
<1>. DEFINE I == s.input[f]
            n == Size(s, f)
<1>1. \A i, j \in 1 .. n : I[i].kind = "ok" /\ I[i].ngram = I[j].ngram =>
          \A k \in i .. j : I[k].kind = "ok" => I[k].ngram = I[i].ngram
  <2>1. Grouped(s.input)
    BY SetupIs
  <2>2. DOMAIN s.input[f] = 1 .. n
    BY LineIs
  <2>3. \A i, j \in DOMAIN s.input[f] :
            s.input[f][i].kind = "ok" /\ s.input[f][i].ngram = s.input[f][j].ngram =>
                \A k \in i .. j : s.input[f][k].kind = "ok" =>
                    s.input[f][k].ngram = s.input[f][i].ngram
    BY ONLY f \in Files, <2>1 DEF Grouped
  <2>. HIDE DEF n
  <2>. QED BY ONLY <2>2, <2>3 DEF I
<1>2. /\ p \in 1 .. n /\ n \in Nat /\ I[p].kind = "ok"
      /\ \A i \in 1 .. n : i < p /\ Takes(s, I[i]) => i <= l
      /\ l \in 1 .. n /\ l < p /\ I[l].kind = "ok"
      /\ \A q, i : i \in Taken(s, f, q) <=> i \in 1 .. n /\ i < q /\ Takes(s, I[i])
  BY LineIs DEF Taken, Takes
<1>3. \A i : Takes(s, I[i]) => I[i].kind = "ok"
  BY DEF Takes
<1>4. I[l].ngram # I[p].ngram
  OBVIOUS
<1>5. I[p].ngram \notin Seen(s, f, p)
  <2>1. ASSUME NEW i \in Taken(s, f, p), I[i].ngram = I[p].ngram PROVE FALSE
    <3>1. i \in 1 .. n /\ i <= l /\ I[i].kind = "ok"
      BY <1>2, <1>3
    <3>2. l \in i .. p
      BY <1>2, <3>1
    <3>. HIDE DEF I, n
    <3>. QED BY <1>1, <1>2, <1>4, <2>1, <3>1, <3>2
  <2>. QED BY <2>1 DEF Seen
<1>6. Of(s, f, I[l].ngram, p) = Of(s, f, I[l].ngram, n + 1)
  <2>1. ASSUME NEW i \in Taken(s, f, n + 1), I[i].ngram = I[l].ngram PROVE i \in Taken(s, f, p)
    <3>1. i \in 1 .. n /\ I[i].kind = "ok" /\ Takes(s, I[i])
      BY <1>2, <1>3
    <3>2. ASSUME ~ i < p PROVE FALSE
      <4>1. p \in l .. i
        BY <1>2, <3>1, <3>2
      <4>. HIDE DEF I, n
      <4>. QED BY <1>1, <1>2, <1>4, <2>1, <3>1, <4>1
    <3>. QED BY <1>2, <3>1, <3>2
  <2>2. Taken(s, f, p) \subseteq Taken(s, f, n + 1)
    <3>. HIDE DEF I, n
    <3>. QED BY <1>2
  <2>. QED BY <2>1, <2>2 DEF Of
<1>. QED BY <1>5, <1>6 DEF Whole, SoFar

\* The sum of all lines is positive for the n-grams that are taken, 0 for the others.
LEMMA WholeIs ==
    ASSUME NEW s \in Setups, NEW f \in Files, NEW g
    PROVE  /\ Whole(s, f, g) \in Nat
           /\ g \notin Wanted(s, f) => Whole(s, f, g) = 0
           /\ g \in Wanted(s, f) => Whole(s, f, g) > 0
<1>. DEFINE p == Size(s, f) + 1
<1>1. Whole(s, f, g) \in Nat
  BY SoFarType DEF Whole
<1>2. g \notin Wanted(s, f) => Whole(s, f, g) = 0
  BY SoFarUnseen DEF Whole, Wanted
<1>3. ASSUME g \in Wanted(s, f) PROVE Whole(s, f, g) > 0
  <2>1. PICK i \in Taken(s, f, p) : s.input[f][i].ngram = g
    BY <1>3 DEF Wanted, Seen
  <2>2. i \in DOMAIN s.input[f] /\ s.input[f][i].kind = "ok" /\ s.input[f][i].count >= s.minCount
    BY <2>1 DEF Taken, Takes
  <2>3. s.input[f][i].count > 0 /\ s.input[f][i].count \in Nat
    BY <2>1, <2>2, TakenIs, CountsAssumption
  <2>. DEFINE F == [j \in Of(s, f, g, p) |-> s.input[f][j].count]
  <2>4. Summable(F) /\ i \in DOMAIN F /\ F[i] = s.input[f][i].count
    <3>1. Summable(F)
      BY OfIs
    <3>2. i \in Of(s, f, g, p)
      BY <2>1 DEF Of
    <3>. QED BY <3>1, <3>2
  <2>. HIDE DEF F
  <2>5. F[i] <= SumFunction(F)
    BY <2>4, SumHasTerm
  <2>6. Whole(s, f, g) = SumFunction(F)
    BY DEF Whole, SoFar, F
  <2>. QED BY <1>1, <2>3, <2>4, <2>5, <2>6
<1>. QED BY <1>1, <1>2, <1>3

---------------------------------------------------------------------------
(* The tries sh under a vocabulary v. *)

Trie(sh, k) == IF k \in DOMAIN sh THEN sh[k] ELSE NewTrie

At(sh, key) == SumFunction([k \in DOMAIN sh |-> CountIn(sh[k], key)])

Has(v, sh, g) == IF Contained(v, g) THEN At(sh, EncodeNgram(v, g)) ELSE 0

IsTrie(t) ==
    /\ IsFiniteSet(DOMAIN t) /\ Metadata \in DOMAIN t /\ t[Metadata] = 1
    /\ \A key \in DOMAIN t : t[key] \in Nat \ {0}

Tries(sh) == IsFiniteSet(DOMAIN sh) /\ \A k \in DOMAIN sh : IsTrie(sh[k])

Spelled(v, key) ==
    \E h \in Seq(Words) : h # <<>> /\ Contained(v, h) /\ key = EncodeNgram(v, h)

Speaks(v, sh) ==
    \A k \in DOMAIN sh : \A key \in DOMAIN sh[k] \ {Metadata} : Spelled(v, key)

\* The indices of the vocabulary fit into varints.
LEMMA WordsFit == Fits(Words)
BY VocabularyFits DEF Fits

\* No key of an n-gram is that of the metadata.
LEMMA NotMetadata ==
    ASSUME NEW v \in Vocabularies(Words), NEW g \in Seq(Words), g # <<>>, Contained(v, g)
    PROVE  EncodeNgram(v, g) # Metadata
<1>1. EncodeNgram(v, g)[1] # 0
  BY WordsFit, KeyReads
<1>2. Metadata[1] = 0
  BY DEF Metadata
<1>. QED BY <1>1, <1>2

\* A new trie.
LEMMA NewTrieIs ==
    IsTrie(NewTrie) /\ DOMAIN NewTrie = {Metadata} /\ NewTrie[Metadata] = 1
<1>1. DOMAIN NewTrie = {Metadata} /\ NewTrie[Metadata] = 1
  BY DEF NewTrie
<1>2. IsFiniteSet({Metadata})
  BY FS_Singleton
<1>. QED BY <1>1, <1>2 DEF IsTrie

\* A shard, or a new one.
LEMMA TrieIs ==
    ASSUME NEW sh, Tries(sh), NEW k
    PROVE  IsTrie(Trie(sh, k))
BY NewTrieIs DEF Trie, Tries

\* A count in a trie.
LEMMA CountIs ==
    ASSUME NEW t, IsTrie(t), NEW key
    PROVE  CountIn(t, key) \in Nat
BY DEF IsTrie, CountIn

\* What all tries have under a key.
LEMMA AtIs ==
    ASSUME NEW sh, Tries(sh), NEW key
    PROVE  /\ Summable([k \in DOMAIN sh |-> CountIn(sh[k], key)])
           /\ At(sh, key) \in Nat
           /\ \A k \in DOMAIN sh : CountIn(sh[k], key) <= At(sh, key)
           /\ (\A k \in DOMAIN sh : key \notin DOMAIN sh[k]) => At(sh, key) = 0
<1>. DEFINE F == [k \in DOMAIN sh |-> CountIn(sh[k], key)]
<1>1. Summable(F) /\ DOMAIN F = DOMAIN sh /\ \A k \in DOMAIN sh : F[k] = CountIn(sh[k], key)
  BY CountIs DEF Tries, Summable
<1>. HIDE DEF F
<1>2. At(sh, key) = SumFunction(F)
  BY DEF At, F
<1>3. At(sh, key) \in Nat /\ \A k \in DOMAIN sh : CountIn(sh[k], key) <= At(sh, key)
  <2>1. \A k \in DOMAIN F : F[k] <= SumFunction(F)
    BY <1>1, SumHasTerm
  <2>. QED BY <1>1, <1>2, <2>1, SumType
<1>4. ASSUME \A k \in DOMAIN sh : key \notin DOMAIN sh[k] PROVE At(sh, key) = 0
  <2>1. \A k \in DOMAIN F : F[k] = 0
    BY <1>1, <1>4 DEF CountIn
  <2>. QED BY <1>1, <1>2, <2>1, SumOfZeros DEF Summable
<1>. QED BY <1>1, <1>3, <1>4 DEF F

\* One value is put.
LEMMA PutIs ==
    ASSUME NEW fun, NEW x, NEW value
    PROVE  /\ DOMAIN Put(fun, x, value) = DOMAIN fun \cup {x}
           /\ Put(fun, x, value)[x] = value
           /\ \A y \in DOMAIN fun : y # x => Put(fun, x, value)[y] = fun[y]
BY DEF Put

\* A trie takes the place of another, of which it keeps all but one key.
LEMMA AtPut ==
    ASSUME NEW sh, Tries(sh), NEW k, NEW t, IsTrie(t), NEW key, key # Metadata
    PROVE  /\ Tries(Put(sh, k, t))
           /\ At(Put(sh, k, t), key) + CountIn(Trie(sh, k), key) = At(sh, key) + CountIn(t, key)
<1>. DEFINE sp == Put(sh, k, t)
            F == [x \in DOMAIN sh |-> CountIn(sh[x], key)]
            K == [x \in DOMAIN sp |-> CountIn(sp[x], key)]
<1>1. /\ DOMAIN sp = DOMAIN sh \cup {k} /\ sp[k] = t
      /\ \A x \in DOMAIN sh : x # k => sp[x] = sh[x]
  BY DEF Put
<1>. HIDE DEF sp
<1>2. Tries(sp)
  <2>1. IsFiniteSet(DOMAIN sp)
    BY <1>1, FS_AddElement DEF Tries
  <2>. QED BY <1>1, <2>1 DEF Tries
<1>3. Summable(F)
  BY AtIs
<1>4. /\ DOMAIN K = DOMAIN F \cup {k} /\ K[k] = CountIn(t, key) /\ K[k] \in Nat
      /\ \A x \in DOMAIN F \ {k} : K[x] = F[x]
  <2>1. DOMAIN K = DOMAIN F \cup {k} /\ K[k] = CountIn(t, key)
    BY <1>1
  <2>2. \A x \in DOMAIN F \ {k} : K[x] = F[x]
    BY <1>1
  <2>3. CountIn(t, key) \in Nat
    BY CountIs
  <2>. QED BY <2>1, <2>2, <2>3
<1>5. (IF k \in DOMAIN F THEN F[k] ELSE 0) = CountIn(Trie(sh, k), key)
  <2>1. CountIn(NewTrie, key) = 0
    BY NewTrieIs DEF CountIn
  <2>. QED BY <2>1 DEF Trie
<1>6. At(sp, key) = SumFunction(K) /\ At(sh, key) = SumFunction(F)
  BY DEF At
<1>. HIDE DEF F, K
<1>7. SumFunction(K) + (IF k \in DOMAIN F THEN F[k] ELSE 0) = SumFunction(F) + K[k]
  BY <1>3, <1>4, SumChanges
<1>. QED BY <1>2, <1>4, <1>5, <1>6, <1>7 DEF sp

\* One key is incremented, the others are as they were.
Increments(sh, sp, k, key, n) ==
    /\ Tries(sp)
    /\ At(sp, key) = At(sh, key) + n
    /\ \A x : x # key /\ x # Metadata => At(sp, x) = At(sh, x)
    /\ DOMAIN sp = DOMAIN sh \cup {k}
    /\ \A y \in DOMAIN sp : \A x \in DOMAIN sp[y] \ {Metadata} :
         (x = key /\ y = k) \/ (y \in DOMAIN sh /\ x \in DOMAIN sh[y])

\* An increment in one of the tries.
LEMMA AtIncremented ==
    ASSUME NEW sh, Tries(sh), NEW k, NEW key, key # Metadata,
           NEW n \in Nat, n > 0
    PROVE  Increments(sh, Put(sh, k, Incremented(Trie(sh, k), key, n)), k, key, n)
<1>. DEFINE old == Trie(sh, k)
            t == Incremented(old, key, n)
            sp == Put(sh, k, t)
<1>1. IsTrie(old)
  BY TrieIs
<1>2. CountIn(old, key) \in Nat
  BY <1>1, CountIs
<1>3. /\ DOMAIN t = DOMAIN old \cup {key} /\ t[key] = CountIn(old, key) + n
      /\ \A x \in DOMAIN old : x # key => t[x] = old[x]
  BY DEF Put, Incremented
<1>4. k \notin DOMAIN sh => DOMAIN old = {Metadata}
  BY NewTrieIs DEF Trie
<1>5. k \in DOMAIN sh => old = sh[k]
  BY DEF Trie
<1>. HIDE DEF t, old
<1>6. IsTrie(t)
  <2>1. IsFiniteSet(DOMAIN t)
    BY <1>1, <1>3, FS_AddElement DEF IsTrie
  <2>2. Metadata \in DOMAIN t /\ t[Metadata] = 1
    BY <1>1, <1>3 DEF IsTrie
  <2>3. ASSUME NEW x \in DOMAIN t PROVE t[x] \in Nat \ {0}
    <3>1. CASE x = key
      BY <1>2, <1>3, <3>1
    <3>2. CASE x # key
      BY <1>1, <1>3, <3>2 DEF IsTrie
    <3>. QED BY <3>1, <3>2
  <2>. QED BY <2>1, <2>2, <2>3 DEF IsTrie
<1>7. CountIn(t, key) = CountIn(old, key) + n /\ \A x : x # key => CountIn(t, x) = CountIn(old, x)
  BY <1>3 DEF CountIn
<1>8. ASSUME NEW x, x # Metadata
      PROVE  At(sp, x) + CountIn(old, x) = At(sh, x) + CountIn(t, x) /\ Tries(sp)
  BY <1>6, <1>8, AtPut DEF old
<1>9. Tries(sp)
  BY <1>8
<1>10. /\ DOMAIN sp = DOMAIN sh \cup {k} /\ sp[k] = t
       /\ \A y \in DOMAIN sh : y # k => sp[y] = sh[y]
  BY DEF Put
<1>. HIDE DEF sp
<1>11. \A x : At(sp, x) \in Nat /\ At(sh, x) \in Nat /\ CountIn(old, x) \in Nat
  BY <1>1, <1>9, AtIs, CountIs
<1>12. At(sp, key) = At(sh, key) + n
  BY <1>7, <1>8, <1>11
<1>13. ASSUME NEW x, x # key, x # Metadata PROVE At(sp, x) = At(sh, x)
  BY <1>7, <1>8, <1>11, <1>13
<1>14. ASSUME NEW y \in DOMAIN sp, NEW x \in DOMAIN sp[y] \ {Metadata}
       PROVE  (x = key /\ y = k) \/ (y \in DOMAIN sh /\ x \in DOMAIN sh[y])
  BY <1>3, <1>4, <1>5, <1>10
<1>. QED BY <1>9, <1>10, <1>12, <1>13, <1>14 DEF sp, t, old, Increments

\* More words in the vocabulary change nothing of what is stored.
LEMMA VocabularyGrows ==
    ASSUME NEW v \in Vocabularies(Words), NEW u \in Vocabularies(Words), Extended(v, u),
           NEW sh, Tries(sh), Speaks(v, sh)
    PROVE  /\ Speaks(u, sh)
           /\ \A g \in Seq(Words) : Has(u, sh, g) = Has(v, sh, g)
<1>1. Speaks(u, sh)
  <2>1. ASSUME NEW k \in DOMAIN sh, NEW key \in DOMAIN sh[k] \ {Metadata}
        PROVE  Spelled(u, key)
    <3>1. PICK h \in Seq(Words) : h # <<>> /\ Contained(v, h) /\ key = EncodeNgram(v, h)
      BY DEF Speaks, Spelled
    <3>2. Contained(u, h) /\ EncodeNgram(u, h) = EncodeNgram(v, h)
      BY <3>1, KeyStable
    <3>. QED BY <3>1, <3>2 DEF Spelled
  <2>. QED BY <2>1 DEF Speaks
<1>2. ASSUME NEW g \in Seq(Words) PROVE Has(u, sh, g) = Has(v, sh, g)
  <2>1. CASE Contained(v, g)
    BY <2>1, KeyStable DEF Has
  <2>2. CASE ~ Contained(v, g) /\ Contained(u, g)
    <3>. DEFINE key == EncodeNgram(u, g)
    <3>1. g # <<>>
      BY <2>2 DEF Contained
    <3>2. key # Metadata
      BY <2>2, <3>1, NotMetadata
    <3>3. ASSUME NEW k \in DOMAIN sh, key \in DOMAIN sh[k] PROVE FALSE
      <4>1. PICK h \in Seq(Words) : Contained(v, h) /\ key = EncodeNgram(v, h)
        BY <3>2, <3>3 DEF Speaks, Spelled
      <4>2. Contained(u, h) /\ EncodeNgram(u, h) = key
        BY <4>1, KeyStable
      <4>3. g = h
        BY <2>2, <4>2, WordsFit, KeyInjective
      <4>. QED BY <2>2, <4>1, <4>3
    <3>. HIDE DEF key
    <3>4. At(sh, key) = 0
      BY <3>3, AtIs
    <3>. QED BY <2>2, <3>4 DEF Has, key
  <2>3. CASE ~ Contained(v, g) /\ ~ Contained(u, g)
    BY <2>3 DEF Has
  <2>. QED BY <2>1, <2>2, <2>3
<1>. QED BY <1>1, <1>2

\* WithWords, for the words of the model.
LEMMA WordsEntered ==
    ASSUME NEW v \in Vocabularies(Words), NEW g \in Seq(Words)
    PROVE  /\ WithWords(v, g) \in Vocabularies(Words) /\ Extended(v, WithWords(v, g))
           /\ Contained(WithWords(v, g), g)
BY WithWordsIs DEF Extended

---------------------------------------------------------------------------
(* What is stored, and how far a job is, under a setup s, CPUs c, a        *)
(* vocabulary v, tries sh and b attempts begun.                            *)

Tx(s) == s.granularity # None /\ ~ IsHashBased(s.granularity)

Home(s, f) == Padded(s.names[f], PrefixLen(s.granularity, OrderOf[f]))

Route(s, c, g) == IF s.granularity # None THEN RouteTokens(g, s.granularity, c) ELSE <<>>

\* A key is that of an n-gram of a file and, with transactions, has its sum.
KeysOK(s, c, v, sh, b) ==
    \A k \in DOMAIN sh : \A key \in DOMAIN sh[k] \ {Metadata} :
        \E f \in Files : \E g \in Wanted(s, f) :
            /\ Contained(v, g) /\ key = EncodeNgram(v, g)
            /\ Tx(s) => k = Home(s, f) /\ sh[k][key] = Whole(s, f, g) /\ b[f] > 0
            /\ ~ Tx(s) /\ Cardinality(s.cpus) = 1 => k = Route(s, c, g)

\* Without, the sum was added once per attempt at most.
MultiplesOK(s, v, sh, b) ==
    ~ Tx(s) => \A f \in Files : \A g \in Wanted(s, f) :
                  \E n \in 0 .. b[f] : Has(v, sh, g) = n * Whole(s, f, g)

KeptIn(s, v, sh, tx, f, g) ==
    /\ Contained(v, g)
    /\ Tx(s) => EncodeNgram(v, g) \in DOMAIN tx \cup DOMAIN Trie(sh, Home(s, f))
    /\ ~ Tx(s) => Has(v, sh, g) >= Whole(s, f, g)

JobShape(s, j) ==
    /\ j = [file |-> j.file, pos |-> j.pos, current |-> j.current, tx |-> j.tx,
            chunk |-> j.chunk]
    /\ j.file \in Files /\ j.pos \in 1 .. Size(s, j.file) + 1 /\ j.chunk \in Nat

\* The current n-gram is that of the last line that was taken, with the sum so
\* far.
JobReads(s, j) ==
    /\ j.current = NoRecord =>
          j.pos = Size(s, j.file) + 1 \/ Seen(s, j.file, j.pos) = {}
    /\ j.current # NoRecord =>
          \E l \in Taken(s, j.file, j.pos) :
              /\ \A i \in Taken(s, j.file, j.pos) : i <= l
              /\ LET g == s.input[j.file][l].ngram
                 IN  j.current = [ngram |-> g, total |-> SoFar(s, j.file, g, j.pos)]

JobTx(s, v, f, tx) ==
    /\ IsFiniteSet(DOMAIN tx)
    /\ \A key \in DOMAIN tx :
         \E g \in Wanted(s, f) : /\ Contained(v, g) /\ key = EncodeNgram(v, g)
                                 /\ tx[key] = Whole(s, f, g)

\* The n-grams of G are stored, those of f that are not in G lack at least the
\* present attempt.
JobKeeps(s, v, sh, b, f, tx, G) ==
    /\ b[f] > 0
    /\ \A g \in G : KeptIn(s, v, sh, tx, f, g)
    /\ ~ Tx(s) => \A g \in Wanted(s, f) \ G :
                     \E n \in 0 .. b[f] - 1 : Has(v, sh, g) = n * Whole(s, f, g)

Behind(s, j) == Seen(s, j.file, j.pos) \ {j.current.ngram}

JobOK(s, v, sh, b, j) ==
    /\ JobShape(s, j) /\ JobReads(s, j) /\ JobTx(s, v, j.file, j.tx)
    /\ JobKeeps(s, v, sh, b, j.file, j.tx, Behind(s, j))

\* The n-grams of a file that are taken.
LEMMA WantedIs ==
    ASSUME NEW s \in Setups, NEW f \in Files, NEW g \in Wanted(s, f)
    PROVE  g \in Seq(Words) /\ g # <<>> /\ g \in NgramsOf(s.input, f)
BY SeenIs DEF Wanted

\* The keys of the invariant are those of n-grams.
LEMMA KeysSpeak ==
    ASSUME NEW s \in Setups, NEW c, NEW v, NEW sh, NEW b, KeysOK(s, c, v, sh, b)
    PROVE  Speaks(v, sh)
<1>1. ASSUME NEW k \in DOMAIN sh, NEW key \in DOMAIN sh[k] \ {Metadata}
      PROVE  Spelled(v, key)
  <2>1. PICK f \in Files : \E g \in Wanted(s, f) : Contained(v, g) /\ key = EncodeNgram(v, g)
    BY DEF KeysOK
  <2>2. PICK g \in Wanted(s, f) : Contained(v, g) /\ key = EncodeNgram(v, g)
    BY <2>1
  <2>. QED BY <2>2, WantedIs DEF Spelled
<1>. QED BY <1>1 DEF Speaks

\* What is stored of an n-gram of a file is stored under its key alone.
LEMMA WhoseKey ==
    ASSUME NEW s \in Setups, NEW v \in Vocabularies(Words),
           NEW f \in Files, NEW g \in Wanted(s, f), Contained(v, g),
           NEW e \in Files, NEW h \in Wanted(s, e), Contained(v, h),
           EncodeNgram(v, g) = EncodeNgram(v, h)
    PROVE  g = h /\ f = e
<1>1. g = h
  BY WantedIs, WordsFit, KeyInjective
<1>. QED BY <1>1, WantedIs, OneFile

---------------------------------------------------------------------------
(* The vocabulary grows. *)

\* What was kept is kept.
LEMMA KeptGrows ==
    ASSUME NEW s \in Setups, NEW v \in Vocabularies(Words), NEW u \in Vocabularies(Words),
           Extended(v, u), NEW sh, Tries(sh), Speaks(v, sh),
           NEW f \in Files, NEW tx, NEW g \in Wanted(s, f), KeptIn(s, v, sh, tx, f, g)
    PROVE  KeptIn(s, u, sh, tx, f, g)
<1>1. g \in Seq(Words) /\ Contained(v, g)
  BY WantedIs DEF KeptIn
<1>2. Contained(u, g) /\ EncodeNgram(u, g) = EncodeNgram(v, g) /\ Has(u, sh, g) = Has(v, sh, g)
  BY <1>1, KeyStable, VocabularyGrows
<1>. QED BY <1>2 DEF KeptIn

\* Keys stay those of their n-grams.
LEMMA KeysGrow ==
    ASSUME NEW s \in Setups, NEW v \in Vocabularies(Words), NEW u \in Vocabularies(Words),
           Extended(v, u), NEW sh, Tries(sh), NEW c, NEW b, KeysOK(s, c, v, sh, b)
    PROVE  KeysOK(s, c, u, sh, b)
<1>1. ASSUME NEW k \in DOMAIN sh, NEW key \in DOMAIN sh[k] \ {Metadata}
      PROVE  \E f \in Files : \E g \in Wanted(s, f) :
                /\ Contained(u, g) /\ key = EncodeNgram(u, g)
                /\ Tx(s) => k = Home(s, f) /\ sh[k][key] = Whole(s, f, g) /\ b[f] > 0
                /\ ~ Tx(s) /\ Cardinality(s.cpus) = 1 => k = Route(s, c, g)
  <2>0. PICK f \in Files : \E g \in Wanted(s, f) :
                /\ Contained(v, g) /\ key = EncodeNgram(v, g)
                /\ Tx(s) => k = Home(s, f) /\ sh[k][key] = Whole(s, f, g) /\ b[f] > 0
                /\ ~ Tx(s) /\ Cardinality(s.cpus) = 1 => k = Route(s, c, g)
    BY DEF KeysOK
  <2>1. PICK g \in Wanted(s, f) :
                /\ Contained(v, g) /\ key = EncodeNgram(v, g)
                /\ Tx(s) => k = Home(s, f) /\ sh[k][key] = Whole(s, f, g) /\ b[f] > 0
                /\ ~ Tx(s) /\ Cardinality(s.cpus) = 1 => k = Route(s, c, g)
    BY <2>0
  <2>2. Contained(u, g) /\ EncodeNgram(u, g) = EncodeNgram(v, g)
    BY <2>1, WantedIs, KeyStable
  <2>. QED BY <2>1, <2>2
<1>. QED BY <1>1 DEF KeysOK

\* Multiples stay.
LEMMA MultiplesGrow ==
    ASSUME NEW s \in Setups, NEW v \in Vocabularies(Words), NEW u \in Vocabularies(Words),
           Extended(v, u), NEW sh, Tries(sh), Speaks(v, sh), NEW b,
           MultiplesOK(s, v, sh, b)
    PROVE  MultiplesOK(s, u, sh, b)
<1>1. \A f \in Files : \A g \in Wanted(s, f) : Has(u, sh, g) = Has(v, sh, g)
  BY WantedIs, VocabularyGrows
<1>. QED BY <1>1 DEF MultiplesOK

\* So do the keys of a transaction.
LEMMA TxGrows ==
    ASSUME NEW s \in Setups, NEW v \in Vocabularies(Words), NEW u \in Vocabularies(Words),
           Extended(v, u), NEW f \in Files, NEW tx, JobTx(s, v, f, tx)
    PROVE  JobTx(s, u, f, tx)
<1>1. ASSUME NEW key \in DOMAIN tx
      PROVE  \E g \in Wanted(s, f) : /\ Contained(u, g) /\ key = EncodeNgram(u, g)
                                     /\ tx[key] = Whole(s, f, g)
  <2>1. PICK g \in Wanted(s, f) : /\ Contained(v, g) /\ key = EncodeNgram(v, g)
                                  /\ tx[key] = Whole(s, f, g)
    BY DEF JobTx
  <2>2. Contained(u, g) /\ EncodeNgram(u, g) = EncodeNgram(v, g)
    BY <2>1, WantedIs, KeyStable
  <2>. QED BY <2>1, <2>2
<1>. QED BY <1>1 DEF JobTx

\* So does what a job keeps.
LEMMA KeepsGrow ==
    ASSUME NEW s \in Setups, NEW v \in Vocabularies(Words), NEW u \in Vocabularies(Words),
           Extended(v, u), NEW sh, Tries(sh), Speaks(v, sh), NEW b, NEW f \in Files,
           NEW tx, NEW G \in SUBSET Wanted(s, f), JobKeeps(s, v, sh, b, f, tx, G)
    PROVE  JobKeeps(s, u, sh, b, f, tx, G)
<1>1. \A g \in Wanted(s, f) : Has(u, sh, g) = Has(v, sh, g)
  BY WantedIs, VocabularyGrows
<1>2. \A g \in G : KeptIn(s, u, sh, tx, f, g)
  <2>1. ASSUME NEW g \in G PROVE KeptIn(s, u, sh, tx, f, g)
    <3>1. g \in Wanted(s, f) /\ KeptIn(s, v, sh, tx, f, g)
      BY DEF JobKeeps
    <3>. QED BY <3>1, KeptGrows
  <2>. QED BY <2>1
<1>. QED BY <1>1, <1>2 DEF JobKeeps

\* So does the job.
LEMMA JobGrows ==
    ASSUME NEW s \in Setups, NEW v \in Vocabularies(Words), NEW u \in Vocabularies(Words),
           Extended(v, u), NEW sh, Tries(sh), Speaks(v, sh), NEW b, NEW j,
           JobOK(s, v, sh, b, j)
    PROVE  JobOK(s, u, sh, b, j)
<1>1. j.file \in Files /\ Behind(s, j) \in SUBSET Wanted(s, j.file)
  BY SeenIsWanted DEF JobOK, JobShape, Behind
<1>. QED BY <1>1, TxGrows, KeepsGrow DEF JobOK

---------------------------------------------------------------------------
(* Storing without a transaction. *)

Added(s, c, v, sh, sp, b, f, r, tx, G) ==
    /\ Tries(sp) /\ KeysOK(s, c, v, sp, b) /\ MultiplesOK(s, v, sp, b)
    /\ JobKeeps(s, v, sp, b, f, tx, G \cup {r})
    /\ \A g \in Seq(Words) : g # r => Has(v, sp, g) = Has(v, sh, g)
    /\ Has(v, sp, r) >= Has(v, sh, r) /\ Has(v, sp, r) \in Nat /\ Has(v, sh, r) \in Nat

Sum1(s, c, v, sh, f, r) ==
    Put(sh, Route(s, c, r),
        Incremented(Trie(sh, Route(s, c, r)), EncodeNgram(v, r), Whole(s, f, r)))

\* The record r, of which this attempt has stored nothing, is added.
LEMMA Adds ==
    ASSUME NEW s \in Setups, ~ Tx(s), NEW c, NEW v \in Vocabularies(Words),
           NEW sh, Tries(sh), NEW b \in [Files -> Nat], KeysOK(s, c, v, sh, b),
           MultiplesOK(s, v, sh, b),
           NEW f \in Files, NEW r \in Wanted(s, f), Contained(v, r),
           NEW G \in SUBSET Wanted(s, f), r \notin G,
           NEW tx, JobKeeps(s, v, sh, b, f, tx, G)
    PROVE  Added(s, c, v, sh, Sum1(s, c, v, sh, f, r), b, f, r, tx, G)
<1>. DEFINE k   == Route(s, c, r)
            key == EncodeNgram(v, r)
            n   == Whole(s, f, r)
            sp  == Put(sh, k, Incremented(Trie(sh, k), key, n))
<1>1. r \in Seq(Words) /\ r # <<>> /\ key # Metadata
  BY WantedIs, NotMetadata
<1>2. n \in Nat /\ n > 0
  BY WholeIs
<1>. HIDE DEF k, n
<1>3. /\ Tries(sp) /\ At(sp, key) = At(sh, key) + n
      /\ \A x : x # key /\ x # Metadata => At(sp, x) = At(sh, x)
      /\ \A y \in DOMAIN sp : \A x \in DOMAIN sp[y] \ {Metadata} :
            (x = key /\ y = k) \/ (y \in DOMAIN sh /\ x \in DOMAIN sh[y])
  <2>. HIDE DEF key
  <2>1. Increments(sh, sp, k, key, n)
    BY <1>1, <1>2, AtIncremented
  <2>. HIDE DEF sp
  <2>. QED BY <2>1 DEF Increments
<1>. HIDE DEF sp
<1>4. Has(v, sp, r) = Has(v, sh, r) + n /\ Has(v, sh, r) \in Nat
  BY <1>3, AtIs DEF Has
<1>5. ASSUME NEW g \in Seq(Words), g # r PROVE Has(v, sp, g) = Has(v, sh, g)
  <2>1. CASE Contained(v, g) /\ g # <<>>
    <3>1. EncodeNgram(v, g) # key
      BY <1>1, <1>5, <2>1, WordsFit, KeyInjective
    <3>2. EncodeNgram(v, g) # Metadata
      BY <2>1, NotMetadata
    <3>. QED BY <1>3, <2>1, <3>1, <3>2 DEF Has
  <2>2. CASE ~ Contained(v, g)
    BY <2>2 DEF Has
  <2>3. CASE g = <<>> /\ Contained(v, g)
    <3>1. EncodeNgram(v, g) # key
      BY <1>1, <1>5, <2>3, WordsFit, KeyInjective
    <3>2. EncodeNgram(v, g) # Metadata
      <4>1. DecodeKey(EncodeNgram(v, g)) = Indices(v, g)
        BY <2>3, WordsFit, KeyReads
      <4>2. EncodeNgram(v, g) = <<>>
        <5>1. DOMAIN g = {}
          BY <2>3
        <5>2. EncodeNgram(v, g) = EncodeIndices(<<>>)
          <6>1. [i \in DOMAIN g |-> IndexOf(v, g[i])] = <<>>
            BY <5>1
          <6>. QED BY <6>1 DEF EncodeNgram
        <5>3. PICK P : Joins(P, <<>>) /\ EncodeIndices(<<>>) = P[Len(<<>>)]
          <6>1. <<>> \in Seq(Nat)
            OBVIOUS
          <6>. QED BY <6>1, EncodeIs
        <5>4. Len(<<>>) = 0
          OBVIOUS
        <5>. QED BY <5>2, <5>3, <5>4 DEF Joins
      <4>3. Metadata # <<>>
        BY DEF Metadata
      <4>. QED BY <4>2, <4>3
    <3>. QED BY <1>3, <2>3, <3>1, <3>2 DEF Has
  <2>. QED BY <2>1, <2>2, <2>3
<1>6. KeysOK(s, c, v, sp, b)
  <2>1. ASSUME NEW y \in DOMAIN sp, NEW x \in DOMAIN sp[y] \ {Metadata}
        PROVE  \E e \in Files : \E g \in Wanted(s, e) :
                  /\ Contained(v, g) /\ x = EncodeNgram(v, g)
                  /\ Cardinality(s.cpus) = 1 => y = Route(s, c, g)
    <3>1. CASE x = key /\ y = k
      BY <3>1 DEF k
    <3>2. CASE y \in DOMAIN sh /\ x \in DOMAIN sh[y]
      BY <3>2 DEF KeysOK
    <3>. QED BY <1>3, <3>1, <3>2
  <2>. QED BY <2>1 DEF KeysOK
<1>7. PICK m \in 0 .. b[f] - 1 : Has(v, sh, r) = m * n
  BY DEF JobKeeps, n
<1>8. m + 1 \in 0 .. b[f] /\ Has(v, sp, r) = (m + 1) * n /\ (m + 1) * n >= n
  <2>1. m \in Nat /\ b[f] \in Nat /\ m + 1 <= b[f]
    BY <1>7
  <2>2. m * n \in Nat /\ (m + 1) * n = m * n + n
    BY <1>2, <2>1
  <2>. QED BY <1>2, <1>4, <1>7, <2>1, <2>2
<1>9. MultiplesOK(s, v, sp, b)
  <2>1. ASSUME NEW e \in Files, NEW g \in Wanted(s, e)
        PROVE  \E i \in 0 .. b[e] : Has(v, sp, g) = i * Whole(s, e, g)
    <3>1. CASE g = r
      <4>1. e = f
        BY <3>1, WantedIs, OneFile
      <4>. QED BY <1>8, <3>1, <4>1 DEF n
    <3>2. CASE g # r
      <4>1. g \in Seq(Words)
        BY WantedIs
      <4>. QED BY <1>5, <3>2, <4>1 DEF MultiplesOK
    <3>. QED BY <3>1, <3>2
  <2>. QED BY <2>1 DEF MultiplesOK
<1>10. JobKeeps(s, v, sp, b, f, tx, G \cup {r})
  <2>1. KeptIn(s, v, sp, tx, f, r)
    BY <1>8 DEF KeptIn, n
  <2>2. ASSUME NEW g \in G PROVE KeptIn(s, v, sp, tx, f, g)
    <3>1. g \in Seq(Words) /\ g # r
      BY WantedIs
    <3>2. KeptIn(s, v, sh, tx, f, g)
      BY DEF JobKeeps
    <3>. QED BY <1>5, <3>1, <3>2 DEF KeptIn
  <2>3. ASSUME NEW g \in Wanted(s, f) \ (G \cup {r})
        PROVE  \E i \in 0 .. b[f] - 1 : Has(v, sp, g) = i * Whole(s, f, g)
    <3>1. g \in Seq(Words) /\ g # r
      BY WantedIs
    <3>. QED BY <1>5, <3>1 DEF JobKeeps
  <2>4. b[f] > 0
    BY DEF JobKeeps
  <2>. QED BY <2>1, <2>2, <2>3, <2>4 DEF JobKeeps
<1>11. Has(v, sp, r) >= Has(v, sh, r) /\ Has(v, sp, r) \in Nat /\ Has(v, sh, r) \in Nat
  BY <1>2, <1>4
<1>12. Sum1(s, c, v, sh, f, r) = sp
  BY DEF Sum1, sp, k, n
<1>13. Added(s, c, v, sh, sp, b, f, r, tx, G)
  BY <1>3, <1>5, <1>6, <1>9, <1>10, <1>11 DEF Added
<1>. QED BY <1>12, <1>13

\* The jobs of other files are not concerned.
LEMMA AddsElsewhere ==
    ASSUME NEW s \in Setups, ~ Tx(s), NEW v, NEW sh, NEW sp,
           NEW f \in Files, NEW r \in Wanted(s, f),
           \A g \in Seq(Words) : g # r => Has(v, sp, g) = Has(v, sh, g),
           NEW b, NEW e \in Files, e # f, NEW tx, NEW G \in SUBSET Wanted(s, e),
           JobKeeps(s, v, sh, b, e, tx, G)
    PROVE  JobKeeps(s, v, sp, b, e, tx, G)
<1>1. ASSUME NEW g \in Wanted(s, e) PROVE Has(v, sp, g) = Has(v, sh, g)
  <2>1. g # r /\ g \in Seq(Words)
    BY WantedIs, OneFile
  <2>. QED BY <2>1
<1>. QED BY <1>1 DEF JobKeeps, KeptIn

---------------------------------------------------------------------------
(* Committing a transaction. *)

Committed(s, c, v, sh, sp, b, f, tx) ==
    /\ Tries(sp) /\ KeysOK(s, c, v, sp, b)
    /\ \A k : DOMAIN Trie(sh, k) \subseteq DOMAIN Trie(sp, k)
    /\ DOMAIN tx \subseteq DOMAIN Trie(sp, Home(s, f))

\* The writes of a transaction replace what the shard has: the same sums.
LEMMA Commits ==
    ASSUME NEW s \in Setups, Tx(s), NEW c, NEW v \in Vocabularies(Words),
           NEW sh, Tries(sh), NEW b, KeysOK(s, c, v, sh, b),
           NEW f \in Files, b[f] > 0, NEW tx, JobTx(s, v, f, tx)
    PROVE  Committed(s, c, v, sh, Put(sh, Home(s, f), Overlaid(tx, Trie(sh, Home(s, f)))),
                     b, f, tx)
<1>. DEFINE k   == Home(s, f)
            old == Trie(sh, k)
            t   == Overlaid(tx, old)
            sp  == Put(sh, k, t)
<1>1. IsTrie(old)
  BY TrieIs
<1>2. /\ DOMAIN t = DOMAIN tx \cup DOMAIN old
      /\ \A x \in DOMAIN tx : t[x] = tx[x]
      /\ \A x \in DOMAIN old \ DOMAIN tx : t[x] = old[x]
  <2>. HIDE DEF old
  <2>. QED BY DEF Overlaid
<1>3. /\ k \notin DOMAIN sh => DOMAIN old = {Metadata}
      /\ k \in DOMAIN sh => old = sh[k]
  BY NewTrieIs DEF Trie
<1>. HIDE DEF old, t, k
<1>4. /\ DOMAIN sp = DOMAIN sh \cup {k} /\ sp[k] = t
      /\ \A y \in DOMAIN sh : y # k => sp[y] = sh[y]
  BY DEF Put
<1>. HIDE DEF sp
<1>5. ASSUME NEW x \in DOMAIN tx
      PROVE  \E g \in Wanted(s, f) : /\ Contained(v, g) /\ x = EncodeNgram(v, g)
                                     /\ tx[x] = Whole(s, f, g) /\ x # Metadata
  <2>1. PICK g \in Wanted(s, f) : /\ Contained(v, g) /\ x = EncodeNgram(v, g)
                                  /\ tx[x] = Whole(s, f, g)
    BY DEF JobTx
  <2>2. x # Metadata
    BY <2>1, WantedIs, NotMetadata
  <2>. QED BY <2>1, <2>2
<1>6. IsTrie(t)
  <2>1. IsFiniteSet(DOMAIN t)
    <3>1. IsFiniteSet(DOMAIN tx) /\ IsFiniteSet(DOMAIN old)
      BY <1>1 DEF IsTrie, JobTx
    <3>2. IsFiniteSet(DOMAIN tx \cup DOMAIN old)
      BY ONLY <3>1, FS_Union
    <3>. QED BY ONLY <1>2, <3>2
  <2>2. Metadata \in DOMAIN t /\ t[Metadata] = 1
    BY <1>1, <1>2, <1>5 DEF IsTrie
  <2>3. ASSUME NEW x \in DOMAIN t PROVE t[x] \in Nat \ {0}
    <3>1. CASE x \in DOMAIN tx
      BY <1>2, <1>5, <3>1, WholeIs
    <3>2. CASE x \notin DOMAIN tx
      BY <1>1, <1>2, <3>2 DEF IsTrie
    <3>. QED BY <3>1, <3>2
  <2>. QED BY <2>1, <2>2, <2>3 DEF IsTrie
<1>7. Tries(sp)
  <2>1. IsFiniteSet(DOMAIN sp)
    BY <1>4, FS_AddElement DEF Tries
  <2>. QED BY <1>4, <1>6, <2>1 DEF Tries
<1>8. KeysOK(s, c, v, sp, b)
  <2>1. ASSUME NEW y \in DOMAIN sp, NEW x \in DOMAIN sp[y] \ {Metadata}
        PROVE  \E e \in Files : \E g \in Wanted(s, e) :
                  /\ Contained(v, g) /\ x = EncodeNgram(v, g)
                  /\ y = Home(s, e) /\ sp[y][x] = Whole(s, e, g) /\ b[e] > 0
    <3>1. CASE y = k /\ x \in DOMAIN tx
      <4>1. PICK g \in Wanted(s, f) : /\ Contained(v, g) /\ x = EncodeNgram(v, g)
                                      /\ tx[x] = Whole(s, f, g)
        BY <1>5, <3>1
      <4>. QED BY <1>2, <1>4, <3>1, <4>1 DEF k
    <3>2. CASE ~ (y = k /\ x \in DOMAIN tx)
      <4>1. y \in DOMAIN sh /\ x \in DOMAIN sh[y] \ {Metadata} /\ sp[y][x] = sh[y][x]
        BY <1>2, <1>3, <1>4, <3>2
      <4>. QED BY <4>1 DEF KeysOK
    <3>. QED BY <3>1, <3>2
  <2>. QED BY <2>1 DEF KeysOK
<1>9. ASSUME NEW y PROVE DOMAIN Trie(sh, y) \subseteq DOMAIN Trie(sp, y)
  <2>1. CASE y = k
    BY <1>2, <1>4, <2>1 DEF Trie, old
  <2>2. CASE y # k
    BY <1>4, <2>2 DEF Trie
  <2>. QED BY <2>1, <2>2
<1>10. DOMAIN tx \subseteq DOMAIN Trie(sp, k)
  BY <1>2, <1>4 DEF Trie
<1>. QED BY <1>7, <1>8, <1>9, <1>10 DEF sp, t, old, k, Committed

\* Larger tries, or a transaction that has moved to them, keep what was kept.
LEMMA KeepsMore ==
    ASSUME NEW s \in Setups, Tx(s), NEW v, NEW sh, NEW sp,
           \A k : DOMAIN Trie(sh, k) \subseteq DOMAIN Trie(sp, k),
           NEW b, NEW f \in Files, NEW tx, NEW ty,
           DOMAIN tx \subseteq DOMAIN ty \cup DOMAIN Trie(sp, Home(s, f)),
           NEW G, JobKeeps(s, v, sh, b, f, tx, G)
    PROVE  JobKeeps(s, v, sp, b, f, ty, G)
<1>1. ASSUME NEW g \in G PROVE KeptIn(s, v, sp, ty, f, g)
  <2>1. KeptIn(s, v, sh, tx, f, g)
    BY DEF JobKeeps
  <2>. QED BY <2>1 DEF KeptIn
<1>. QED BY <1>1 DEF JobKeeps

\* An n-gram enters the transaction.
LEMMA Pends ==
    ASSUME NEW s \in Setups, Tx(s), NEW v, NEW sh, NEW b, NEW f \in Files,
           NEW r \in Wanted(s, f), Contained(v, r), NEW tx, JobTx(s, v, f, tx),
           NEW G, JobKeeps(s, v, sh, b, f, tx, G)
    PROVE  LET ty == Put(tx, EncodeNgram(v, r), Whole(s, f, r))
           IN  /\ JobTx(s, v, f, ty) /\ JobKeeps(s, v, sh, b, f, ty, G \cup {r})
<1>. DEFINE key == EncodeNgram(v, r)
            n   == Whole(s, f, r)
            ty  == Put(tx, key, n)
<1>1. /\ DOMAIN ty = DOMAIN tx \cup {key} /\ ty[key] = n
      /\ \A x \in DOMAIN tx : x # key => ty[x] = tx[x]
  BY DEF Put
<1>. HIDE DEF ty, n
<1>2. JobTx(s, v, f, ty)
  <2>1. IsFiniteSet(DOMAIN ty)
    BY <1>1, FS_AddElement DEF JobTx
  <2>2. ASSUME NEW x \in DOMAIN ty
        PROVE  \E g \in Wanted(s, f) : /\ Contained(v, g) /\ x = EncodeNgram(v, g)
                                       /\ ty[x] = Whole(s, f, g)
    <3>1. CASE x = key
      BY <1>1, <3>1 DEF n
    <3>2. CASE x # key
      BY <1>1, <3>2 DEF JobTx
    <3>. QED BY <3>1, <3>2
  <2>. QED BY <2>1, <2>2 DEF JobTx
<1>3. JobKeeps(s, v, sh, b, f, ty, G \cup {r})
  <2>1. KeptIn(s, v, sh, ty, f, r)
    BY <1>1 DEF KeptIn
  <2>2. ASSUME NEW g \in G PROVE KeptIn(s, v, sh, ty, f, g)
    BY <1>1 DEF JobKeeps, KeptIn
  <2>. QED BY <2>1, <2>2 DEF JobKeeps
<1>. QED BY <1>2, <1>3 DEF ty, n

---------------------------------------------------------------------------
(* The invariant. *)

TypesOK ==
    /\ setup \in Setups /\ cpus \in setup.cpus /\ vocab \in Vocabularies(Words)
    /\ phase \in Phases
    /\ outcome \in [Files -> {"todo", "busy", "done", "failed"}]
    /\ attempts \in [Files -> Nat] /\ begun \in [Files -> Nat]
    /\ job = [w \in Workers |-> job[w]]

AttemptsOK ==
    /\ \A f \in Files : attempts[f] <= MaxAttempts /\ attempts[f] <= begun[f]
    /\ phase \in {"importing", "over"} =>
          \A f \in Files : outcome[f] = "todo" => attempts[f] < MaxAttempts

JobsOK ==
    /\ \A w \in Workers : job[w] # None => /\ JobOK(setup, vocab, shards, begun, job[w])
                                           /\ outcome[job[w].file] = "busy"
    /\ \A w, u \in Workers : job[w] # None /\ job[u] # None /\ w # u =>
                                job[w].file # job[u].file
    /\ phase # "importing" => \A w \in Workers : job[w] = None

StoreOK ==
    /\ Tries(shards)
    /\ KeysOK(setup, cpus, vocab, shards, begun)
    /\ MultiplesOK(setup, vocab, shards, begun)

DoneOK ==
    /\ \A f \in Files : outcome[f] = "done" =>
          \A g \in Wanted(setup, f) : KeptIn(setup, vocab, shards, <<>>, f, g)
    /\ phase \in {"merging", "ended"} => \A f \in Files : outcome[f] = "todo"

PipelineInv == TypesOK /\ AttemptsOK /\ JobsOK /\ StoreOK /\ DoneOK

---------------------------------------------------------------------------
(* The model's operators, and those of the invariant. *)

\* The operators of the model are those of the invariant.
LEMMA Same ==
    ASSUME setup \in Setups
    PROVE  /\ \A line : Accepted(line) <=> Takes(setup, line)
           /\ HasTx <=> Tx(setup)
           /\ HasTx => \A f : TxShard(f) = Home(setup, f)
           /\ \A g : RouteOf(g) = Route(setup, cpus, g)
           /\ \A k : Shard(k) = Trie(shards, k)
           /\ \A g : InVocabulary(g) <=> Contained(vocab, g)
           /\ \A g : Held(g) = Has(vocab, shards, g)
<1>1. \A line : Accepted(line) <=> Takes(setup, line)
  BY DEF Accepted, Takes
<1>2. HasTx <=> Tx(setup)
  BY DEF HasTx, Tx, IsSharded
<1>3. HasTx => \A f : TxShard(f) = Home(setup, f)
  BY DEF HasTx, TxShard, Home, KeyOfFile
<1>4. \A g : RouteOf(g) = Route(setup, cpus, g)
  BY DEF RouteOf, Route, IsSharded
<1>5. \A k : Shard(k) = Trie(shards, k)
  BY DEF Shard, Trie
<1>6. \A g : InVocabulary(g) <=> Contained(vocab, g)
  BY DEF InVocabulary, Contained
<1>7. \A g : Held(g) = Has(vocab, shards, g)
  BY <1>6 DEF Held, Has, At
<1>. QED BY <1>1, <1>2, <1>3, <1>4, <1>5, <1>6, <1>7

\* The sum of the property is that of the invariant.
LEMMA TotalIs ==
    ASSUME setup \in Setups, NEW f \in Files, NEW g
    PROVE  Total(f, g) = Whole(setup, f, g)
<1>. DEFINE n == Size(setup, f)
            A == {i \in DOMAIN setup.input[f] :
                    Accepted(setup.input[f][i]) /\ setup.input[f][i].ngram = g}
<1>1. DOMAIN setup.input[f] = 1 .. n /\ n \in Nat
  BY LineIs
<1>2. \A i \in DOMAIN setup.input[f] : i < n + 1
  BY <1>1
<1>3. A = Of(setup, f, g, n + 1)
  BY <1>2, Same DEF Of, Taken
<1>4. Total(f, g) = SumFunction([i \in A |-> setup.input[f][i].count])
  BY DEF Total
<1>. HIDE DEF A, n
<1>5. Whole(setup, f, g) = SumFunction([i \in Of(setup, f, g, n + 1) |-> setup.input[f][i].count])
  BY DEF Whole, SoFar, n
<1>. QED BY <1>3, <1>4, <1>5

\* Without tries nothing is held.
LEMMA NoTries ==
    /\ Tries(<<>>)
    /\ \A v, g : Has(v, <<>>, g) = 0
<1>1. DOMAIN <<>> = {}
  OBVIOUS
<1>2. Tries(<<>>)
  BY <1>1, FS_EmptySet DEF Tries
<1>3. \A key : At(<<>>, key) = 0
  <2>1. ASSUME NEW key PROVE At(<<>>, key) = 0
    <3>. DEFINE F == [k \in DOMAIN <<>> |-> CountIn(<<>>[k], key)]
    <3>1. DOMAIN F = {}
      BY <1>1
    <3>. HIDE DEF F
    <3>2. SumFunction(F) = 0
      BY <3>1, SumOfNothing
    <3>. QED BY <3>2 DEF At, F
  <2>. QED BY <2>1
<1>. QED BY <1>2, <1>3 DEF Has

\* The invariant holds at first.
LEMMA StartsRight ==
    ASSUME Init
    PROVE  PipelineInv
<1>1. setup \in Setups /\ cpus \in setup.cpus
  BY DEF Init
<1>2. TypesOK
  <2>1. vocab \in Vocabularies(Words)
    BY DEF Init, Vocabularies, IsInjective
  <2>. QED BY <1>1, <2>1 DEF Init, TypesOK, Phases
<1>3. AttemptsOK
  BY NumbersAssumption DEF Init, AttemptsOK
<1>4. JobsOK
  BY DEF Init, JobsOK
<1>5. DoneOK
  BY DEF Init, DoneOK
<1>6. StoreOK
  <2>1. Tries(shards)
    <3>1. CASE IsSharded
      BY <3>1, NoTries DEF Init
    <3>2. CASE ~ IsSharded
      <4>1. DOMAIN shards = {<<>>} /\ shards[<<>>] = NewTrie
        BY <3>2 DEF Init
      <4>2. IsFiniteSet({<<>>})
        BY FS_Singleton
      <4>. QED BY <4>1, <4>2, NewTrieIs DEF Tries
    <3>. QED BY <3>1, <3>2
  <2>2. \A k \in DOMAIN shards : DOMAIN shards[k] = {Metadata}
    <3>1. CASE IsSharded
      BY <3>1 DEF Init
    <3>2. CASE ~ IsSharded
      BY <3>2, NewTrieIs DEF Init
    <3>. QED BY <3>1, <3>2
  <2>3. KeysOK(setup, cpus, vocab, shards, begun)
    BY <2>2 DEF KeysOK
  <2>4. MultiplesOK(setup, vocab, shards, begun)
    <3>1. ASSUME NEW f \in Files, NEW g \in Wanted(setup, f)
          PROVE  \E n \in 0 .. begun[f] : Has(vocab, shards, g) = n * Whole(setup, f, g)
      <4>1. ~ Contained(vocab, g)
        <5>1. g \in Seq(Words) /\ g # <<>> /\ vocab = <<>>
          BY <1>1, WantedIs DEF Init
        <5>2. 1 \in DOMAIN g
          BY <5>1
        <5>. QED BY <5>1, <5>2 DEF Contained, Contains
      <4>2. Has(vocab, shards, g) = 0 /\ begun[f] = 0
        BY <4>1 DEF Has, Init
      <4>3. Whole(setup, f, g) \in Nat
        BY <1>1, WholeIs
      <4>. QED BY <4>2, <4>3
    <3>. QED BY <3>1 DEF MultiplesOK
  <2>. QED BY <2>1, <2>3, <2>4 DEF StoreOK
<1>. QED BY <1>2, <1>3, <1>4, <1>5, <1>6 DEF PipelineInv

\* What a step that stores does to all the rest.
Spared(f) ==
    /\ \A j : j.file # f /\ JobOK(setup, vocab, shards, begun, j) =>
                JobOK(setup, vocab', shards', begun, j)
    /\ \A e \in Files : \A g \in Wanted(setup, e) :
          KeptIn(setup, vocab, shards, <<>>, e, g) =>
              KeptIn(setup, vocab', shards', <<>>, e, g)

StoredWell ==
    /\ vocab' \in Vocabularies(Words) /\ Tries(shards')
    /\ KeysOK(setup, cpus, vocab', shards', begun)
    /\ MultiplesOK(setup, vocab', shards', begun)

\* The job goes on as jn.
JobStored(w, f, j, jn, G) ==
    /\ job' = [job EXCEPT ![w] = jn]
    /\ jn.file = j.file /\ jn.pos = j.pos /\ jn.current = j.current /\ JobShape(setup, jn)
    /\ JobTx(setup, vocab', f, jn.tx)
    /\ JobKeeps(setup, vocab', shards', begun, f, jn.tx, G)

\* A job's transaction and its chunk change.
Transacted(j, t, n) == [j EXCEPT !.tx = t, !.chunk = n]

\* All the rest stays.
LEMMA TransactedIs ==
    ASSUME NEW s, NEW j, JobShape(s, j), NEW t, NEW n \in Nat
    PROVE  LET jn == Transacted(j, t, n)
           IN  /\ jn.file = j.file /\ jn.pos = j.pos /\ jn.current = j.current
               /\ jn.tx = t /\ JobShape(s, jn)
<1>. DEFINE jn == Transacted(j, t, n)
<1>1. ASSUME NEW a, NEW b, NEW c, NEW d, NEW e,
             j = [file |-> a, pos |-> b, current |-> c, tx |-> d, chunk |-> e]
      PROVE  jn = [file |-> a, pos |-> b, current |-> c, tx |-> t, chunk |-> n]
  <2>. DEFINE m == [j EXCEPT !.tx = t]
  <2>1. m = [file |-> a, pos |-> b, current |-> c, tx |-> t, chunk |-> e]
    BY <1>1
  <2>2. jn = [m EXCEPT !.chunk = n]
    BY Zenon DEF Transacted
  <2>. HIDE DEF jn, m
  <2>. QED BY <2>1, <2>2
<1>2. jn = [file |-> j.file, pos |-> j.pos, current |-> j.current, tx |-> t, chunk |-> n]
  BY <1>1 DEF JobShape
<1>. HIDE DEF jn
<1>3. jn.file = j.file /\ jn.pos = j.pos /\ jn.current = j.current /\ jn.tx = t /\ jn.chunk = n
  BY <1>2
<1>4. JobShape(s, jn)
  BY <1>2, <1>3 DEF JobShape
<1>. QED BY <1>3, <1>4 DEF jn

\* A transaction is committed, by the file f.
LEMMA CommitSpares ==
    ASSUME TypesOK, StoreOK, Tx(setup), vocab' = vocab, NEW f \in Files, NEW tx,
           Committed(setup, cpus, vocab, shards, shards', begun, f, tx)
    PROVE  StoredWell /\ Spared(f)
<1>1. StoredWell
  BY DEF StoredWell, Committed, TypesOK, StoreOK, MultiplesOK
<1>2. \A k : DOMAIN Trie(shards, k) \subseteq DOMAIN Trie(shards', k)
  BY DEF Committed
<1>3. ASSUME NEW j, JobOK(setup, vocab, shards, begun, j)
      PROVE  JobOK(setup, vocab, shards', begun, j)
  <2>1. j.file \in Files
    BY <1>3 DEF JobOK, JobShape
  <2>2. JobKeeps(setup, vocab, shards', begun, j.file, j.tx, Behind(setup, j))
    BY <1>2, <1>3, <2>1, KeepsMore DEF JobOK, TypesOK
  <2>. QED BY <1>3, <2>2 DEF JobOK
<1>4. ASSUME NEW e \in Files, NEW g \in Wanted(setup, e),
             KeptIn(setup, vocab, shards, <<>>, e, g)
      PROVE  KeptIn(setup, vocab, shards', <<>>, e, g)
  BY <1>2, <1>4 DEF KeptIn
<1>. QED BY <1>1, <1>3, <1>4 DEF Spared

\* A record is stored: in the transaction, with a chunk, or at once.
LEMMA StoreStep ==
    ASSUME TypesOK, StoreOK, NEW w \in Workers, NEW f \in Files,
           NEW r \in Wanted(setup, f), NEW G \in SUBSET Wanted(setup, f), r \notin G,
           NEW j, JobShape(setup, j), j.file = f, JobTx(setup, vocab, f, j.tx),
           JobKeeps(setup, vocab, shards, begun, f, j.tx, G),
           Store(w, [ngram |-> r, total |-> Whole(setup, f, r)], j)
    PROVE  /\ StoredWell /\ Spared(f)
           /\ \E jn : JobStored(w, f, j, jn, G \cup {r})
<1>. DEFINE s == setup
            u == WithWords(vocab, r)
            key == EncodeNgram(u, r)
            n == Whole(s, f, r)
            ty == Put(j.tx, key, n)
<1>0. /\ s \in Setups /\ vocab \in Vocabularies(Words) /\ Tries(shards)
      /\ KeysOK(s, cpus, vocab, shards, begun) /\ MultiplesOK(s, vocab, shards, begun)
      /\ r \in Seq(Words) /\ begun \in [Files -> Nat]
  BY WantedIs DEF TypesOK, StoreOK
<1>1. /\ u \in Vocabularies(Words) /\ Extended(vocab, u) /\ Contained(u, r)
      /\ Speaks(vocab, shards)
  BY <1>0, WordsEntered, KeysSpeak
<1>. HIDE DEF s, u
<1>2. /\ KeysOK(s, cpus, u, shards, begun) /\ MultiplesOK(s, u, shards, begun)
      /\ JobTx(s, u, f, j.tx) /\ JobKeeps(s, u, shards, begun, f, j.tx, G)
  <2>1. KeysOK(s, cpus, u, shards, begun)
    BY <1>0, <1>1, KeysGrow
  <2>2. MultiplesOK(s, u, shards, begun)
    BY <1>0, <1>1, MultiplesGrow
  <2>3. JobTx(s, u, f, j.tx)
    BY <1>0, <1>1, TxGrows DEF s
  <2>4. JobKeeps(s, u, shards, begun, f, j.tx, G)
    BY <1>0, <1>1, KeepsGrow DEF s
  <2>. QED BY <2>1, <2>2, <2>3, <2>4
<1>3. ASSUME NEW j2, JobOK(s, vocab, shards, begun, j2) PROVE JobOK(s, u, shards, begun, j2)
  BY <1>0, <1>1, <1>3, JobGrows
<1>4. ASSUME NEW e \in Files, NEW g \in Wanted(s, e), KeptIn(s, vocab, shards, <<>>, e, g)
      PROVE  KeptIn(s, u, shards, <<>>, e, g)
  BY <1>0, <1>1, <1>4, KeptGrows
<1>5. /\ vocab' = u
      /\ \/ /\ Tx(s) /\ job' = [job EXCEPT ![w] = [j EXCEPT !.tx = ty, !.chunk = @ + 1]]
            /\ shards' = shards
         \/ /\ Tx(s)
            /\ shards' = Put(shards, Home(s, f), Overlaid(ty, Trie(shards, Home(s, f))))
            /\ job' = [job EXCEPT ![w] = [j EXCEPT !.tx = <<>>, !.chunk = 0]]
         \/ /\ ~ Tx(s) /\ shards' = Sum1(s, cpus, u, shards, f, r)
            /\ job' = [job EXCEPT ![w] = j]
  <2>1. vocab' = u
    BY DEF Store, u
  <2>2. CASE Tx(s) /\ shards' = shards
             /\ job' = [job EXCEPT ![w] = [j EXCEPT !.tx = ty, !.chunk = @ + 1]]
    BY <2>1, <2>2
  <2>3. CASE HasTx /\ CommitTx(j.file, ty)
             /\ job' = [job EXCEPT ![w] = [j EXCEPT !.tx = <<>>, !.chunk = 0]]
    <3>1. Tx(s) /\ TxShard(f) = Home(s, f) /\ \A k : Shard(k) = Trie(shards, k)
      BY <1>0, <2>3, Same DEF s
    <3>. HIDE DEF ty
    <3>. QED BY <2>1, <2>3, <3>1 DEF CommitTx
  <2>4. CASE ~ HasTx /\ job' = [job EXCEPT ![w] = j]
             /\ shards' = Put(shards, RouteOf(r), Incremented(Shard(RouteOf(r)), key, n))
    <3>1. ~ Tx(s) /\ RouteOf(r) = Route(s, cpus, r) /\ \A k : Shard(k) = Trie(shards, k)
      BY <1>0, <2>4, Same DEF s
    <3>2. shards' = Sum1(s, cpus, u, shards, f, r)
      BY <2>4, <3>1 DEF Sum1
    <3>. QED BY <2>1, <2>4, <3>1, <3>2
  <2>5. HasTx <=> Tx(s)
    BY <1>0, Same DEF s
  <2>. QED BY <2>2, <2>3, <2>4, <2>5 DEF Store, u, s
<1>6. CASE /\ Tx(s) /\ job' = [job EXCEPT ![w] = [j EXCEPT !.tx = ty, !.chunk = @ + 1]]
           /\ shards' = shards
  <2>. DEFINE jn == [j EXCEPT !.tx = ty, !.chunk = @ + 1]
  <2>1. JobTx(s, u, f, ty) /\ JobKeeps(s, u, shards, begun, f, ty, G \cup {r})
    BY <1>0, <1>1, <1>2, <1>6, Pends DEF s
  <2>. HIDE DEF ty
  <2>2. /\ jn.file = j.file /\ jn.pos = j.pos /\ jn.current = j.current /\ jn.tx = ty
        /\ JobShape(s, jn)
    <3>1. j.chunk + 1 \in Nat
      BY DEF JobShape
    <3>2. jn = Transacted(j, ty, j.chunk + 1)
      BY Zenon DEF Transacted
    <3>. HIDE DEF jn
    <3>. QED BY <3>1, <3>2, TransactedIs DEF s
  <2>. HIDE DEF jn
  <2>3. JobStored(w, f, j, jn, G \cup {r})
    BY <1>5, <1>6, <2>1, <2>2 DEF JobStored, s, jn
  <2>4. StoredWell
    BY <1>0, <1>1, <1>2, <1>5, <1>6 DEF StoredWell, s
  <2>5. Spared(f)
    BY <1>3, <1>4, <1>5, <1>6 DEF Spared, s
  <2>. QED BY <2>3, <2>4, <2>5
<1>7. CASE /\ Tx(s)
           /\ shards' = Put(shards, Home(s, f), Overlaid(ty, Trie(shards, Home(s, f))))
           /\ job' = [job EXCEPT ![w] = [j EXCEPT !.tx = <<>>, !.chunk = 0]]
  <2>. DEFINE jn == [j EXCEPT !.tx = <<>>, !.chunk = 0]
  <2>1. JobTx(s, u, f, ty) /\ JobKeeps(s, u, shards, begun, f, ty, G \cup {r})
    BY <1>0, <1>1, <1>2, <1>7, Pends DEF s
  <2>. HIDE DEF ty
  <2>2. Committed(s, cpus, u, shards, shards', begun, f, ty)
    <3>1. begun[f] > 0
      BY DEF JobKeeps
    <3>. QED BY <1>0, <1>1, <1>2, <1>7, <2>1, <3>1, Commits
  <2>3. /\ jn.file = j.file /\ jn.pos = j.pos /\ jn.current = j.current /\ jn.tx = <<>>
        /\ JobShape(s, jn)
    <3>1. jn = Transacted(j, <<>>, 0)
      BY Zenon DEF Transacted
    <3>. HIDE DEF jn
    <3>. QED BY <3>1, TransactedIs DEF s
  <2>. HIDE DEF jn
  <2>4. JobKeeps(s, u, shards', begun, f, <<>>, G \cup {r})
    <3>1. DOMAIN ty \subseteq DOMAIN <<>> \cup DOMAIN Trie(shards', Home(s, f))
      BY <2>2 DEF Committed
    <3>2. \A k : DOMAIN Trie(shards, k) \subseteq DOMAIN Trie(shards', k)
      BY <2>2 DEF Committed
    <3>. QED BY <1>0, <1>7, <2>1, <3>1, <3>2, KeepsMore
  <2>5. JobTx(s, u, f, <<>>)
    <3>1. DOMAIN <<>> = {}
      OBVIOUS
    <3>. QED BY <3>1, FS_EmptySet DEF JobTx
  <2>6. JobStored(w, f, j, jn, G \cup {r})
    BY <1>5, <1>7, <2>3, <2>4, <2>5 DEF JobStored, s, jn
  <2>7. /\ Tries(shards') /\ KeysOK(s, cpus, u, shards', begun)
        /\ \A k : DOMAIN Trie(shards, k) \subseteq DOMAIN Trie(shards', k)
    BY <2>2 DEF Committed
  <2>8. StoredWell
    BY <1>1, <1>5, <1>7, <2>7 DEF StoredWell, MultiplesOK, s
  <2>9. ASSUME NEW j2, JobOK(s, vocab, shards, begun, j2) PROVE JobOK(s, u, shards', begun, j2)
    <3>1. JobOK(s, u, shards, begun, j2)
      BY <1>3, <2>9
    <3>2. j2.file \in Files
      BY <3>1 DEF JobOK, JobShape
    <3>3. JobKeeps(s, u, shards', begun, j2.file, j2.tx, Behind(s, j2))
      BY <1>0, <1>7, <2>7, <3>1, <3>2, KeepsMore DEF JobOK
    <3>. QED BY <3>1, <3>3 DEF JobOK
  <2>10. ASSUME NEW e \in Files, NEW g \in Wanted(s, e), KeptIn(s, vocab, shards, <<>>, e, g)
         PROVE  KeptIn(s, u, shards', <<>>, e, g)
    BY <1>4, <1>7, <2>7, <2>10 DEF KeptIn
  <2>11. Spared(f)
    BY <1>5, <2>9, <2>10 DEF Spared, s
  <2>. QED BY <2>6, <2>8, <2>11
<1>8. CASE /\ ~ Tx(s) /\ shards' = Sum1(s, cpus, u, shards, f, r)
           /\ job' = [job EXCEPT ![w] = j]
  <2>1. Added(s, cpus, u, shards, shards', begun, f, r, j.tx, G)
    BY <1>0, <1>1, <1>2, <1>8, Adds DEF s
  <2>2. JobStored(w, f, j, j, G \cup {r})
    BY <1>2, <1>5, <1>8, <2>1 DEF JobStored, Added, s
  <2>3. StoredWell
    BY <1>1, <1>5, <2>1 DEF StoredWell, Added, s
  <2>4. /\ \A g \in Seq(Words) : g # r => Has(u, shards', g) = Has(u, shards, g)
        /\ Has(u, shards', r) >= Has(u, shards, r)
        /\ Has(u, shards', r) \in Nat /\ Has(u, shards, r) \in Nat
    BY <2>1 DEF Added
  <2>5. ASSUME NEW j2, j2.file # f, JobOK(s, vocab, shards, begun, j2)
        PROVE  JobOK(s, u, shards', begun, j2)
    <3>1. JobOK(s, u, shards, begun, j2)
      BY <1>3, <2>5
    <3>2. j2.file \in Files /\ Behind(s, j2) \in SUBSET Wanted(s, j2.file)
      BY <1>0, <3>1, SeenIsWanted DEF JobOK, JobShape, Behind
    <3>3. JobKeeps(s, u, shards', begun, j2.file, j2.tx, Behind(s, j2))
      <4>1. JobKeeps(s, u, shards, begun, j2.file, j2.tx, Behind(s, j2)) /\ r \in Wanted(s, f)
        BY <3>1 DEF JobOK, s
      <4>. QED BY <1>0, <1>8, <2>4, <2>5, <3>2, <4>1, AddsElsewhere
    <3>. QED BY <3>1, <3>3 DEF JobOK
  <2>6. ASSUME NEW e \in Files, NEW g \in Wanted(s, e), KeptIn(s, vocab, shards, <<>>, e, g)
        PROVE  KeptIn(s, u, shards', <<>>, e, g)
    <3>1. KeptIn(s, u, shards, <<>>, e, g) /\ g \in Seq(Words) /\ Whole(s, e, g) \in Nat
      BY <1>0, <1>4, <2>6, WantedIs, WholeIs
    <3>. QED BY <1>8, <2>4, <3>1 DEF KeptIn
  <2>7. Spared(f)
    BY <1>5, <2>5, <2>6 DEF Spared, s
  <2>. QED BY <2>2, <2>3, <2>7
<1>. QED BY <1>5, <1>6, <1>7, <1>8

---------------------------------------------------------------------------
(* A worker reads on. *)

Moved(j, p, c) == [file |-> j.file, pos |-> p, current |-> c, tx |-> j.tx,
                   chunk |-> j.chunk]

\* The fields of a job that has moved.
LEMMA MovedIs ==
    ASSUME NEW s, NEW j, JobShape(s, j), NEW p \in 1 .. Size(s, j.file) + 1, NEW c
    PROVE  LET jn == Moved(j, p, c)
           IN  /\ jn.file = j.file /\ jn.pos = p /\ jn.current = c /\ jn.tx = j.tx
               /\ JobShape(s, jn)
<1>. DEFINE jn == Moved(j, p, c)
<1>1. /\ jn.file = j.file /\ jn.pos = p /\ jn.current = c /\ jn.tx = j.tx
      /\ jn.chunk = j.chunk
      /\ jn = [file |-> j.file, pos |-> p, current |-> c, tx |-> j.tx, chunk |-> j.chunk]
  BY DEF Moved
<1>. HIDE DEF jn
<1>. QED BY <1>1 DEF JobShape, jn

\* The records that the actions put together.
Turned(j, c) == [j EXCEPT !.current = c]

Summed(j, m) == [j EXCEPT !.current.total = @ + m]

\* They are such jobs.
LEMMA MovesAre ==
    ASSUME NEW s, NEW w \in Workers, JobShape(s, job[w])
    PROVE  /\ Next1(w) = Moved(job[w], job[w].pos + 1, job[w].current)
           /\ \A c : /\ Turned(Next1(w), c) = Moved(job[w], job[w].pos + 1, c)
                     /\ Turned(job[w], c) = Moved(job[w], job[w].pos, c)
           /\ \A g, n, m : job[w].current = [ngram |-> g, total |-> n] =>
                 Summed(Next1(w), m)
                     = Moved(job[w], job[w].pos + 1, [ngram |-> g, total |-> n + m])
<1>. DEFINE j == job[w]
<1>1. j = Moved(j, j.pos, j.current)
  BY DEF JobShape, Moved
<1>2. Next1(w) = Moved(j, j.pos + 1, j.current)
  <2>1. Next1(w) = [j EXCEPT !.pos = j.pos + 1]
    BY DEF Next1
  <2>. HIDE DEF j
  <2>2. ASSUME NEW k, k = [file |-> j.file, pos |-> j.pos, current |-> j.current, tx |-> j.tx,
                           chunk |-> j.chunk], NEW p
        PROVE  [k EXCEPT !.pos = p] = Moved(j, p, j.current)
    BY <2>2 DEF Moved
  <2>. QED BY <1>1, <2>1, <2>2 DEF Moved
<1>. HIDE DEF j
<1>3. ASSUME NEW c, NEW p, NEW d PROVE Turned(Moved(j, p, d), c) = Moved(j, p, c)
  BY DEF Moved, Turned
<1>4. ASSUME NEW g, NEW n, NEW m, j.current = [ngram |-> g, total |-> n]
      PROVE  Summed(Next1(w), m)
                 = Moved(j, j.pos + 1, [ngram |-> g, total |-> n + m])
  <2>. DEFINE q == j.pos + 1
              c == [ngram |-> g, total |-> n]
              k == Moved(j, q, c)
  <2>1. Next1(w) = k
    BY <1>2, <1>4
  <2>2. k.current = c /\ c.total = n
    BY DEF Moved
  <2>3. [c EXCEPT !.total = n + m] = [ngram |-> g, total |-> n + m]
    OBVIOUS
  <2>4. Summed(k, m) = Turned(k, [c EXCEPT !.total = n + m])
    BY <2>2 DEF Summed, Turned
  <2>. QED BY <1>3, <2>1, <2>3, <2>4
<1>. QED BY <1>1, <1>2, <1>3, <1>4 DEF j

\* The records of a job.
LEMMA RecordsAre ==
    /\ NoRecord.ngram = <<>>
    /\ \A g, n : [ngram |-> g, total |-> n].ngram = g
    /\ \A line : Record(line) = [ngram |-> line.ngram, total |-> line.count]
BY DEF NoRecord, Record

\* A job moves while what is behind it stays the same.
LEMMA JobMoves ==
    ASSUME NEW s, NEW v, NEW sh, NEW b, NEW j, JobOK(s, v, sh, b, j),
           NEW p \in 1 .. Size(s, j.file) + 1, NEW c,
           JobReads(s, Moved(j, p, c)),
           Seen(s, j.file, p) \ {c.ngram} = Behind(s, j)
    PROVE  JobOK(s, v, sh, b, Moved(j, p, c))
<1>. DEFINE jn == Moved(j, p, c)
<1>1. /\ jn.file = j.file /\ jn.pos = p /\ jn.current = c /\ jn.tx = j.tx
      /\ JobShape(s, jn)
  BY MovedIs DEF JobOK
<1>. HIDE DEF jn
<1>2. Behind(s, jn) = Behind(s, j)
  BY <1>1 DEF Behind
<1>. QED BY <1>1, <1>2 DEF JobOK, jn

\* What a line that is taken makes the current n-gram.
LEMMA LineRead ==
    ASSUME NEW s \in Setups, NEW jn, NEW f \in Files, NEW p \in 1 .. Size(s, f),
           Takes(s, s.input[f][p]), jn.file = f, jn.pos = p + 1,
           jn.current = [ngram |-> s.input[f][p].ngram,
                         total |-> SoFar(s, f, s.input[f][p].ngram, p + 1)]
    PROVE  JobReads(s, jn)
<1>. DEFINE h == s.input[f][p].ngram
<1>1. p \in Taken(s, f, p + 1) /\ Taken(s, f, p + 1) = Taken(s, f, p) \cup {p}
  BY LineTaken
<1>2. \A i \in Taken(s, f, p) : i < p
  BY TakenIs
<1>3. p \in Nat
  BY LineIs
<1>4. \A i \in Taken(s, f, p) : i \in Nat
  BY TakenIs
<1>5. \A i \in Taken(s, f, p + 1) : i <= p
  BY <1>1, <1>2, <1>3, <1>4
<1>6. h # <<>>
  BY <1>1, TakenIs
<1>7. jn.current # NoRecord
  BY <1>6, RecordsAre
<1>. QED BY <1>1, <1>5, <1>7 DEF JobReads

\* What is left to prove of the worker's step.
LEMMA JobGoesOn ==
    ASSUME PipelineInv, setup' = setup, begun' = begun, phase = "importing", phase' = phase,
           outcome' = outcome, attempts' = attempts, cpus' = cpus,
           NEW w \in Workers, job[w] # None, StoredWell, Spared(job[w].file),
           NEW jn, job' = [job EXCEPT ![w] = jn], JobOK(setup, vocab', shards', begun, jn),
           jn.file = job[w].file
    PROVE  PipelineInv'
<1>. DEFINE f == job[w].file
<1>1. /\ \A u \in Workers : u # w => job'[u] = job[u]
      /\ job'[w] = jn /\ job' = [u \in Workers |-> job'[u]]
  BY DEF PipelineInv, TypesOK
<1>2. TypesOK'
  BY <1>1 DEF PipelineInv, TypesOK, StoredWell
<1>3. AttemptsOK'
  BY DEF PipelineInv, AttemptsOK
<1>4. f \in Files /\ outcome[f] = "busy"
  BY DEF PipelineInv, JobsOK, JobOK, JobShape
<1>5. \A u \in Workers : job'[u] # None /\ u # w => job'[u].file # f
  BY <1>1 DEF PipelineInv, JobsOK
<1>6. JobsOK'
  <2>1. ASSUME NEW u \in Workers, job'[u] # None
        PROVE  /\ JobOK(setup, vocab', shards', begun, job'[u])
               /\ outcome[job'[u].file] = "busy"
    <3>1. CASE u = w
      BY <1>1, <1>4, <3>1
    <3>2. CASE u # w
      <4>1. JobOK(setup, vocab, shards, begun, job[u]) /\ outcome[job[u].file] = "busy"
        BY <1>1, <2>1, <3>2 DEF PipelineInv, JobsOK
      <4>2. job[u].file # f
        BY <1>1, <1>5, <2>1, <3>2
      <4>. QED BY <1>1, <3>2, <4>1, <4>2 DEF Spared
    <3>. QED BY <3>1, <3>2
  <2>2. ASSUME NEW u \in Workers, NEW x \in Workers, job'[u] # None, job'[x] # None, u # x
        PROVE  job'[u].file # job'[x].file
    <3>1. CASE u = w \/ x = w
      BY <1>1, <1>5, <2>2, <3>1
    <3>2. CASE u # w /\ x # w
      BY <1>1, <2>2, <3>2 DEF PipelineInv, JobsOK
    <3>. QED BY <3>1, <3>2
  <2>. QED BY <2>1, <2>2 DEF JobsOK
<1>7. StoreOK'
  BY DEF StoredWell, StoreOK
<1>8. DoneOK'
  BY DEF Spared, PipelineInv, DoneOK
<1>. QED BY <1>2, <1>3, <1>6, <1>7, <1>8 DEF PipelineInv

\* Nothing is stored.
LEMMA NothingStored ==
    ASSUME PipelineInv, vocab' = vocab, shards' = shards
    PROVE  StoredWell /\ \A f : Spared(f)
BY DEF PipelineInv, TypesOK, StoreOK, StoredWell, Spared

\* How far the job of w is.
LEMMA JobIs ==
    ASSUME PipelineInv, NEW w \in Workers, job[w] # None
    PROVE  LET f == job[w].file
               p == job[w].pos
           IN  /\ setup \in Setups /\ f \in Files /\ Size(setup, f) \in Nat
               /\ p \in 1 .. Size(setup, f) + 1 /\ p \in Nat
               /\ JobOK(setup, vocab, shards, begun, job[w]) /\ JobShape(setup, job[w])
               /\ JobReads(setup, job[w])
               /\ HasLine(w) <=> p \in 1 .. Size(setup, f)
               /\ HasLine(w) => p + 1 \in 1 .. Size(setup, f) + 1
               /\ ~ HasLine(w) => p = Size(setup, f) + 1
               /\ Line(w) = setup.input[f][p]
               /\ Accepted(Line(w)) <=> Takes(setup, setup.input[f][p])
<1>. DEFINE f == job[w].file
            p == job[w].pos
<1>1. setup \in Setups
  BY DEF PipelineInv, TypesOK
<1>2. JobOK(setup, vocab, shards, begun, job[w])
  BY DEF PipelineInv, JobsOK
<1>3. /\ JobShape(setup, job[w]) /\ JobReads(setup, job[w])
      /\ f \in Files /\ p \in 1 .. Size(setup, f) + 1
  BY <1>2 DEF JobOK, JobShape
<1>4. Size(setup, f) \in Nat
  BY <1>1, <1>3, LineIs
<1>5. HasLine(w) <=> p <= Size(setup, f)
  BY DEF HasLine, Size
<1>6. Line(w) = setup.input[f][p]
  BY DEF Line
<1>7. Accepted(Line(w)) <=> Takes(setup, setup.input[f][p])
  BY <1>1, <1>6, Same
<1>. HIDE DEF f, p
<1>. QED BY <1>1, <1>2, <1>3, <1>4, <1>5, <1>6, <1>7 DEF f, p

\* A line is skipped.
LEMMA SkipKeeps ==
    ASSUME PipelineInv, NEW w \in Workers, SkipLine(w), phase = "importing", phase' = phase,
           setup' = setup, cpus' = cpus, outcome' = outcome, attempts' = attempts,
           begun' = begun
    PROVE  PipelineInv'
<1>. DEFINE f == job[w].file
            p == job[w].pos
            c == job[w].current
            jn == Moved(job[w], p + 1, c)
<1>1. HasLine(w) /\ ~ Accepted(Line(w)) /\ job' = [job EXCEPT ![w] = Next1(w)]
  BY DEF SkipLine
<1>2. job[w] # None /\ vocab' = vocab /\ shards' = shards
  BY DEF SkipLine, HasLine
<1>3. /\ setup \in Setups /\ f \in Files /\ p \in 1 .. Size(setup, f)
      /\ p + 1 \in 1 .. Size(setup, f) + 1 /\ p # Size(setup, f) + 1
      /\ JobOK(setup, vocab, shards, begun, job[w]) /\ JobShape(setup, job[w])
      /\ JobReads(setup, job[w]) /\ ~ Takes(setup, setup.input[f][p])
  BY <1>1, <1>2, JobIs
<1>4. job' = [job EXCEPT ![w] = jn]
  BY <1>1, <1>3, MovesAre
<1>5. jn.file = f /\ jn.pos = p + 1 /\ jn.current = c
  BY <1>3, MovedIs
<1>6. /\ Taken(setup, f, p + 1) = Taken(setup, f, p) /\ Seen(setup, f, p + 1) = Seen(setup, f, p)
      /\ \A g : SoFar(setup, f, g, p + 1) = SoFar(setup, f, g, p)
  BY <1>3, LineSkipped
<1>. HIDE DEF jn
<1>7. JobReads(setup, jn)
  <2>1. c = NoRecord => Seen(setup, f, p) = {}
    BY <1>3 DEF JobReads
  <2>2. ASSUME c # NoRecord
        PROVE  \E l \in Taken(setup, f, p) :
                  /\ \A i \in Taken(setup, f, p) : i <= l
                  /\ c = [ngram |-> setup.input[f][l].ngram,
                          total |-> SoFar(setup, f, setup.input[f][l].ngram, p)]
    BY <1>3, <2>2 DEF JobReads
  <2>. QED BY <1>5, <1>6, <2>1, <2>2 DEF JobReads
<1>8. JobOK(setup, vocab, shards, begun, jn)
  <2>1. Seen(setup, f, p + 1) \ {c.ngram} = Behind(setup, job[w])
    BY <1>6 DEF Behind
  <2>. HIDE DEF c
  <2>. QED BY <1>3, <1>7, <2>1, JobMoves DEF jn
<1>9. StoredWell /\ Spared(f)
  BY <1>2, NothingStored
<1>. QED BY <1>2, <1>4, <1>5, <1>8, <1>9, JobGoesOn

\* A line is added to the current n-gram.
LEMMA AddKeeps ==
    ASSUME PipelineInv, NEW w \in Workers, AddLine(w), phase = "importing", phase' = phase,
           setup' = setup, cpus' = cpus, outcome' = outcome, attempts' = attempts,
           begun' = begun
    PROVE  PipelineInv'
<1>. DEFINE f == job[w].file
            p == job[w].pos
            c == job[w].current
            line == setup.input[f][p]
            h == line.ngram
            d == [ngram |-> h, total |-> SoFar(setup, f, h, p + 1)]
            jn == Moved(job[w], p + 1, d)
<1>1. /\ HasLine(w) /\ Accepted(Line(w)) /\ c.ngram = Line(w).ngram
      /\ job' = [job EXCEPT ![w] = [Next1(w) EXCEPT !.current.total = @ + Line(w).count]]
      /\ job[w] # None /\ vocab' = vocab /\ shards' = shards
  BY DEF AddLine, HasLine, SameNgram
<1>2. /\ setup \in Setups /\ f \in Files /\ p \in 1 .. Size(setup, f)
      /\ p + 1 \in 1 .. Size(setup, f) + 1
      /\ JobOK(setup, vocab, shards, begun, job[w]) /\ JobShape(setup, job[w])
      /\ JobReads(setup, job[w]) /\ Line(w) = line /\ Takes(setup, line)
  BY <1>1, JobIs
<1>3. c.ngram = h /\ h # <<>>
  <2>1. h \in Seen(setup, f, p + 1)
    BY <1>2, LineTaken
  <2>. QED BY <1>1, <1>2, <2>1, SeenIs
<1>4. c = [ngram |-> h, total |-> SoFar(setup, f, h, p)]
  <2>1. c # NoRecord
    BY <1>3, RecordsAre
  <2>2. PICK l \in Taken(setup, f, p) :
                 c = [ngram |-> setup.input[f][l].ngram,
                      total |-> SoFar(setup, f, setup.input[f][l].ngram, p)]
    BY <1>2, <2>1 DEF JobReads
  <2>. QED BY <1>3, <2>2
<1>5. /\ SoFar(setup, f, h, p + 1) = SoFar(setup, f, h, p) + line.count
      /\ Seen(setup, f, p + 1) = Seen(setup, f, p) \cup {h}
  <2>1. setup \in Setups /\ f \in Files /\ p \in 1 .. Size(setup, f) /\ Takes(setup, line)
    BY <1>2
  <2>. HIDE DEF f, p
  <2>. QED BY ONLY <2>1, LineTaken
<1>. HIDE DEF line
<1>6. job' = [job EXCEPT ![w] = jn]
  <2>. DEFINE je == [Next1(w) EXCEPT !.current.total = @ + Line(w).count]
  <2>1. je = Summed(Next1(w), line.count)
    BY <1>2, Zenon DEF Summed
  <2>. HIDE DEF d
  <2>2. Summed(Next1(w), line.count)
            = Moved(job[w], p + 1, [ngram |-> h, total |-> SoFar(setup, f, h, p) + line.count])
    <3>1. \A g, n, m : job[w].current = [ngram |-> g, total |-> n] =>
             Summed(Next1(w), m) = Moved(job[w], p + 1, [ngram |-> g, total |-> n + m])
      BY <1>2, MovesAre
    <3>2. job[w].current = [ngram |-> h, total |-> SoFar(setup, f, h, p)]
      BY <1>4
    <3>. DEFINE k == SoFar(setup, f, h, p)
    <3>. HIDE DEF h, k, p
    <3>. QED BY <3>1, <3>2, Zenon DEF k
  <2>3. Summed(Next1(w), line.count) = jn
    BY <1>5, <2>2 DEF d
  <2>4. job' = [job EXCEPT ![w] = je]
    BY <1>1
  <2>. HIDE DEF je, jn
  <2>. QED BY <2>1, <2>3, <2>4
<1>7. jn.file = f /\ jn.pos = p + 1 /\ jn.current = d
  BY <1>2, MovedIs
<1>8. d.ngram = h
  OBVIOUS
<1>. HIDE DEF jn
<1>9. JobReads(setup, jn)
  BY <1>2, <1>7, LineRead DEF line
<1>10. JobOK(setup, vocab, shards, begun, jn)
  <2>1. Seen(setup, f, p + 1) \ {d.ngram} = Behind(setup, job[w])
    BY <1>3, <1>5, <1>8 DEF Behind
  <2>. HIDE DEF d
  <2>. QED BY <1>2, <1>9, <2>1, JobMoves DEF jn
<1>11. StoredWell /\ Spared(f)
  BY <1>1, NothingStored
<1>. QED BY <1>1, <1>6, <1>7, <1>10, <1>11, JobGoesOn

\* The stored job goes on, as jm, beyond what it has stored.
LEMMA StoreKeeps ==
    ASSUME PipelineInv, phase = "importing", phase' = phase,
           setup' = setup, cpus' = cpus, outcome' = outcome, attempts' = attempts,
           begun' = begun, NEW w \in Workers, job[w] # None,
           NEW r \in Wanted(setup, job[w].file),
           job[w].current = [ngram |-> r, total |-> Whole(setup, job[w].file, r)],
           r \in Seen(setup, job[w].file, job[w].pos),
           NEW p \in 1 .. Size(setup, job[w].file) + 1, NEW c,
           JobReads(setup, Moved(job[w], p, c)),
           Seen(setup, job[w].file, p) \ {c.ngram} = Seen(setup, job[w].file, job[w].pos),
           Store(w, job[w].current, Moved(job[w], p, c))
    PROVE  PipelineInv'
<1>. DEFINE f == job[w].file
            j == Moved(job[w], p, c)
            G == Behind(setup, job[w])
            S == Seen(setup, f, job[w].pos)
<1>1. /\ setup \in Setups /\ f \in Files /\ TypesOK /\ StoreOK
      /\ JobOK(setup, vocab, shards, begun, job[w]) /\ JobShape(setup, job[w])
  BY JobIs DEF PipelineInv
<1>2. /\ j.file = f /\ j.pos = p /\ j.current = c /\ j.tx = job[w].tx
      /\ JobShape(setup, j)
  BY <1>1, MovedIs
<1>. HIDE DEF j
<1>3. G \in SUBSET Wanted(setup, f) /\ r \notin G /\ G \cup {r} = S
  <2>1. S \subseteq Wanted(setup, f) /\ G = S \ {r}
    BY <1>1, SeenIsWanted DEF Behind
  <2>. QED BY <2>1
<1>. HIDE DEF G
<1>4. JobTx(setup, vocab, f, j.tx) /\ JobKeeps(setup, vocab, shards, begun, f, j.tx, G)
  BY <1>1, <1>2 DEF JobOK, G
<1>5. Store(w, [ngram |-> r, total |-> Whole(setup, f, r)], j)
  BY DEF j
<1>6. StoredWell /\ Spared(f) /\ \E jn : JobStored(w, f, j, jn, G \cup {r})
  BY <1>1, <1>2, <1>3, <1>4, <1>5, StoreStep
<1>7. PICK jn : JobStored(w, f, j, jn, G \cup {r})
  BY <1>6
<1>8. /\ job' = [job EXCEPT ![w] = jn] /\ jn.file = f /\ jn.pos = p /\ jn.current = c
      /\ JobShape(setup, jn) /\ JobTx(setup, vocab', f, jn.tx)
      /\ JobKeeps(setup, vocab', shards', begun, f, jn.tx, S)
  BY <1>2, <1>3, <1>7 DEF JobStored
<1>9. JobReads(setup, jn)
  <2>1. JobReads(setup, j)
    BY DEF j
  <2>. QED BY <1>2, <1>8, <2>1 DEF JobReads
<1>10. Behind(setup, jn) = S
  BY <1>8 DEF Behind
<1>11. JobOK(setup, vocab', shards', begun, jn)
  BY <1>8, <1>9, <1>10 DEF JobOK
<1>. QED BY <1>1, <1>6, <1>8, <1>11, JobGoesOn

\* The first line of another n-gram.
LEMMA NextKeeps ==
    ASSUME PipelineInv, NEW w \in Workers, NextNgram(w), phase = "importing", phase' = phase,
           setup' = setup, cpus' = cpus, outcome' = outcome, attempts' = attempts,
           begun' = begun
    PROVE  PipelineInv'
<1>. DEFINE f == job[w].file
            p == job[w].pos
            c == job[w].current
            line == setup.input[f][p]
            h == line.ngram
            d == [ngram |-> h, total |-> SoFar(setup, f, h, p + 1)]
            jn == Moved(job[w], p + 1, d)
            je == [Next1(w) EXCEPT !.current = Record(line)]
<1>1. HasLine(w) /\ Accepted(Line(w)) /\ c.ngram # Line(w).ngram /\ job[w] # None
  BY DEF NextNgram, HasLine, SameNgram
<1>2. /\ setup \in Setups /\ f \in Files /\ p \in 1 .. Size(setup, f)
      /\ p + 1 \in 1 .. Size(setup, f) + 1 /\ p # Size(setup, f) + 1
      /\ JobOK(setup, vocab, shards, begun, job[w]) /\ JobShape(setup, job[w])
      /\ JobReads(setup, job[w]) /\ Line(w) = line /\ Takes(setup, line)
  BY <1>1, JobIs
<1>3. h \notin Seen(setup, f, p)
  <2>1. CASE c = NoRecord
    BY <1>2, <2>1 DEF JobReads
  <2>2. CASE c # NoRecord
    <3>1. PICK l \in Taken(setup, f, p) :
                /\ \A i \in Taken(setup, f, p) : i <= l
                /\ c = [ngram |-> setup.input[f][l].ngram,
                        total |-> SoFar(setup, f, setup.input[f][l].ngram, p)]
      BY <1>2, <2>2 DEF JobReads
    <3>2. setup.input[f][l].ngram # h
      <4>. DEFINE g == setup.input[f][l].ngram
                  n == SoFar(setup, f, g, p)
      <4>1. c = [ngram |-> g, total |-> n] /\ c.ngram # h
        BY <1>1, <1>2, <3>1
      <4>. HIDE DEF g, n, h, c
      <4>2. g # h
        BY <4>1
      <4>. QED BY <4>2 DEF g
    <3>. QED BY <1>2, <3>1, <3>2, Contiguous
  <2>. QED BY <2>1, <2>2
<1>4. /\ SoFar(setup, f, h, p + 1) = SoFar(setup, f, h, p) + line.count
      /\ Seen(setup, f, p + 1) = Seen(setup, f, p) \cup {h}
  <2>1. setup \in Setups /\ f \in Files /\ p \in 1 .. Size(setup, f) /\ Takes(setup, line)
    BY <1>2
  <2>. HIDE DEF f, p
  <2>. QED BY ONLY <2>1, LineTaken
<1>5. SoFar(setup, f, h, p) = 0 /\ line.count \in Nat
  BY <1>2, <1>3, SoFarUnseen, LineIs
<1>. HIDE DEF line
<1>6. Record(line) = d
  BY <1>4, <1>5, RecordsAre
<1>7. je = jn
  <2>1. je = Turned(Next1(w), Record(line))
    BY Zenon DEF Turned
  <2>. HIDE DEF je, d
  <2>. QED BY <1>2, <1>6, <2>1, MovesAre
<1>8. jn.file = f /\ jn.pos = p + 1 /\ jn.current = d
  BY <1>2, MovedIs
<1>9. d.ngram = h
  OBVIOUS
<1>. HIDE DEF jn
<1>10. JobReads(setup, jn)
  BY <1>2, <1>8, LineRead DEF line
<1>11. IF c = NoRecord THEN job' = [job EXCEPT ![w] = jn] /\ vocab' = vocab /\ shards' = shards
                       ELSE Store(w, c, jn)
  <2>1. IF c = NoRecord THEN job' = [job EXCEPT ![w] = je] /\ UNCHANGED <<vocab, shards>>
                        ELSE Store(w, c, je)
    BY <1>2 DEF NextNgram
  <2>. HIDE DEF je
  <2>. QED BY <1>7, <2>1
<1>. HIDE DEF d
<1>12. CASE c = NoRecord
  <2>1. Seen(setup, f, p) = {}
    BY <1>2, <1>12 DEF JobReads
  <2>2. Seen(setup, f, p + 1) \ {d.ngram} = Behind(setup, job[w])
    BY <1>4, <1>9, <2>1 DEF Behind
  <2>3. JobOK(setup, vocab, shards, begun, jn)
    BY <1>2, <1>10, <2>2, JobMoves DEF jn
  <2>4. job' = [job EXCEPT ![w] = jn] /\ vocab' = vocab /\ shards' = shards
    BY <1>11, <1>12
  <2>5. StoredWell /\ Spared(f)
    BY <2>4, NothingStored
  <2>. QED BY <1>1, <1>8, <2>3, <2>4, <2>5, JobGoesOn
<1>13. CASE c # NoRecord
  <2>1. PICK l \in Taken(setup, f, p) :
                /\ \A i \in Taken(setup, f, p) : i <= l
                /\ c = [ngram |-> setup.input[f][l].ngram,
                        total |-> SoFar(setup, f, setup.input[f][l].ngram, p)]
    BY <1>2, <1>13 DEF JobReads
  <2>. DEFINE r == setup.input[f][l].ngram
  <2>2. r # h
    BY <1>1, <1>2, <2>1
  <2>3. r \in Seen(setup, f, p) /\ r \in Wanted(setup, f)
    BY <1>2, SeenIsWanted DEF Seen
  <2>4. c = [ngram |-> r, total |-> Whole(setup, f, r)]
    BY <1>2, <2>1, <2>2, Contiguous DEF line
  <2>. HIDE DEF r
  <2>5. Seen(setup, f, p + 1) \ {d.ngram} = Seen(setup, f, p)
    BY <1>3, <1>4, <1>9
  <2>6. Store(w, c, jn)
    BY <1>11, <1>13
  <2>. QED BY <1>1, <1>2, <1>10, <2>3, <2>4, <2>5, <2>6, StoreKeeps DEF jn
<1>. QED BY <1>12, <1>13

\* The lines are over.
LEMMA FlushKeeps ==
    ASSUME PipelineInv, NEW w \in Workers, Flush(w), phase = "importing", phase' = phase,
           setup' = setup, cpus' = cpus, outcome' = outcome, attempts' = attempts,
           begun' = begun
    PROVE  PipelineInv'
<1>. DEFINE f == job[w].file
            p == job[w].pos
            c == job[w].current
            jn == Moved(job[w], p, NoRecord)
<1>1. /\ ~ HasLine(w) /\ job[w] # None /\ c # NoRecord
      /\ Store(w, c, [job[w] EXCEPT !.current = NoRecord])
  BY DEF Flush, AtEnd
<1>2. /\ setup \in Setups /\ f \in Files /\ p = Size(setup, f) + 1
      /\ p \in 1 .. Size(setup, f) + 1
      /\ JobOK(setup, vocab, shards, begun, job[w]) /\ JobShape(setup, job[w])
      /\ JobReads(setup, job[w])
  BY <1>1, JobIs
<1>3. Store(w, c, jn)
  <2>. DEFINE je == [job[w] EXCEPT !.current = NoRecord]
  <2>1. je = jn
    <3>1. je = Turned(job[w], NoRecord)
      BY Zenon DEF Turned
    <3>. HIDE DEF je
    <3>. QED BY <1>2, <3>1, MovesAre
  <2>2. Store(w, c, je)
    BY <1>1
  <2>. HIDE DEF je
  <2>. QED BY <2>1, <2>2
<1>4. jn.file = f /\ jn.pos = p /\ jn.current = NoRecord
  BY <1>2, MovedIs
<1>. HIDE DEF jn
<1>5. JobReads(setup, jn)
  BY <1>2, <1>4 DEF JobReads
<1>6. PICK l \in Taken(setup, f, p) :
                c = [ngram |-> setup.input[f][l].ngram,
                     total |-> SoFar(setup, f, setup.input[f][l].ngram, p)]
  BY <1>1, <1>2 DEF JobReads
<1>. DEFINE r == setup.input[f][l].ngram
<1>7. r \in Seen(setup, f, p) /\ r \in Wanted(setup, f)
  BY <1>2, SeenIsWanted DEF Seen
<1>8. c = [ngram |-> r, total |-> Whole(setup, f, r)]
  BY <1>2, <1>6 DEF Whole
<1>. HIDE DEF r
<1>9. Seen(setup, f, p) \ {NoRecord.ngram} = Seen(setup, f, p)
  <2>1. <<>> \notin Seen(setup, f, p)
    BY <1>2, SeenIs
  <2>. QED BY <2>1, RecordsAre
<1>. QED BY <1>1, <1>2, <1>3, <1>5, <1>7, <1>8, <1>9, StoreKeeps DEF jn

---------------------------------------------------------------------------
(* A file begins and ends. *)

\* One more attempt.
LEMMA BegunGrows ==
    ASSUME NEW b \in [Files -> Nat], NEW d \in [Files -> Nat], \A f \in Files : b[f] <= d[f],
           NEW s, NEW c, NEW v, NEW sh
    PROVE  /\ KeysOK(s, c, v, sh, b) => KeysOK(s, c, v, sh, d)
           /\ MultiplesOK(s, v, sh, b) => MultiplesOK(s, v, sh, d)
           /\ \A j : JobOK(s, v, sh, b, j) => JobOK(s, v, sh, d, j)
<1>1. \A f \in Files : b[f] > 0 => d[f] > 0
  OBVIOUS
<1>2. KeysOK(s, c, v, sh, b) => KeysOK(s, c, v, sh, d)
  BY <1>1 DEF KeysOK
<1>3. \A f \in Files : 0 .. b[f] \subseteq 0 .. d[f] /\ 0 .. b[f] - 1 \subseteq 0 .. d[f] - 1
  OBVIOUS
<1>4. MultiplesOK(s, v, sh, b) => MultiplesOK(s, v, sh, d)
  BY <1>3 DEF MultiplesOK
<1>5. ASSUME NEW j, JobOK(s, v, sh, b, j) PROVE JobOK(s, v, sh, d, j)
  <2>1. j.file \in Files /\ JobKeeps(s, v, sh, b, j.file, j.tx, Behind(s, j))
    BY <1>5 DEF JobOK, JobShape
  <2>2. JobKeeps(s, v, sh, d, j.file, j.tx, Behind(s, j))
    BY <1>1, <1>3, <2>1 DEF JobKeeps
  <2>. QED BY <1>5, <2>2 DEF JobOK
<1>. QED BY <1>2, <1>4, <1>5

\* An empty transaction.
LEMMA NoTx ==
    ASSUME NEW s, NEW v, NEW f
    PROVE  JobTx(s, v, f, <<>>) /\ DOMAIN <<>> = {}
<1>1. DOMAIN <<>> = {}
  OBVIOUS
<1>. QED BY <1>1, FS_EmptySet DEF JobTx

\* A job that has just begun.
NewJob(f) == [file |-> f, pos |-> 1, current |-> NoRecord, tx |-> <<>>, chunk |-> 0]

\* It has stored nothing in this attempt.
LEMMA NewJobOK ==
    ASSUME NEW s \in Setups, NEW v, NEW sh, NEW sp, NEW b \in [Files -> Nat],
           NEW d \in [Files -> Nat], NEW f \in Files, d[f] = b[f] + 1,
           MultiplesOK(s, v, sh, b), ~ Tx(s) => sp = sh
    PROVE  JobOK(s, v, sp, d, NewJob(f)) /\ NewJob(f).file = f
<1>. DEFINE j == NewJob(f)
<1>1. /\ j.file = f /\ j.pos = 1 /\ j.current = NoRecord /\ j.tx = <<>> /\ j.chunk = 0
      /\ j = [file |-> f, pos |-> 1, current |-> NoRecord, tx |-> <<>>, chunk |-> 0]
  BY DEF NewJob
<1>. HIDE DEF j
<1>2. JobShape(s, j)
  BY <1>1, LineIs DEF JobShape
<1>3. Seen(s, f, 1) = {}
  <2>1. Taken(s, f, 1) = {}
    BY LineIs DEF Taken
  <2>. QED BY <2>1 DEF Seen
<1>4. JobReads(s, j)
  BY <1>1, <1>3 DEF JobReads
<1>5. JobTx(s, v, f, j.tx)
  BY <1>1, NoTx
<1>6. Behind(s, j) = {}
  BY <1>1, <1>3 DEF Behind
<1>7. JobKeeps(s, v, sp, d, f, j.tx, {})
  <2>1. d[f] > 0 /\ d[f] - 1 = b[f]
    OBVIOUS
  <2>2. ASSUME ~ Tx(s), NEW g \in Wanted(s, f)
        PROVE  \E n \in 0 .. d[f] - 1 : Has(v, sp, g) = n * Whole(s, f, g)
    BY <2>1, <2>2 DEF MultiplesOK
  <2>. QED BY <2>1, <2>2 DEF JobKeeps
<1>8. JobOK(s, v, sp, d, j)
  BY <1>1, <1>2, <1>4, <1>5, <1>6, <1>7 DEF JobOK
<1>. QED BY <1>1, <1>8 DEF j

\* A file is begun.
LEMMA StartKeeps ==
    ASSUME PipelineInv, NEW w \in Workers, NEW f \in Files, StartFile(w, f)
    PROVE  PipelineInv'
<1>. DEFINE jn == NewJob(f)
<1>1. /\ phase = "importing" /\ job[w] = None /\ outcome[f] = "todo"
      /\ job' = [job EXCEPT ![w] = jn]
      /\ outcome' = [outcome EXCEPT ![f] = "busy"]
      /\ attempts' = [attempts EXCEPT ![f] = @ + 1]
      /\ begun' = [begun EXCEPT ![f] = @ + 1]
      /\ setup' = setup /\ cpus' = cpus /\ vocab' = vocab /\ phase' = phase
  BY DEF StartFile, NewJob
<1>. HIDE DEF jn
<1>2. TypesOK /\ AttemptsOK /\ JobsOK /\ StoreOK /\ DoneOK
  BY DEF PipelineInv
<1>3. /\ setup \in Setups /\ vocab \in Vocabularies(Words) /\ begun \in [Files -> Nat]
      /\ attempts \in [Files -> Nat] /\ Tries(shards)
      /\ KeysOK(setup, cpus, vocab, shards, begun) /\ MultiplesOK(setup, vocab, shards, begun)
  BY <1>2 DEF TypesOK, StoreOK
<1>4. /\ begun' \in [Files -> Nat] /\ begun'[f] = begun[f] + 1
      /\ \A e \in Files : e # f => begun'[e] = begun[e]
      /\ attempts' \in [Files -> Nat] /\ attempts'[f] = attempts[f] + 1
      /\ \A e \in Files : e # f => attempts'[e] = attempts[e]
  BY <1>1, <1>3
<1>5. \A e \in Files : begun[e] <= begun'[e]
  BY <1>3, <1>4
<1>6. TypesOK'
  BY <1>1, <1>2, <1>4 DEF TypesOK
<1>7. AttemptsOK'
  <2>1. attempts[f] < MaxAttempts /\ attempts[f] <= begun[f]
    BY <1>1, <1>2 DEF AttemptsOK
  <2>2. \A e \in Files : attempts'[e] <= MaxAttempts /\ attempts'[e] <= begun'[e]
    BY <1>2, <1>3, <1>4, <2>1, NumbersAssumption DEF AttemptsOK
  <2>3. \A e \in Files : outcome'[e] = "todo" => e # f /\ outcome[e] = "todo"
    BY <1>1, <1>2 DEF TypesOK
  <2>4. \A e \in Files : outcome'[e] = "todo" => attempts'[e] < MaxAttempts
    BY <1>1, <1>2, <1>4, <2>3 DEF AttemptsOK
  <2>. QED BY <2>2, <2>4 DEF AttemptsOK
<1>8. /\ KeysOK(setup, cpus, vocab, shards, begun')
      /\ MultiplesOK(setup, vocab, shards, begun')
      /\ \A j : JobOK(setup, vocab, shards, begun, j) => JobOK(setup, vocab, shards, begun', j)
  BY <1>3, <1>4, <1>5, BegunGrows
<1>9. /\ Tries(shards') /\ KeysOK(setup, cpus, vocab, shards', begun')
      /\ MultiplesOK(setup, vocab, shards', begun')
      /\ ~ Tx(setup) => shards' = shards
      /\ Tx(setup) => \A k : DOMAIN Trie(shards, k) \subseteq DOMAIN Trie(shards', k)
  <2>1. CASE Tx(setup)
    <3>1. shards' = Put(shards, Home(setup, f), Overlaid(<<>>, Trie(shards, Home(setup, f))))
      <4>1. HasTx /\ TxShard(f) = Home(setup, f) /\ Shard(Home(setup, f)) = Trie(shards, Home(setup, f))
        BY <1>3, <2>1, Same
      <4>. QED BY <4>1 DEF StartFile, CommitTx
    <3>2. Committed(setup, cpus, vocab, shards, shards', begun', f, <<>>)
      <4>1. JobTx(setup, vocab, f, <<>>) /\ begun'[f] > 0
        BY <1>3, <1>4, NoTx
      <4>. QED BY <1>3, <1>8, <2>1, <3>1, <4>1, Commits
    <3>. QED BY <2>1, <3>2 DEF Committed, MultiplesOK
  <2>2. CASE ~ Tx(setup)
    <3>1. shards' = shards
      BY <1>3, <2>2, Same DEF StartFile
    <3>. QED BY <1>3, <1>8, <2>2, <3>1
  <2>. QED BY <2>1, <2>2
<1>10. ASSUME NEW j, JobOK(setup, vocab, shards, begun, j)
       PROVE  JobOK(setup, vocab, shards', begun', j)
  <2>1. JobOK(setup, vocab, shards, begun', j)
    BY <1>8, <1>10
  <2>2. CASE Tx(setup)
    <3>1. j.file \in Files
      BY <2>1 DEF JobOK, JobShape
    <3>2. JobKeeps(setup, vocab, shards', begun', j.file, j.tx, Behind(setup, j))
      BY <1>3, <1>9, <2>1, <2>2, <3>1, KeepsMore DEF JobOK
    <3>. QED BY <2>1, <3>2 DEF JobOK
  <2>. QED BY <1>9, <2>1, <2>2
<1>11. JobOK(setup, vocab, shards', begun', jn) /\ jn.file = f
  BY <1>3, <1>4, <1>9, NewJobOK DEF jn
<1>12. JobsOK'
  <2>1. /\ \A u \in Workers : u # w => job'[u] = job[u]
        /\ job'[w] = jn
    BY <1>1, <1>2 DEF TypesOK
  <2>2. \A e \in Files : e # f => outcome'[e] = outcome[e]
    BY <1>1, <1>2 DEF TypesOK
  <2>3. outcome'[f] = "busy"
    BY <1>1, <1>2 DEF TypesOK
  <2>4. \A u \in Workers : u # w /\ job[u] # None =>
            /\ job[u].file # f /\ outcome[job[u].file] = "busy"
            /\ job[u].file \in Files /\ JobOK(setup, vocab, shards, begun, job[u])
    BY <1>1, <1>2 DEF JobsOK, JobOK, JobShape
  <2>5. ASSUME NEW u \in Workers, job'[u] # None
        PROVE  /\ JobOK(setup, vocab, shards', begun', job'[u])
               /\ outcome'[job'[u].file] = "busy"
    <3>1. CASE u = w
      BY <1>11, <2>1, <2>3, <3>1
    <3>2. CASE u # w
      BY <1>10, <2>1, <2>2, <2>4, <2>5, <3>2
    <3>. QED BY <3>1, <3>2
  <2>6. ASSUME NEW u \in Workers, NEW x \in Workers, job'[u] # None, job'[x] # None, u # x
        PROVE  job'[u].file # job'[x].file
    <3>1. CASE u = w
      BY <1>11, <2>1, <2>4, <2>6, <3>1
    <3>2. CASE x = w
      BY <1>11, <2>1, <2>4, <2>6, <3>2
    <3>3. CASE u # w /\ x # w
      BY <1>2, <2>1, <2>6, <3>3 DEF JobsOK
    <3>. QED BY <3>1, <3>2, <3>3
  <2>. QED BY <1>1, <2>5, <2>6 DEF JobsOK
<1>13. StoreOK'
  BY <1>1, <1>9 DEF StoreOK
<1>14. DoneOK'
  <2>1. ASSUME NEW e \in Files, outcome'[e] = "done", NEW g \in Wanted(setup, e)
        PROVE  KeptIn(setup, vocab, shards', <<>>, e, g)
    <3>1. outcome[e] = "done"
      BY <1>1, <1>2, <2>1 DEF TypesOK
    <3>2. KeptIn(setup, vocab, shards, <<>>, e, g)
      BY <1>2, <3>1 DEF DoneOK
    <3>. QED BY <1>9, <3>2 DEF KeptIn
  <2>. QED BY <1>1, <2>1 DEF DoneOK
<1>. QED BY <1>6, <1>7, <1>12, <1>13, <1>14 DEF PipelineInv

\* A worker leaves its file.
LEMMA JobEnds ==
    ASSUME PipelineInv, setup' = setup, begun' = begun, phase = "importing", phase' = phase,
           attempts' = attempts, cpus' = cpus, vocab' = vocab,
           NEW w \in Workers, job[w] # None, StoredWell, Spared(job[w].file),
           job' = [job EXCEPT ![w] = None], NEW x \in {"todo", "done", "failed"},
           outcome' = [outcome EXCEPT ![job[w].file] = x],
           x = "todo" => attempts[job[w].file] < MaxAttempts,
           x = "done" => \A g \in Wanted(setup, job[w].file) :
                             KeptIn(setup, vocab, shards', <<>>, job[w].file, g)
    PROVE  PipelineInv'
<1>. DEFINE f == job[w].file
<1>1. TypesOK /\ AttemptsOK /\ JobsOK /\ StoreOK /\ DoneOK
  BY DEF PipelineInv
<1>2. f \in Files
  BY <1>1 DEF JobsOK, JobOK, JobShape
<1>3. /\ \A u \in Workers : u # w => job'[u] = job[u]
      /\ job'[w] = None /\ job' = [u \in Workers |-> job'[u]]
  BY <1>1 DEF TypesOK
<1>4. /\ \A e \in Files : e # f => outcome'[e] = outcome[e]
      /\ outcome'[f] = x /\ outcome' \in [Files -> {"todo", "busy", "done", "failed"}]
  BY <1>1, <1>2 DEF TypesOK
<1>5. TypesOK'
  BY <1>1, <1>3, <1>4 DEF TypesOK, StoredWell
<1>6. AttemptsOK'
  BY <1>1, <1>4 DEF AttemptsOK
<1>7. \A u \in Workers : job'[u] # None => u # w /\ job[u] # None /\ job[u].file # f
  BY <1>1, <1>3 DEF JobsOK
<1>8. JobsOK'
  <2>1. ASSUME NEW u \in Workers, job'[u] # None
        PROVE  /\ JobOK(setup, vocab', shards', begun, job'[u])
               /\ outcome'[job'[u].file] = "busy"
    <3>1. /\ JobOK(setup, vocab, shards, begun, job[u]) /\ outcome[job[u].file] = "busy"
          /\ job'[u] = job[u] /\ job[u].file # f
      BY <1>1, <1>3, <1>7, <2>1 DEF JobsOK
    <3>2. job[u].file \in Files
      BY <3>1 DEF JobOK, JobShape
    <3>. QED BY <1>4, <3>1, <3>2 DEF Spared
  <2>2. ASSUME NEW u \in Workers, NEW y \in Workers, job'[u] # None, job'[y] # None, u # y
        PROVE  job'[u].file # job'[y].file
    BY <1>1, <1>3, <1>7, <2>2 DEF JobsOK
  <2>. QED BY <2>1, <2>2 DEF JobsOK
<1>9. StoreOK'
  BY DEF StoredWell, StoreOK
<1>10. DoneOK'
  <2>1. ASSUME NEW e \in Files, outcome'[e] = "done", NEW g \in Wanted(setup, e)
        PROVE  KeptIn(setup, vocab, shards', <<>>, e, g)
    <3>1. CASE e = f
      BY <1>4, <2>1, <3>1
    <3>2. CASE e # f
      BY <1>1, <1>4, <2>1, <3>2 DEF Spared, DoneOK
    <3>. QED BY <3>1, <3>2
  <2>. QED BY <2>1 DEF DoneOK
<1>. QED BY <1>5, <1>6, <1>8, <1>9, <1>10 DEF PipelineInv

\* A file is finished: what was behind the job is all.
LEMMA FinishKeeps ==
    ASSUME PipelineInv, NEW w \in Workers, FinishFile(w)
    PROVE  PipelineInv'
<1>. DEFINE f == job[w].file
            tx == job[w].tx
<1>1. /\ phase = "importing" /\ phase' = phase /\ job[w] # None /\ ~ HasLine(w)
      /\ job[w].current = NoRecord
      /\ job' = [job EXCEPT ![w] = None] /\ outcome' = [outcome EXCEPT ![f] = "done"]
      /\ IF HasTx THEN CommitTx(f, tx) ELSE shards' = shards
      /\ setup' = setup /\ begun' = begun /\ attempts' = attempts /\ cpus' = cpus
      /\ vocab' = vocab
  BY DEF FinishFile, Flushed, AtEnd
<1>2. /\ setup \in Setups /\ f \in Files /\ job[w].pos = Size(setup, f) + 1
      /\ JobOK(setup, vocab, shards, begun, job[w])
  BY <1>1, JobIs
<1>3. TypesOK /\ StoreOK
  BY DEF PipelineInv
<1>4. /\ JobTx(setup, vocab, f, tx) /\ begun[f] > 0
      /\ JobKeeps(setup, vocab, shards, begun, f, tx, Wanted(setup, f))
  <2>1. Behind(setup, job[w]) = Wanted(setup, f)
    <3>1. <<>> \notin Wanted(setup, f)
      BY <1>2, WantedIs
    <3>. QED BY <1>1, <1>2, <3>1, RecordsAre DEF Behind, Wanted
  <2>. QED BY <1>2, <2>1 DEF JobOK, JobKeeps
<1>5. StoredWell /\ Spared(f) /\ \A g \in Wanted(setup, f) : KeptIn(setup, vocab, shards', <<>>, f, g)
  <2>1. CASE Tx(setup)
    <3>1. shards' = Put(shards, Home(setup, f), Overlaid(tx, Trie(shards, Home(setup, f))))
      <4>1. HasTx /\ TxShard(f) = Home(setup, f) /\ Shard(Home(setup, f)) = Trie(shards, Home(setup, f))
        BY <1>2, <2>1, Same
      <4>. QED BY <1>1, <4>1 DEF CommitTx
    <3>2. Committed(setup, cpus, vocab, shards, shards', begun, f, tx)
      BY <1>2, <1>3, <1>4, <2>1, <3>1, Commits DEF TypesOK, StoreOK
    <3>3. StoredWell /\ Spared(f)
      BY <1>1, <1>2, <1>3, <2>1, <3>2, CommitSpares
    <3>4. JobKeeps(setup, vocab, shards', begun, f, <<>>, Wanted(setup, f))
      <4>1. /\ \A k : DOMAIN Trie(shards, k) \subseteq DOMAIN Trie(shards', k)
            /\ DOMAIN tx \subseteq DOMAIN <<>> \cup DOMAIN Trie(shards', Home(setup, f))
        BY <3>2 DEF Committed
      <4>. QED BY <1>2, <1>4, <2>1, <4>1, KeepsMore
    <3>. QED BY <3>3, <3>4 DEF JobKeeps
  <2>2. CASE ~ Tx(setup)
    <3>1. shards' = shards
      BY <1>1, <1>2, <2>2, Same
    <3>2. StoredWell /\ Spared(f)
      BY <1>1, <3>1, NothingStored
    <3>3. \A g \in Wanted(setup, f) : KeptIn(setup, vocab, shards', <<>>, f, g)
      BY <1>4, <2>2, <3>1 DEF JobKeeps, KeptIn
    <3>. QED BY <3>2, <3>3
  <2>. QED BY <2>1, <2>2
<1>. QED BY <1>1, <1>5, JobEnds

\* An attempt fails.
LEMMA FailKeeps ==
    ASSUME PipelineInv, NEW w \in Workers, FailFile(w)
    PROVE  PipelineInv'
<1>. DEFINE f == job[w].file
            x == IF attempts[f] < MaxAttempts THEN "todo" ELSE "failed"
<1>1. /\ phase = "importing" /\ phase' = phase /\ job[w] # None
      /\ job' = [job EXCEPT ![w] = None] /\ outcome' = [outcome EXCEPT ![f] = x]
      /\ setup' = setup /\ begun' = begun /\ attempts' = attempts /\ cpus' = cpus
      /\ vocab' = vocab /\ shards' = shards
  BY DEF FailFile
<1>2. StoredWell /\ Spared(f)
  BY <1>1, NothingStored
<1>3. x \in {"todo", "done", "failed"} /\ x # "done" /\ (x = "todo" => attempts[f] < MaxAttempts)
  OBVIOUS
<1>. HIDE DEF x
<1>. QED BY <1>1, <1>2, <1>3, JobEnds

---------------------------------------------------------------------------
(* The other steps. *)

\* The reading steps of a worker.
LEMMA ReadKeeps ==
    ASSUME PipelineInv, NEW w \in Workers, ReadFile(w)
    PROVE  PipelineInv'
<1>1. /\ phase = "importing" /\ phase' = phase
      /\ setup' = setup /\ cpus' = cpus /\ outcome' = outcome /\ attempts' = attempts
      /\ begun' = begun
      /\ SkipLine(w) \/ AddLine(w) \/ NextNgram(w) \/ Flush(w)
  BY DEF ReadFile
<1>2. CASE SkipLine(w)
  BY <1>1, <1>2, SkipKeeps
<1>3. CASE AddLine(w)
  BY <1>1, <1>3, AddKeeps
<1>4. CASE NextNgram(w)
  BY <1>1, <1>4, NextKeeps
<1>5. CASE Flush(w)
  BY <1>1, <1>5, FlushKeeps
<1>. QED BY <1>1, <1>2, <1>3, <1>4, <1>5

\* The steps that import nothing and keep the shards and the ledger's files.
LEMMA QuietKeeps ==
    ASSUME PipelineInv, setup' = setup, cpus' = cpus, vocab' = vocab, shards' = shards,
           UNCHANGED importing,
           \/ phase' = phase
           \/ /\ phase' \in {"counting", "following", "saving", "saved", "finished"}
              /\ \A w \in Workers : job[w] = None
    PROVE  PipelineInv'
<1>1. outcome' = outcome /\ attempts' = attempts /\ begun' = begun /\ job' = job
  BY DEF importing
<1>2. TypesOK /\ AttemptsOK /\ JobsOK /\ StoreOK /\ DoneOK
  BY DEF PipelineInv
<1>3. TypesOK'
  BY <1>1, <1>2 DEF TypesOK, Phases
<1>4. AttemptsOK'
  BY <1>1, <1>2 DEF AttemptsOK
<1>5. JobsOK'
  BY <1>1, <1>2 DEF JobsOK
<1>6. StoreOK'
  BY <1>1, <1>2 DEF StoreOK
<1>7. DoneOK'
  BY <1>1, <1>2 DEF DoneOK
<1>. QED BY <1>3, <1>4, <1>5, <1>6, <1>7 DEF PipelineInv

\* The statistics.
LEMMA ComputeKeeps ==
    ASSUME PipelineInv, ComputeMkn
    PROVE  PipelineInv'
<1>1. phase # "importing" => \A w \in Workers : job[w] = None
  BY DEF PipelineInv, JobsOK
<1>2. CASE StartFinalize
  BY <1>2, QuietKeeps DEF StartFinalize
<1>3. CASE CountTrie
  BY <1>1, <1>3, QuietKeeps DEF CountTrie
<1>4. CASE EndCounting
  BY <1>1, <1>4, QuietKeeps DEF EndCounting
<1>5. CASE NextOrder
  BY <1>1, <1>5, QuietKeeps DEF NextOrder
<1>6. ASSUME NEW k \in todo, CountShard(k) PROVE PipelineInv'
  BY <1>6, QuietKeeps DEF CountShard
<1>7. ASSUME NEW k \in todo, FollowShard(k) PROVE PipelineInv'
  BY <1>7, QuietKeeps DEF FollowShard
<1>8. CASE SaveStats
  BY <1>1, <1>8, QuietKeeps DEF SaveStats
<1>9. CASE CompleteMkn
  BY <1>1, <1>9, QuietKeeps DEF CompleteMkn
<1>10. ASSUME NEW k \in todo, SkipShard(k) PROVE PipelineInv'
  BY <1>10, QuietKeeps DEF SkipShard
<1>. QED BY <1>2, <1>3, <1>4, <1>5, <1>6, <1>7, <1>8, <1>9, <1>10 DEF ComputeMkn

\* The merge; at its end the shards may be deleted.
LEMMA MergeKeeps ==
    ASSUME PipelineInv, Merge
    PROVE  PipelineInv'
<1>1. TypesOK /\ AttemptsOK /\ JobsOK /\ StoreOK /\ DoneOK
  BY DEF PipelineInv
<1>2. CASE CleanupCheckpoint
  <2>1. /\ phase = "finished" /\ phase' \in {"merging", "ended"}
        /\ outcome' = [f \in Files |-> "todo"]
        /\ setup' = setup /\ cpus' = cpus /\ vocab' = vocab /\ shards' = shards
        /\ attempts' = attempts /\ begun' = begun /\ job' = job
    BY <1>2 DEF CleanupCheckpoint
  <2>2. \A w \in Workers : job'[w] = None
    BY <1>1, <2>1 DEF JobsOK
  <2>3. TypesOK'
    BY <1>1, <2>1 DEF TypesOK, Phases
  <2>4. AttemptsOK'
    BY <1>1, <2>1 DEF AttemptsOK
  <2>5. JobsOK'
    BY <2>2 DEF JobsOK
  <2>6. StoreOK'
    BY <1>1, <2>1 DEF StoreOK
  <2>7. DoneOK'
    BY <2>1 DEF DoneOK
  <2>. QED BY <2>3, <2>4, <2>5, <2>6, <2>7 DEF PipelineInv
<1>3. ASSUME NEW k \in todo, MergeShard(k) PROVE PipelineInv'
  BY <1>3, QuietKeeps DEF MergeShard
<1>4. CASE EndMerge
  <2>1. /\ phase = "merging" /\ phase' = "ended" /\ shards' \in {shards, <<>>}
        /\ setup' = setup /\ cpus' = cpus /\ vocab' = vocab
        /\ outcome' = outcome /\ attempts' = attempts /\ begun' = begun /\ job' = job
    BY <1>4 DEF EndMerge, importing
  <2>2. \A w \in Workers : job'[w] = None
    BY <1>1, <2>1 DEF JobsOK
  <2>3. TypesOK'
    BY <1>1, <2>1 DEF TypesOK, Phases
  <2>4. AttemptsOK'
    BY <1>1, <2>1 DEF AttemptsOK
  <2>5. JobsOK'
    BY <2>2 DEF JobsOK
  <2>6. StoreOK'
    <3>1. CASE shards' = shards
      BY <1>1, <2>1, <3>1 DEF StoreOK
    <3>2. CASE shards' = <<>>
      <4>1. setup \in Setups /\ begun \in [Files -> Nat]
        BY <1>1 DEF TypesOK
      <4>2. Tries(shards')
        BY <3>2, NoTries
      <4>3. KeysOK(setup, cpus, vocab, shards', begun)
        BY <3>2 DEF KeysOK
      <4>4. MultiplesOK(setup, vocab, shards', begun)
        <5>1. ASSUME NEW f \in Files, NEW g \in Wanted(setup, f)
              PROVE  \E n \in 0 .. begun[f] : Has(vocab, shards', g) = n * Whole(setup, f, g)
          <6>1. 0 \in 0 .. begun[f] /\ Whole(setup, f, g) \in Nat
            BY <4>1, WholeIs
          <6>2. 0 * Whole(setup, f, g) = 0
            BY <6>1
          <6>. QED BY <3>2, <6>1, <6>2, NoTries
        <5>. QED BY <5>1 DEF MultiplesOK
      <4>. QED BY <2>1, <4>2, <4>3, <4>4 DEF StoreOK
    <3>. QED BY <2>1, <3>1, <3>2
  <2>7. DoneOK'
    BY <1>1, <2>1 DEF DoneOK
  <2>. QED BY <2>3, <2>4, <2>5, <2>6, <2>7 DEF PipelineInv
<1>. QED BY <1>2, <1>3, <1>4 DEF Merge

\* A session ends.
LEMMA EndKeeps ==
    ASSUME PipelineInv, EndSession
    PROVE  PipelineInv'
<1>1. TypesOK /\ AttemptsOK /\ JobsOK /\ StoreOK /\ DoneOK
  BY DEF PipelineInv
<1>2. /\ phase' = "over" /\ job' = [w \in Workers |-> None]
      /\ attempts' = [f \in Files |-> 0]
      /\ setup' = setup /\ cpus' = cpus /\ vocab' = vocab /\ shards' = shards
      /\ begun' = begun
  BY DEF EndSession
<1>3. PICK recorded \in SUBSET {f \in Files : outcome[f] = "done"} :
             outcome' = [f \in Files |-> IF f \in recorded THEN "done" ELSE "todo"]
  BY DEF EndSession
<1>4. TypesOK'
  BY <1>1, <1>2, <1>3 DEF TypesOK, Phases
<1>5. AttemptsOK'
  <2>1. \A f \in Files : begun[f] \in Nat
    BY <1>1 DEF TypesOK
  <2>. QED BY <1>2, <2>1, NumbersAssumption DEF AttemptsOK
<1>6. JobsOK'
  BY <1>2 DEF JobsOK
<1>7. StoreOK'
  BY <1>1, <1>2 DEF StoreOK
<1>8. DoneOK'
  BY <1>1, <1>2, <1>3 DEF DoneOK
<1>. QED BY <1>4, <1>5, <1>6, <1>7, <1>8 DEF PipelineInv

\* The import is resumed.
LEMMA ResumeKeeps ==
    ASSUME PipelineInv, Resume
    PROVE  PipelineInv'
<1>1. TypesOK /\ AttemptsOK /\ JobsOK /\ StoreOK /\ DoneOK
  BY DEF PipelineInv
<1>2. /\ phase = "over" /\ phase' = "importing" /\ cpus' \in setup.cpus
      /\ setup' = setup /\ vocab' = vocab /\ shards' = shards
      /\ outcome' = outcome /\ attempts' = attempts /\ begun' = begun /\ job' = job
  BY DEF Resume, importing
<1>3. TypesOK'
  BY <1>1, <1>2 DEF TypesOK, Phases
<1>4. AttemptsOK'
  BY <1>1, <1>2 DEF AttemptsOK
<1>5. \A w \in Workers : job'[w] = None
  BY <1>1, <1>2 DEF JobsOK
<1>6. JobsOK'
  BY <1>5 DEF JobsOK
<1>7. Cardinality(setup.cpus) = 1 => cpus' = cpus
  <2>1. setup.cpus = setup.cpus /\ IsFiniteSet(setup.cpus) /\ cpus \in setup.cpus
    BY <1>1, SetupsAssumption DEF TypesOK
  <2>2. Cardinality(setup.cpus) = 1 => \E x : setup.cpus = {x}
    BY <2>1, FS_Singleton
  <2>. QED BY <1>2, <2>1, <2>2
<1>8. KeysOK(setup, cpus', vocab, shards, begun)
  BY <1>1, <1>7 DEF StoreOK, KeysOK
<1>9. StoreOK'
  BY <1>1, <1>2, <1>8 DEF StoreOK
<1>10. DoneOK'
  BY <1>1, <1>2 DEF DoneOK
<1>. QED BY <1>3, <1>4, <1>6, <1>9, <1>10 DEF PipelineInv

\* Every step.
LEMMA PipelineSteps ==
    ASSUME PipelineInv, [Next]_vars
    PROVE  PipelineInv'
<1>1. CASE Import
  <2>1. ASSUME NEW w \in Workers, NEW f \in Files, StartFile(w, f) PROVE PipelineInv'
    BY <2>1, StartKeeps
  <2>2. ASSUME NEW w \in Workers, ReadFile(w) PROVE PipelineInv'
    BY <2>2, ReadKeeps
  <2>3. ASSUME NEW w \in Workers, FinishFile(w) PROVE PipelineInv'
    BY <2>3, FinishKeeps
  <2>4. ASSUME NEW w \in Workers, FailFile(w) PROVE PipelineInv'
    BY <2>4, FailKeeps
  <2>. QED BY <1>1, <2>1, <2>2, <2>3, <2>4 DEF Import
<1>2. CASE ComputeMkn
  BY <1>2, ComputeKeeps
<1>3. CASE Merge
  BY <1>3, MergeKeeps
<1>4. CASE Interrupt
  BY <1>4, QuietKeeps DEF Interrupt
<1>5. CASE EndSession
  BY <1>5, EndKeeps
<1>6. CASE Resume
  BY <1>6, ResumeKeeps
<1>7. CASE UNCHANGED vars
  BY <1>7, QuietKeeps DEF vars
<1>8. CASE Terminated
  BY <1>7, <1>8 DEF Terminated
<1>. QED BY <1>1, <1>2, <1>3, <1>4, <1>5, <1>6, <1>7, <1>8 DEF Next

\* The invariant: every key in a trie is that of an n-gram of a file that an
\* import has taken, with its sum or a multiple of it; a job has kept what is
\* behind it; a file that is done is stored.
THEOREM PipelineIsRight == Spec => []PipelineInv
<1>1. Init => PipelineInv
  BY StartsRight
<1>2. PipelineInv /\ [Next]_vars => PipelineInv'
  BY PipelineSteps
<1>. QED BY <1>1, <1>2, PTL DEF Spec

---------------------------------------------------------------------------
(* What the invariant says of the properties. *)

\* The key of an n-gram of f is in no trie but those of f.
LEMMA OwnKey ==
    ASSUME PipelineInv, NEW f \in Files, NEW g \in NgramsOf(setup.input, f),
           Contained(vocab, g), NEW k \in DOMAIN shards,
           EncodeNgram(vocab, g) \in DOMAIN shards[k]
    PROVE  /\ g \in Wanted(setup, f)
           /\ Tx(setup) => /\ k = Home(setup, f) /\ begun[f] > 0
                           /\ shards[k][EncodeNgram(vocab, g)] = Whole(setup, f, g)
           /\ ~ Tx(setup) /\ Cardinality(setup.cpus) = 1 => k = Route(setup, cpus, g)
<1>. DEFINE key == EncodeNgram(vocab, g)
<1>1. /\ setup \in Setups /\ vocab \in Vocabularies(Words)
      /\ KeysOK(setup, cpus, vocab, shards, begun)
  BY DEF PipelineInv, TypesOK, StoreOK
<1>2. g \in Seq(Words) /\ g # <<>>
  BY <1>1, LineIs DEF NgramsOf
<1>3. key # Metadata
  BY <1>1, <1>2, NotMetadata
<1>4. key \in DOMAIN shards[k] \ {Metadata}
  BY <1>3
<1>5. PICK e \in Files : \E h \in Wanted(setup, e) :
             /\ Contained(vocab, h) /\ key = EncodeNgram(vocab, h)
             /\ Tx(setup) => /\ k = Home(setup, e) /\ shards[k][key] = Whole(setup, e, h)
                             /\ begun[e] > 0
             /\ ~ Tx(setup) /\ Cardinality(setup.cpus) = 1 => k = Route(setup, cpus, h)
  BY <1>1, <1>4 DEF KeysOK
<1>6. PICK h \in Wanted(setup, e) :
             /\ Contained(vocab, h) /\ key = EncodeNgram(vocab, h)
             /\ Tx(setup) => /\ k = Home(setup, e) /\ shards[k][key] = Whole(setup, e, h)
                             /\ begun[e] > 0
             /\ ~ Tx(setup) /\ Cardinality(setup.cpus) = 1 => k = Route(setup, cpus, h)
  BY <1>5
<1>7. g = h
  BY <1>1, <1>2, <1>6, WantedIs, WordsFit, KeyInjective
<1>8. e = f
  BY <1>1, <1>7, OneFile
<1>. QED BY <1>6, <1>7, <1>8

\* A key that only one trie may have.
LEMMA AtOnly ==
    ASSUME NEW sh, Tries(sh), NEW key, key # Metadata, NEW r,
           \A k \in DOMAIN sh : key \in DOMAIN sh[k] => k = r
    PROVE  At(sh, key) = CountIn(Trie(sh, r), key)
<1>. DEFINE F == [k \in DOMAIN sh |-> CountIn(sh[k], key)]
<1>1. Summable(F) /\ DOMAIN F = DOMAIN sh /\ At(sh, key) = SumFunction(F)
  BY AtIs DEF At
<1>2. \A k \in DOMAIN F : k # r => F[k] = 0
  BY DEF CountIn
<1>3. CASE r \in DOMAIN sh
  <2>1. F[r] = CountIn(Trie(sh, r), key)
    BY <1>3 DEF Trie
  <2>. HIDE DEF F
  <2>. QED BY <1>1, <1>2, <1>3, <2>1, SumOfOne
<1>4. CASE r \notin DOMAIN sh
  <2>1. CountIn(Trie(sh, r), key) = 0
    BY <1>4, NewTrieIs DEF Trie, CountIn
  <2>2. \A k \in DOMAIN sh : key \notin DOMAIN sh[k]
    BY <1>4
  <2>. QED BY <2>1, <2>2, AtIs
<1>. QED BY <1>3, <1>4

\* An n-gram of a file.
LEMMA NgramIs ==
    ASSUME setup \in Setups, vocab \in Vocabularies(Words),
           NEW f \in Files, NEW g \in NgramsOf(setup.input, f)
    PROVE  /\ g \in Seq(Words) /\ g # <<>>
           /\ Contained(vocab, g) => EncodeNgram(vocab, g) # Metadata
<1>1. g \in Seq(Words) /\ g # <<>>
  BY LineIs DEF NgramsOf
<1>. QED BY <1>1, NotMetadata

\* The types of the property.
LEMMA TypesFollow == PipelineInv => TypeOK
<1>. SUFFICES ASSUME PipelineInv PROVE TypeOK
  OBVIOUS
<1>1. /\ setup \in Setups /\ vocab \in Vocabularies(Words) /\ phase \in Phases
      /\ outcome \in [Files -> {"todo", "busy", "done", "failed"}]
      /\ Tries(shards) /\ KeysOK(setup, cpus, vocab, shards, begun)
  BY DEF PipelineInv, TypesOK, StoreOK
<1>2. vocab \in Seq(Words) /\ IsInjective(vocab)
  BY <1>1 DEF Vocabularies
<1>3. ASSUME NEW k \in DOMAIN shards, NEW key \in DOMAIN shards[k]
      PROVE  key \in Seq(Nat) /\ key # <<>> /\ shards[k][key] \in Nat \ {0}
  <2>1. shards[k][key] \in Nat \ {0}
    BY <1>1 DEF Tries, IsTrie
  <2>2. CASE key = Metadata
    BY <2>1, <2>2 DEF Metadata
  <2>3. CASE key # Metadata
    <3>1. PICK f \in Files : \E g \in Wanted(setup, f) :
                 Contained(vocab, g) /\ key = EncodeNgram(vocab, g)
      BY <1>1, <2>3 DEF KeysOK
    <3>2. PICK g \in Wanted(setup, f) : Contained(vocab, g) /\ key = EncodeNgram(vocab, g)
      BY <3>1
    <3>. QED BY <1>1, <2>1, <3>2, WantedIs, WordsFit, KeyReads
  <2>. QED BY <2>2, <2>3
<1>4. \A w \in Workers : job[w] # None => outcome[job[w].file] = "busy"
  BY DEF PipelineInv, JobsOK
<1>5. \A f \in Files : attempts[f] <= MaxAttempts /\ attempts[f] <= begun[f]
  BY DEF PipelineInv, AttemptsOK
<1>. QED BY <1>1, <1>2, <1>3, <1>4, <1>5 DEF TypeOK

\* Keys are readable.
LEMMA ReadableFollows == PipelineInv => KeysAreReadable
<1>. SUFFICES ASSUME PipelineInv,
                     NEW k \in DOMAIN shards, NEW key \in DOMAIN shards[k] \ {Metadata}
              PROVE  \E f \in Files : \E g \in Read(f) :
                        /\ InVocabulary(g)
                        /\ DecodeKey(key) = [i \in DOMAIN g |-> IndexOf(vocab, g[i])]
  BY DEF KeysAreReadable
<1>1. /\ setup \in Setups /\ vocab \in Vocabularies(Words)
      /\ KeysOK(setup, cpus, vocab, shards, begun)
  BY DEF PipelineInv, TypesOK, StoreOK
<1>2. PICK f \in Files : \E g \in Wanted(setup, f) :
             Contained(vocab, g) /\ key = EncodeNgram(vocab, g)
  BY <1>1 DEF KeysOK
<1>3. PICK g \in Wanted(setup, f) : Contained(vocab, g) /\ key = EncodeNgram(vocab, g)
  BY <1>2
<1>4. g \in Seq(Words) /\ g \in NgramsOf(setup.input, f)
  BY <1>1, WantedIs
<1>5. g \in Read(f)
  BY <1>1, <1>4, TotalIs, WholeIs DEF Read
<1>6. InVocabulary(g)
  BY <1>1, <1>3, Same
<1>7. DecodeKey(key) = Indices(vocab, g)
  BY <1>1, <1>3, <1>4, WordsFit, KeyReads
<1>. QED BY <1>5, <1>6, <1>7 DEF Indices

\* Sums are stored.
LEMMA SumsFollow == PipelineInv => StoredIsSum
<1>. SUFFICES ASSUME PipelineInv, NEW f \in Files, NEW g \in NgramsOf(setup.input, f)
              PROVE  /\ \E n \in 0 .. begun[f] :
                           Held(g) = n * Total(f, g) /\ (HasTx => n <= 1)
                     /\ outcome[f] = "done" => Held(g) >= Total(f, g)
  BY DEF StoredIsSum
<1>. DEFINE key == EncodeNgram(vocab, g)
            n == Whole(setup, f, g)
<1>1. /\ setup \in Setups /\ vocab \in Vocabularies(Words) /\ begun \in [Files -> Nat]
      /\ Tries(shards) /\ MultiplesOK(setup, vocab, shards, begun)
  BY DEF PipelineInv, TypesOK, StoreOK
<1>2. g \in Seq(Words) /\ (Contained(vocab, g) => key # Metadata)
  BY <1>1, NgramIs
<1>3. /\ Held(g) = Has(vocab, shards, g) /\ Total(f, g) = n /\ n \in Nat
      /\ HasTx <=> Tx(setup)
  BY <1>1, Same, TotalIs, WholeIs
<1>4. outcome[f] = "done" /\ g \in Wanted(setup, f) => KeptIn(setup, vocab, shards, <<>>, f, g)
  BY DEF PipelineInv, DoneOK
<1>5. 0 \in 0 .. begun[f] /\ 0 * n = 0 /\ 1 * n = n
  BY <1>1, <1>3
<1>6. CASE g \in Wanted(setup, f) /\ ~ Tx(setup)
  <2>1. \E m \in 0 .. begun[f] : Has(vocab, shards, g) = m * n
    BY <1>1, <1>6 DEF MultiplesOK
  <2>2. outcome[f] = "done" => Has(vocab, shards, g) >= n
    BY <1>4, <1>6 DEF KeptIn
  <2>. HIDE DEF n
  <2>. QED BY <1>3, <1>6, <2>1, <2>2
<1>7. CASE Tx(setup) /\ Contained(vocab, g) /\ key \in DOMAIN Trie(shards, Home(setup, f))
  <2>1. Home(setup, f) \in DOMAIN shards /\ key \in DOMAIN shards[Home(setup, f)]
    BY <1>2, <1>7, NewTrieIs DEF Trie
  <2>2. begun[f] > 0 /\ shards[Home(setup, f)][key] = n
    BY <1>7, <2>1, OwnKey
  <2>3. \A k \in DOMAIN shards : key \in DOMAIN shards[k] => k = Home(setup, f)
    BY <1>7, OwnKey
  <2>4. At(shards, key) = CountIn(Trie(shards, Home(setup, f)), key)
    <3>. HIDE DEF key
    <3>. QED BY <1>1, <1>2, <1>7, <2>3, AtOnly
  <2>5. Has(vocab, shards, g) = n
    BY <1>7, <2>1, <2>2, <2>4 DEF Has, Trie, CountIn
  <2>6. 1 \in 0 .. begun[f]
    BY <1>1, <2>2
  <2>. HIDE DEF n
  <2>. QED BY <1>3, <1>5, <2>5, <2>6
<1>8. CASE ~ (Contained(vocab, g) /\ \E k \in DOMAIN shards : key \in DOMAIN shards[k])
  <2>1. Has(vocab, shards, g) = 0
    BY <1>1, <1>8, AtIs DEF Has
  <2>2. ASSUME outcome[f] = "done", ~ Tx(setup) PROVE n = 0
    <3>1. g \in Wanted(setup, f) => 0 >= n
      BY <1>4, <2>1, <2>2 DEF KeptIn
    <3>2. g \notin Wanted(setup, f) => n = 0
      BY <1>1, WholeIs
    <3>. HIDE DEF n
    <3>. QED BY <1>3, <3>1, <3>2
  <2>3. ASSUME outcome[f] = "done", Tx(setup) PROVE n = 0
    <3>1. ASSUME g \in Wanted(setup, f) PROVE FALSE
      <4>1. DOMAIN <<>> = {}
        OBVIOUS
      <4>2. Contained(vocab, g) /\ key \in DOMAIN Trie(shards, Home(setup, f))
        BY <1>4, <2>3, <3>1, <4>1 DEF KeptIn
      <4>3. Home(setup, f) \in DOMAIN shards /\ key \in DOMAIN shards[Home(setup, f)]
        BY <1>2, <4>2, NewTrieIs DEF Trie
      <4>. QED BY <1>8, <4>2, <4>3
    <3>. QED BY <1>1, <3>1, WholeIs
  <2>. HIDE DEF n
  <2>. QED BY <1>3, <1>5, <2>1, <2>2, <2>3
<1>9. CASE /\ Contained(vocab, g) /\ \E k \in DOMAIN shards : key \in DOMAIN shards[k]
           /\ ~ (g \in Wanted(setup, f) /\ ~ Tx(setup))
           /\ ~ (Tx(setup) /\ key \in DOMAIN Trie(shards, Home(setup, f)))
  <2>1. PICK k \in DOMAIN shards : key \in DOMAIN shards[k]
    BY <1>9
  <2>2. g \in Wanted(setup, f) /\ (Tx(setup) => k = Home(setup, f))
    BY <1>9, <2>1, OwnKey
  <2>. QED BY <1>9, <2>1, <2>2 DEF Trie
<1>. QED BY <1>6, <1>7, <1>8, <1>9

\* Where an n-gram of f is stored: under letters by the name of the file.
StoredAt(f, g) == IF Tx(setup) THEN Home(setup, f) ELSE Route(setup, cpus, g)

\* It is in no other shard, with the CPUs as they were.
LEMMA OneShard ==
    ASSUME PipelineInv, Tx(setup) \/ Cardinality(setup.cpus) = 1,
           NEW f \in Files, NEW g \in NgramsOf(setup.input, f), Contained(vocab, g)
    PROVE  /\ \A k \in DOMAIN shards :
                EncodeNgram(vocab, g) \in DOMAIN shards[k] => k = StoredAt(f, g)
           /\ Held(g) = CountIn(Trie(shards, StoredAt(f, g)), EncodeNgram(vocab, g))
<1>1. setup \in Setups /\ vocab \in Vocabularies(Words) /\ Tries(shards)
  BY DEF PipelineInv, TypesOK, StoreOK
<1>2. \A k \in DOMAIN shards :
          EncodeNgram(vocab, g) \in DOMAIN shards[k] => k = StoredAt(f, g)
  BY OwnKey DEF StoredAt
<1>3. EncodeNgram(vocab, g) # Metadata
  BY <1>1, NgramIs
<1>4. Held(g) = At(shards, EncodeNgram(vocab, g))
  BY <1>1, Same DEF Has
<1>. QED BY <1>1, <1>2, <1>3, <1>4, AtOnly

\* A file that is named for the letters of its n-grams is stored where they
\* are routed.
LEMMA NamesAgree ==
    ASSUME setup \in Setups, Tx(setup), NEW c, NEW f \in Files, NamesItsShard(f),
           NEW g \in NgramsOf(setup.input, f)
    PROVE  Home(setup, f) = Route(setup, c, g)
<1>. DEFINE n == PrefixLen(setup.granularity, OrderOf[f])
            p == setup.names[f]
            l == Letters[g[1]]
<1>1. p \in Seq(STRING)
  BY SetupsAssumption
<1>2. Len(g) = OrderOf[f] /\ g[1] \in Words
  <2>1. g \in Seq(Words) /\ g # <<>>
    BY LineIs DEF NgramsOf
  <2>2. Len(g) = OrderOf[f]
    BY SetupsAssumption DEF Grouped
  <2>. QED BY <2>1, <2>2
<1>3. l \in Seq(STRING) /\ Len(p) <= Len(l) /\ \A i \in 1 .. Len(p) : l[i] = p[i]
  <2>1. l \in Seq(STRING)
    BY <1>2, LettersAssumption
  <2>2. Len(p) <= Len(l) /\ \A i \in DOMAIN p : l[i] = p[i]
    BY DEF NamesItsShard
  <2>. QED BY <1>1, <2>1, <2>2
<1>4. n \in Nat /\ n <= Len(p)
  <2>1. n \in Nat
    BY SetupsAssumption DEF Tx, IsHashBased, Granularities, PrefixLen
  <2>2. n <= Len(p)
    BY DEF NamesItsShard
  <2>. QED BY <2>1, <2>2
<1>5. KeyOfToken(g[1], Len(g), setup.granularity, c)
          = IF l = <<>> THEN [i \in 1 .. n |-> "_"] ELSE Padded(l, n)
  BY <1>2 DEF KeyOfToken, Tx
<1>. HIDE DEF n, p, l
<1>6. Padded(l, n) = Padded(p, n)
  <2>1. \A i \in 1 .. n : i <= Len(p) /\ i <= Len(l) /\ l[i] = p[i]
    BY <1>1, <1>3, <1>4
  <2>. QED BY <2>1 DEF Padded
<1>7. l = <<>> => [i \in 1 .. n |-> "_"] = Padded(p, n)
  <2>1. l = <<>> => 1 .. n = {}
    BY <1>1, <1>3, <1>4
  <2>. QED BY <2>1 DEF Padded
<1>8. KeyOfToken(g[1], Len(g), setup.granularity, c) = Padded(p, n)
  BY <1>5, <1>6, <1>7
<1>. QED BY <1>8 DEF Home, Route, RouteTokens, Tx, n, p

\* Lookups find them.
LEMMA LookupFollows == PipelineInv => LookupFindsStored
<1>. SUFFICES ASSUME PipelineInv, NEW f \in Files,
                     NEW g \in NgramsOf(setup.input, f) \cap Stored,
                     HasTx \/ Cardinality(setup.cpus) = 1
              PROVE  /\ \E k \in DOMAIN shards :
                            CountIn(shards[k], EncodeNgram(vocab, g)) = Held(g)
                     /\ (HasTx => NamesItsShard(f)) => LookupFinds(g)
  BY DEF LookupFindsStored
<1>1. setup \in Setups /\ Tries(shards) /\ (HasTx <=> Tx(setup))
  BY Same DEF PipelineInv, TypesOK, StoreOK
<1>2. Contained(vocab, g)
  <2>1. InVocabulary(g)
    BY DEF Stored, Held
  <2>. QED BY <1>1, <2>1, Same
<1>3. Held(g) = CountIn(Trie(shards, StoredAt(f, g)), EncodeNgram(vocab, g))
  BY <1>1, <1>2, OneShard
<1>4. StoredAt(f, g) \in DOMAIN shards
  <2>1. Held(g) > 0 /\ EncodeNgram(vocab, g) # Metadata
    BY <1>1, <1>2, NgramIs DEF Stored, PipelineInv, TypesOK
  <2>2. CountIn(NewTrie, EncodeNgram(vocab, g)) = 0
    BY <2>1, NewTrieIs DEF CountIn
  <2>. QED BY <1>3, <2>1, <2>2 DEF Trie
<1>5. \E k \in DOMAIN shards : CountIn(shards[k], EncodeNgram(vocab, g)) = Held(g)
  BY <1>3, <1>4 DEF Trie
<1>6. ASSUME HasTx => NamesItsShard(f) PROVE LookupFinds(g)
  <2>1. StoredAt(f, g) = Route(setup, cpus, g)
    BY <1>1, <1>6, NamesAgree DEF StoredAt
  <2>2. RouteOf(g) = Route(setup, cpus, g) /\ \A k : Shard(k) = Trie(shards, k)
    BY <1>1, Same
  <2>. QED BY <1>3, <2>1, <2>2 DEF LookupFinds
<1>. QED BY <1>5, <1>6

\* No two words have an index and the tries hold positive counts under keys,
\* whatever the workers, the attempts and the sessions do.
THEOREM PipelineTypes == Spec => []TypeOK
BY PipelineIsRight, TypesFollow, PTL

\* Whatever order the workers enter the words in, every key of a trie decodes
\* to an n-gram that was read.
THEOREM KeysStayReadable == Spec => []KeysAreReadable
BY PipelineIsRight, ReadableFollows, PTL

\* What is stored of an n-gram is the sum of its lines, once per attempt at
\* most and once in all with transactions; a file that is done is stored.
THEOREM SumsAreStored == Spec => []StoredIsSum
BY PipelineIsRight, SumsFollow, PTL

\* An n-gram is whole in one shard, and a lookup by its first word goes there
\* if the name of its file has the letters of that shard, or while the number
\* of CPUs that the hash depends on stays.
THEOREM LookupsFind == Spec => []LookupFindsStored
BY PipelineIsRight, LookupFollows, PTL

---------------------------------------------------------------------------
(* The merge. *)

Counts(t) == t \in [DOMAIN t -> Nat] /\ IsFiniteSet(DOMAIN t)

\* What a trie adds to another.
Sum2(new, out, trie) ==
    /\ Counts(new) /\ DOMAIN new = DOMAIN out \cup Ngrams(trie)
    /\ \A x : CountIn(new, x) = CountIn(out, x) + (IF x \in Ngrams(trie) THEN trie[x] ELSE 0)

\* The fold of the merge adds the entries of a trie, each once.
LEMMA MergedIs ==
    ASSUME NEW out, Counts(out), NEW trie, IsTrie(trie)
    PROVE  Sum2(Merged(out, trie), out, trie)
<1>. DEFINE S == Ngrams(trie)
            U == DOMAIN out \cup S
            V == UNION {[D -> Nat] : D \in SUBSET U}
            pick == [T \in SUBSET S |-> CHOOSE x \in T : TRUE]
            step == [p \in S \X V |-> Incremented(p[2], p[1], trie[p[1]])]
            Is(it) == it = [T \in SUBSET S |->
                              IF T = {} THEN out
                              ELSE LET x == CHOOSE x \in T : TRUE
                                   IN  Incremented(it[T \ {x}], x, trie[x])]
            iter == CHOOSE it : Is(it)
<1>1. Merged(out, trie) = iter[S]
  BY DEF Merged, FoldSet, MapThenFoldSet
<1>2. S \subseteq DOMAIN trie /\ IsFiniteSet(S) /\ \A x \in S : trie[x] \in Nat
  <2>1. S \subseteq DOMAIN trie
    BY DEF Ngrams
  <2>2. IsFiniteSet(DOMAIN trie)
    BY DEF IsTrie
  <2>. HIDE DEF S
  <2>3. IsFiniteSet(S)
    BY <2>1, <2>2, FS_Subset
  <2>. QED BY <2>1, <2>3 DEF IsTrie
<1>. HIDE DEF S
<1>3. out \in V
  BY DEF Counts
<1>4. ASSUME NEW t \in V, NEW x \in S
      PROVE  /\ Incremented(t, x, trie[x]) \in V
             /\ DOMAIN Incremented(t, x, trie[x]) = DOMAIN t \cup {x}
             /\ Incremented(t, x, trie[x])[x] = CountIn(t, x) + trie[x]
             /\ \A y \in DOMAIN t : y # x => Incremented(t, x, trie[x])[y] = t[y]
  <2>. DEFINE i == Incremented(t, x, trie[x])
              E == DOMAIN t \cup {x}
  <2>1. PICK D \in SUBSET U : t \in [D -> Nat]
    OBVIOUS
  <2>2. CountIn(t, x) \in Nat /\ trie[x] \in Nat
    BY <1>2, <2>1 DEF CountIn
  <2>3. /\ i = [y \in E |-> IF y = x THEN CountIn(t, x) + trie[x] ELSE t[y]]
        /\ E \in SUBSET U
    BY <2>1 DEF Incremented, Put
  <2>4. i \in [E -> Nat]
    BY <2>1, <2>2, <2>3
  <2>. QED BY <2>3, <2>4
<1>. HIDE DEF V, U
<1>5. Picks(pick, S)
  BY DEF Picks
<1>6. \A x \in S, t \in V : step[<<x, t>>] = Incremented(t, x, trie[x]) /\ step[<<x, t>>] \in V
  BY <1>4
<1>7. \A T \in SUBSET S : pick[T] = CHOOSE x \in T : TRUE
  OBVIOUS
<1>. HIDE DEF pick, step
<1>8. PICK G \in [SUBSET S -> V] : Folds(G, S, out, pick, step)
  <2>1. \A x \in S, t \in V : step[<<x, t>>] \in V
    BY <1>6
  <2>. QED BY <1>2, <1>3, <1>5, <2>1, FoldExists
<1>9. Is(G)
  <2>1. ASSUME NEW T \in SUBSET S, T # {}
        PROVE  LET y == CHOOSE x \in T : TRUE IN G[T] = Incremented(G[T \ {y}], y, trie[y])
    <3>. DEFINE y == CHOOSE x \in T : TRUE
    <3>1. y \in T /\ pick[T] = y
      BY <1>7, <2>1
    <3>. HIDE DEF y
    <3>2. G[T \ {y}] \in V /\ y \in S
      BY <3>1
    <3>3. G[T] = step[<<y, G[T \ {y}]>>]
      BY <1>8, <2>1, <3>1 DEF Folds
    <3>4. G[T] = Incremented(G[T \ {y}], y, trie[y])
      BY <1>6, <3>2, <3>3
    <3>. QED BY <3>4 DEF y
  <2>2. G[{}] = out /\ G = [T \in SUBSET S |-> G[T]]
    BY <1>8 DEF Folds
  <2>. QED BY <2>1, <2>2
<1>10. Is(iter)
  BY <1>9
<1>. HIDE DEF iter
<1>11. /\ iter[{}] = out
       /\ \A T \in SUBSET S : T # {} =>
             /\ pick[T] \in T
             /\ iter[T] = Incremented(iter[T \ {pick[T]}], pick[T], trie[pick[T]])
  <2>1. \A T \in SUBSET S : iter[T] = IF T = {} THEN out
                                      ELSE Incremented(iter[T \ {pick[T]}], pick[T], trie[pick[T]])
    BY <1>7, <1>10
  <2>. QED BY <1>5, <2>1 DEF Picks
<1>. HIDE DEF Is
<1>. DEFINE Good(T) == /\ iter[T] \in V /\ DOMAIN iter[T] = DOMAIN out \cup T
                       /\ \A x \in DOMAIN out \cup T :
                            iter[T][x] = CountIn(out, x) + (IF x \in T THEN trie[x] ELSE 0)
            A == {T \in SUBSET S : Good(T)}
<1>12. ASSUME NEW T \in SUBSET S, \A R \in SUBSET T : R # T => R \in A
       PROVE  T \in A
  <2>1. CASE T = {}
    <3>1. iter[T] = out /\ \A x \in DOMAIN out : out[x] \in Nat
      BY <1>11, <2>1 DEF Counts
    <3>. QED BY <1>3, <2>1, <3>1 DEF CountIn
  <2>2. CASE T # {}
    <3>. DEFINE y == pick[T]
                R == T \ {y}
    <3>1. y \in T /\ y \in S /\ iter[T] = Incremented(iter[R], y, trie[y])
      BY <1>11, <2>2
    <3>. HIDE DEF y
    <3>2. Good(R)
      <4>1. R \in SUBSET T /\ R # T
        BY <3>1
      <4>2. R \in A
        BY ONLY <1>12, <4>1
      <4>. QED BY <4>2
    <3>3. y \notin R /\ T = R \cup {y}
      BY <3>1
    <3>. HIDE DEF R
    <3>. DEFINE old == iter[R]
    <3>4. /\ iter[T] \in V /\ DOMAIN iter[T] = DOMAIN old \cup {y}
          /\ iter[T][y] = CountIn(old, y) + trie[y]
          /\ \A x \in DOMAIN old : x # y => iter[T][x] = old[x]
      <4>1. old \in V
        BY <3>2
      <4>2. iter[T] = Incremented(old, y, trie[y])
        BY <3>1 DEF R
      <4>3. y \in S
        BY <3>1
      <4>. HIDE DEF old
      <4>. QED BY ONLY <1>4, <4>1, <4>2, <4>3
    <3>5. CountIn(old, y) = CountIn(out, y)
      <4>1. CASE y \in DOMAIN old
        <5>1. old[y] = CountIn(out, y) + 0
          BY <3>2, <3>3, <4>1
        <5>2. CountIn(out, y) \in Nat
          BY DEF Counts, CountIn
        <5>. QED BY <4>1, <5>1, <5>2 DEF CountIn
      <4>2. CASE y \notin DOMAIN old
        BY <3>2, <4>2 DEF CountIn
      <4>. QED BY <4>1, <4>2
    <3>6. DOMAIN iter[T] = DOMAIN out \cup T
      BY <3>2, <3>3, <3>4
    <3>7. ASSUME NEW x \in DOMAIN out \cup T
          PROVE  iter[T][x] = CountIn(out, x) + (IF x \in T THEN trie[x] ELSE 0)
      <4>1. CASE x = y
        BY <3>1, <3>4, <3>5, <4>1
      <4>2. CASE x # y
        <5>1. x \in DOMAIN old /\ (x \in T <=> x \in R)
          BY <3>2, <3>3, <4>2
        <5>. QED BY <3>2, <3>4, <4>2, <5>1
      <4>. QED BY <4>1, <4>2
    <3>. QED BY <3>4, <3>6, <3>7
  <2>. QED BY <2>1, <2>2
<1>13. \A T \in SUBSET S : T \in A
  <2>. HIDE DEF A
  <2>. QED BY <1>2, <1>12, SetInduction
<1>14. Good(S)
  BY <1>13
<1>. DEFINE new == iter[S]
<1>15. PICK D \in SUBSET U : new \in [D -> Nat]
  BY <1>14 DEF V
<1>16. Counts(new)
  <2>1. IsFiniteSet(DOMAIN out \cup S)
    BY <1>2, FS_Union DEF Counts
  <2>2. DOMAIN new = DOMAIN out \cup S
    BY <1>14
  <2>3. new \in [DOMAIN new -> Nat]
    BY <1>15
  <2>. HIDE DEF new
  <2>. QED BY <2>1, <2>2, <2>3 DEF Counts
<1>17. ASSUME NEW x
       PROVE  CountIn(new, x) = CountIn(out, x) + (IF x \in S THEN trie[x] ELSE 0)
  <2>1. CASE x \in DOMAIN out \cup S
    BY <1>14, <2>1 DEF CountIn
  <2>2. CASE x \notin DOMAIN out \cup S
    BY <1>14, <2>2 DEF CountIn
  <2>. QED BY <2>1, <2>2
<1>18. Sum2(new, out, trie)
  BY <1>14, <1>16, <1>17 DEF Sum2, S
<1>. QED BY <1>1, <1>18

---------------------------------------------------------------------------
(* The invariant of the merge: the output has what the shards that were    *)
(* visited have.                                                           *)

Part(D) == [k \in D |-> shards[k]]

MergeInv ==
    phase = "merging" =>
        /\ todo \subseteq DOMAIN shards /\ Counts(output)
        /\ DOMAIN output = UNION {Ngrams(shards[k]) : k \in DOMAIN shards \ todo}
        /\ \A key : key[1] # 0 => CountIn(output, key) = At(Part(DOMAIN shards \ todo), key)

\* One more shard.
LEMMA PartGrows ==
    ASSUME Tries(shards), NEW D \in SUBSET DOMAIN shards, NEW k \in DOMAIN shards, k \notin D,
           NEW key, key # Metadata
    PROVE  /\ At(Part(D \cup {k}), key) = At(Part(D), key) + CountIn(shards[k], key)
           /\ CountIn(shards[k], key) \in Nat /\ At(Part(D), key) \in Nat
<1>1. IsFiniteSet(D) /\ IsFiniteSet(DOMAIN shards)
  BY FS_Subset DEF Tries
<1>2. Tries(Part(D)) /\ IsTrie(shards[k])
  BY <1>1 DEF Tries, Part
<1>3. Put(Part(D), k, shards[k]) = Part(D \cup {k})
  BY DEF Put, Part
<1>4. CountIn(Trie(Part(D), k), key) = 0
  BY NewTrieIs DEF Trie, Part, CountIn
<1>5. At(Put(Part(D), k, shards[k]), key) + CountIn(Trie(Part(D), k), key)
          = At(Part(D), key) + CountIn(shards[k], key)
  BY <1>2, AtPut
<1>6. At(Part(D), key) \in Nat /\ CountIn(shards[k], key) \in Nat
  BY <1>2, AtIs, CountIs
<1>7. Tries(Put(Part(D), k, shards[k]))
  BY <1>2, AtPut
<1>8. At(Put(Part(D), k, shards[k]), key) \in Nat
  BY <1>7, AtIs
<1>. QED BY <1>3, <1>4, <1>5, <1>6, <1>8

\* No merge at first.
LEMMA MergeBegins == Init => MergeInv
BY DEF Init, MergeInv

\* Every step of the merge, and the others.
LEMMA MergeSteps ==
    ASSUME PipelineInv, MergeInv, [Next]_vars
    PROVE  MergeInv'
<1>1. CASE CleanupCheckpoint
  <2>1. shards' = shards
    BY <1>1 DEF CleanupCheckpoint
  <2>2. CASE phase' = "merging"
    <3>1. todo' = DOMAIN shards /\ output' = <<>>
      BY <1>1, <2>2 DEF CleanupCheckpoint
    <3>2. DOMAIN shards' \ todo' = {} /\ DOMAIN <<>> = {}
      BY <2>1, <3>1
    <3>3. Counts(<<>>)
      BY <3>2, FS_EmptySet DEF Counts
    <3>4. ASSUME NEW key PROVE At([k \in {} |-> shards'[k]], key) = 0
      <4>. DEFINE sh == [k \in {} |-> shards'[k]]
                  F == [k \in DOMAIN sh |-> CountIn(sh[k], key)]
      <4>1. DOMAIN F = {}
        OBVIOUS
      <4>2. At(sh, key) = SumFunction(F)
        BY DEF At
      <4>. HIDE DEF F
      <4>. QED BY <4>1, <4>2, SumOfNothing
    <3>5. \A key : CountIn(output', key) = 0
      BY <3>1, <3>2 DEF CountIn
    <3>6. \A key : CountIn(output', key) = At([k \in DOMAIN shards' \ todo' |-> shards'[k]], key)
      BY <3>2, <3>4, <3>5
    <3>7. DOMAIN output' = UNION {Ngrams(shards'[k]) : k \in DOMAIN shards' \ todo'}
      BY <3>1, <3>2
    <3>. QED BY <2>1, <3>1, <3>3, <3>6, <3>7 DEF MergeInv, Part
  <2>3. CASE phase' # "merging"
    BY <2>3 DEF MergeInv
  <2>. QED BY <2>2, <2>3
<1>2. ASSUME NEW k \in todo, MergeShard(k) PROVE MergeInv'
  <2>. DEFINE D == DOMAIN shards \ todo
  <2>1. /\ phase = "merging" /\ todo \subseteq DOMAIN shards /\ Counts(output)
        /\ DOMAIN output = UNION {Ngrams(shards[x]) : x \in D}
        /\ \A key : key[1] # 0 => CountIn(output, key) = At(Part(D), key)
        /\ output' = Merged(output, shards[k]) /\ todo' = todo \ {k} /\ shards' = shards
    BY <1>2 DEF MergeInv, MergeShard
  <2>2. /\ DOMAIN shards' \ todo' = D \cup {k} /\ k \notin D /\ k \in DOMAIN shards
        /\ D \in SUBSET DOMAIN shards
    BY <2>1
  <2>3. Tries(shards) /\ IsTrie(shards[k])
    BY <2>2 DEF PipelineInv, StoreOK, Tries
  <2>4. Sum2(output', output, shards[k])
    BY <2>1, <2>3, MergedIs
  <2>. HIDE DEF D
  <2>5. DOMAIN output' = UNION {Ngrams(shards'[x]) : x \in DOMAIN shards' \ todo'}
    BY <2>1, <2>2, <2>4 DEF Sum2
  <2>6. ASSUME NEW key, key[1] # 0
        PROVE  CountIn(output', key) = At([x \in DOMAIN shards' \ todo' |-> shards'[x]], key)
    <3>1. key # Metadata
      BY <2>6 DEF Metadata
    <3>2. /\ At(Part(D \cup {k}), key) = At(Part(D), key) + CountIn(shards[k], key)
      BY <2>2, <2>3, <3>1, PartGrows
    <3>3. CountIn(shards[k], key) = IF key \in Ngrams(shards[k]) THEN shards[k][key] ELSE 0
      BY <2>6 DEF Ngrams, CountIn
    <3>4. CountIn(output', key) = CountIn(output, key) + CountIn(shards[k], key)
      BY <2>4, <3>3 DEF Sum2
    <3>. QED BY <2>1, <2>2, <2>6, <3>2, <3>4 DEF Part
  <2>7. Counts(output') /\ todo' \subseteq DOMAIN shards'
    BY <2>1, <2>4 DEF Sum2
  <2>. QED BY <2>5, <2>6, <2>7 DEF MergeInv, Part
<1>3. CASE EndMerge
  BY <1>3 DEF EndMerge, MergeInv
<1>4. CASE ComputeMkn
  BY <1>4 DEF ComputeMkn, StartFinalize, CountTrie, EndCounting, NextOrder, CountShard,
              FollowShard, SkipShard, SaveStats, CompleteMkn, MergeInv
<1>5. CASE Import
  BY <1>5 DEF Import, StartFile, ReadFile, FinishFile, FailFile, MergeInv
<1>6. CASE Interrupt
  BY <1>6 DEF Interrupt, MergeInv
<1>7. CASE EndSession
  BY <1>7 DEF EndSession, MergeInv
<1>8. CASE Resume
  BY <1>8 DEF Resume, MergeInv
<1>9. CASE UNCHANGED vars
  <2>1. phase' = phase /\ todo' = todo /\ shards' = shards /\ output' = output
    BY <1>9 DEF vars, counting
  <2>. QED BY <2>1 DEF MergeInv, Part
<1>10. CASE Terminated
  BY <1>9, <1>10 DEF Terminated
<1>. QED BY <1>1, <1>2, <1>3, <1>4, <1>5, <1>6, <1>7, <1>8, <1>9, <1>10 DEF Next, Merge

\* The step that ends the merge.
LEMMA MergeEnds ==
    ASSUME PipelineInv, MergeInv, Next, phase = "merging", phase' = "ended"
    PROVE  /\ DOMAIN output = UNION {Ngrams(shards[k]) : k \in DOMAIN shards}
           /\ \A g \in Stored : output[EncodeNgram(vocab, g)] = Held(g)
<1>1. CASE EndMerge
  <2>1. /\ todo = {} /\ DOMAIN shards \ todo = DOMAIN shards
        /\ DOMAIN output = UNION {Ngrams(shards[k]) : k \in DOMAIN shards}
        /\ \A key : key[1] # 0 => CountIn(output, key) = At(Part(DOMAIN shards), key)
    BY <1>1 DEF EndMerge, MergeInv
  <2>2. ASSUME NEW g \in Stored PROVE output[EncodeNgram(vocab, g)] = Held(g)
    <3>. DEFINE key == EncodeNgram(vocab, g)
    <3>1. setup \in Setups /\ vocab \in Vocabularies(Words) /\ Tries(shards)
      BY DEF PipelineInv, TypesOK, StoreOK
    <3>2. PICK f \in Files : g \in NgramsOf(setup.input, f)
      BY DEF Stored, Known
    <3>3. Contained(vocab, g)
      <4>1. InVocabulary(g)
        BY DEF Stored, Held
      <4>. QED BY <3>1, <4>1, Same
    <3>4. key[1] # 0
      BY <3>1, <3>2, <3>3, NgramIs, WordsFit, KeyReads
    <3>5. Held(g) = At(shards, key)
      BY <3>1, <3>3, Same DEF Has
    <3>6. At(Part(DOMAIN shards), key) = At(shards, key)
      BY DEF At, Part
    <3>7. At(shards, key) > 0
      BY <3>5 DEF Stored
    <3>8. PICK k \in DOMAIN shards : key \in DOMAIN shards[k]
      <4>. HIDE DEF key
      <4>1. (\A k \in DOMAIN shards : key \notin DOMAIN shards[k]) => At(shards, key) = 0
        BY <3>1, AtIs
      <4>. QED BY <3>7, <4>1
    <3>9. key \in DOMAIN output
      BY <2>1, <3>4, <3>8 DEF Ngrams
    <3>. QED BY <2>1, <3>4, <3>5, <3>6, <3>9 DEF CountIn
  <2>. QED BY <2>1, <2>2
<1>2. ASSUME NEW k \in todo, MergeShard(k) PROVE FALSE
  BY <1>2 DEF MergeShard
<1>3. CASE CleanupCheckpoint
  BY <1>3 DEF CleanupCheckpoint
<1>4. CASE ComputeMkn
  BY <1>4 DEF ComputeMkn, StartFinalize, CountTrie, EndCounting, NextOrder, CountShard,
              FollowShard, SkipShard, SaveStats, CompleteMkn
<1>5. CASE Import
  BY <1>5 DEF Import, StartFile, ReadFile, FinishFile, FailFile
<1>6. CASE Interrupt
  BY <1>6 DEF Interrupt
<1>7. CASE EndSession
  BY <1>7 DEF EndSession
<1>8. CASE Resume
  BY <1>8 DEF Resume
<1>9. CASE Terminated
  BY <1>9 DEF Terminated, vars
<1>. QED BY <1>1, <1>2, <1>3, <1>4, <1>5, <1>6, <1>7, <1>8, <1>9 DEF Next, Merge

\* The merge ends with all that the shards had, also of an n-gram that is in
\* two of them.
THEOREM MergeKeepsAll == Spec => MergedIsWhole
<1>. DEFINE Ends == /\ DOMAIN output = UNION {Ngrams(shards[k]) : k \in DOMAIN shards}
                    /\ \A g \in Stored : output[EncodeNgram(vocab, g)] = Held(g)
            Inv == PipelineInv /\ MergeInv
<1>1. Init => Inv
  BY StartsRight, MergeBegins
<1>2. Inv /\ [Next]_vars => Inv'
  BY PipelineSteps, MergeSteps
<1>3. Inv /\ [Next]_vars => [phase = "merging" /\ phase' = "ended" => Ends]_vars
  BY MergeEnds
<1>. QED BY <1>1, <1>2, <1>3, PTL DEF Spec, MergedIsWhole

---------------------------------------------------------------------------
(* Frequencies: what an AtomicFrequencyCounts has seen of the values val   *)
(* under the keys K.                                                       *)

Observed(K, val) ==
    [n      |-> [i \in 1 .. 4 |-> Cardinality({x \in K : val[x] = i})],
     unique |-> Cardinality(K),
     total  |-> SumFunction([x \in K |-> val[x]])]

\* Nothing has been seen at first.
LEMMA ObservedNothing == \A val : Observed({}, val) = NoFreq
<1>. SUFFICES ASSUME NEW val PROVE Observed({}, val) = NoFreq
  OBVIOUS
<1>1. Cardinality({}) = 0
  BY FS_EmptySet
<1>2. \A i \in 1 .. 4 : {x \in {} : val[x] = i} = {}
  OBVIOUS
<1>3. SumFunction([x \in {} |-> val[x]]) = 0
  <2>. DEFINE F == [x \in {} |-> val[x]]
  <2>1. DOMAIN F = {}
    OBVIOUS
  <2>. HIDE DEF F
  <2>2. SumFunction(F) = 0
    BY <2>1, SumOfNothing
  <2>. QED BY <2>2 DEF F
<1>. QED BY <1>1, <1>2, <1>3 DEF Observed, NoFreq

\* A key more is what observe() adds.
LEMMA ObservedGrows ==
    ASSUME NEW K, IsFiniteSet(K), NEW val, NEW y, y \notin K,
           \A x \in K \cup {y} : val[x] \in Nat
    PROVE  Observed(K \cup {y}, val) = Observe(Observed(K, val), val[y])
<1>. DEFINE L == K \cup {y}
<1>1. Cardinality(L) = Cardinality(K) + 1
  BY FS_AddElement
<1>2. ASSUME NEW i \in 1 .. 4
      PROVE  Cardinality({x \in L : val[x] = i})
                 = Cardinality({x \in K : val[x] = i}) + (IF val[y] = i THEN 1 ELSE 0)
  <2>. DEFINE P == {x \in K : val[x] = i}
  <2>1. IsFiniteSet(P)
    <3>1. P \subseteq K
      OBVIOUS
    <3>. HIDE DEF P
    <3>. QED BY <3>1, FS_Subset
  <2>2. Cardinality(P) \in Nat
    BY <2>1, FS_CardinalityType
  <2>3. CASE val[y] = i
    <3>1. {x \in L : val[x] = i} = P \cup {y} /\ y \notin P
      BY <2>3
    <3>. HIDE DEF P
    <3>2. Cardinality(P \cup {y}) = Cardinality(P) + 1
      BY ONLY <2>1, <3>1, FS_AddElement
    <3>. QED BY <2>2, <2>3, <3>1, <3>2
  <2>4. CASE val[y] # i
    <3>1. {x \in L : val[x] = i} = P
      BY <2>4
    <3>. HIDE DEF P
    <3>. QED BY <2>2, <2>4, <3>1
  <2>. QED BY <2>3, <2>4
<1>3. SumFunction([x \in L |-> val[x]]) = SumFunction([x \in K |-> val[x]]) + val[y]
  <2>. DEFINE F == [x \in K |-> val[x]]
              G == [x \in L |-> val[x]]
  <2>1. /\ Summable(F) /\ DOMAIN G = DOMAIN F \cup {y} /\ y \notin DOMAIN F
        /\ \A x \in DOMAIN F \ {y} : G[x] = F[x]
        /\ G[y] = val[y] /\ G[y] \in Nat
    BY DEF Summable
  <2>. HIDE DEF F, G
  <2>2. SumFunction(G) + 0 = SumFunction(F) + G[y] /\ Summable(G)
    BY <2>1, SumChanges
  <2>3. SumFunction(F) \in Nat /\ SumFunction(G) \in Nat
    BY <2>1, <2>2, SumType
  <2>4. SumFunction(G) = SumFunction(F) + val[y]
    BY <2>1, <2>2, <2>3
  <2>. QED BY <2>4 DEF F, G
<1>. HIDE DEF L
<1>4. Observed(L, val) =
        [n |-> [i \in 1 .. 4 |->
                    Cardinality({x \in K : val[x] = i}) + (IF val[y] = i THEN 1 ELSE 0)],
         unique |-> Cardinality(K) + 1,
         total |-> SumFunction([x \in K |-> val[x]]) + val[y]]
  BY <1>1, <1>2, <1>3 DEF Observed
<1>5. Observe(Observed(K, val), val[y]) =
        [n |-> [i \in 1 .. 4 |->
                    Cardinality({x \in K : val[x] = i}) + (IF val[y] = i THEN 1 ELSE 0)],
         unique |-> Cardinality(K) + 1,
         total |-> SumFunction([x \in K |-> val[x]]) + val[y]]
  BY DEF Observe, Observed
<1>. QED BY <1>4, <1>5 DEF L

\* A sum does not depend on the names of its terms.
LEMMA SumRenamed ==
    ASSUME NEW G, IsFiniteSet(G), NEW K, NEW b \in Bijection(G, K), NEW val,
           \A x \in K : val[x] \in Nat
    PROVE  SumFunction([g \in G |-> val[b[g]]]) = SumFunction([x \in K |-> val[x]])
<1>. DEFINE Img(T) == {b[g] : g \in T}
            L(T) == [g \in T |-> val[b[g]]]
            R(T) == [x \in Img(T) |-> val[x]]
            A == {T \in SUBSET G : SumFunction(L(T)) = SumFunction(R(T))}
<1>1. /\ b \in [G -> K] /\ \A g, h \in G : b[g] = b[h] => g = h
      /\ \A x \in K : \E g \in G : b[g] = x
  BY DEF Bijection, Injection, Surjection, IsInjective
<1>2. ASSUME NEW T \in SUBSET G, \A Q \in SUBSET T : Q # T => Q \in A
      PROVE  T \in A
  <2>1. CASE T = {}
    <3>1. DOMAIN L(T) = {} /\ DOMAIN R(T) = {}
      BY <2>1
    <3>. HIDE DEF L, R
    <3>2. SumFunction(L(T)) = 0 /\ SumFunction(R(T)) = 0
      BY <3>1, SumOfNothing
    <3>. QED BY <3>2
  <2>2. CASE T # {}
    <3>1. PICK g \in T : TRUE
      BY <2>2
    <3>. DEFINE Q == T \ {g}
    <3>2. SumFunction(L(Q)) = SumFunction(R(Q))
      <4>1. Q \in SUBSET T /\ Q # T
        OBVIOUS
      <4>2. Q \in A
        BY ONLY <1>2, <4>1
      <4>. QED BY <4>2
    <3>3. Img(T) \ {b[g]} = Img(Q) /\ b[g] \in Img(T)
      BY <1>1
    <3>4. IsFiniteSet(T) /\ IsFiniteSet(Img(T))
      <4>1. IsFiniteSet(T)
        BY FS_Subset
      <4>2. IsFiniteSet(K) /\ Img(T) \subseteq K
        <5>1. ExistsBijection(G, K)
          BY DEF ExistsBijection
        <5>2. IsFiniteSet(K)
          BY <5>1, FS_Bijection
        <5>. QED BY <1>1, <5>2
      <4>3. IsFiniteSet(Img(T))
        <5>. HIDE DEF Img
        <5>. QED BY <4>2, FS_Subset
      <4>. QED BY <4>1, <4>3
    <3>5. \A x \in Img(T) : val[x] \in Nat
      BY <1>1
    <3>6. /\ Summable(L(T)) /\ g \in DOMAIN L(T) /\ L(T)[g] = val[b[g]]
          /\ Without(L(T), g) = L(Q)
      BY <3>4, <3>5 DEF Summable, Without
    <3>7. /\ Summable(R(T)) /\ b[g] \in DOMAIN R(T) /\ R(T)[b[g]] = val[b[g]]
          /\ Without(R(T), b[g]) = R(Q)
      <4>1. Summable(R(T)) /\ b[g] \in DOMAIN R(T) /\ R(T)[b[g]] = val[b[g]]
        BY <3>3, <3>4, <3>5 DEF Summable
      <4>2. Without(R(T), b[g]) = [x \in Img(T) \ {b[g]} |-> val[x]]
        BY DEF Without
      <4>. QED BY <3>3, <4>1, <4>2
    <3>. HIDE DEF L, R, Q
    <3>8. SumFunction(L(T)) = val[b[g]] + SumFunction(L(Q))
      BY <3>6, SumTakes
    <3>9. SumFunction(R(T)) = val[b[g]] + SumFunction(R(Q))
      BY <3>7, SumTakes
    <3>. QED BY <3>2, <3>8, <3>9
  <2>. QED BY <2>1, <2>2
<1>3. \A T \in SUBSET G : T \in A
  <2>. HIDE DEF A
  <2>. QED BY <1>2, SetInduction
<1>4. G \in A
  BY <1>3
<1>5. Img(G) = K
  BY <1>1
<1>. QED BY <1>4, <1>5

\* What is seen is the same under other keys.
LEMMA ObservedRenamed ==
    ASSUME NEW G, IsFiniteSet(G), NEW K, NEW b \in Bijection(G, K), NEW val,
           \A x \in K : val[x] \in Nat
    PROVE  Observed(K, val) = Observed(G, [g \in G |-> val[b[g]]])
<1>. DEFINE held == [g \in G |-> val[b[g]]]
<1>1. /\ b \in [G -> K] /\ \A g, h \in G : b[g] = b[h] => g = h
      /\ \A x \in K : \E g \in G : b[g] = x
  BY DEF Bijection, Injection, Surjection, IsInjective
<1>2. Cardinality(K) = Cardinality(G)
  <2>1. ExistsBijection(G, K)
    BY DEF ExistsBijection
  <2>. QED BY <2>1, FS_Bijection
<1>3. ASSUME NEW i \in 1 .. 4
      PROVE  Cardinality({x \in K : val[x] = i}) = Cardinality({g \in G : held[g] = i})
  <2>. DEFINE P == {g \in G : held[g] = i}
              Q == {x \in K : val[x] = i}
              c == [g \in P |-> b[g]]
  <2>1. IsFiniteSet(P)
    <3>1. P \subseteq G
      OBVIOUS
    <3>. HIDE DEF P
    <3>. QED BY <3>1, FS_Subset
  <2>2. /\ c \in [P -> Q] /\ \A g, h \in P : c[g] = c[h] => g = h
        /\ \A x \in Q : \E g \in P : c[g] = x
    BY <1>1
  <2>. HIDE DEF P, Q, c
  <2>3. ExistsBijection(P, Q)
    <3>1. c \in Bijection(P, Q)
      BY <2>2 DEF Bijection, Injection, Surjection, IsInjective
    <3>. QED BY <3>1 DEF ExistsBijection
  <2>4. Cardinality(Q) = Cardinality(P)
    BY <2>1, <2>3, FS_Bijection
  <2>. QED BY <2>4 DEF P, Q
<1>4. SumFunction([x \in K |-> val[x]]) = SumFunction([g \in G |-> held[g]])
  <2>1. [g \in G |-> held[g]] = [g \in G |-> val[b[g]]]
    OBVIOUS
  <2>. QED BY <2>1, SumRenamed
<1>. HIDE DEF held
<1>5. Observed(K, val) = Observed(G, held)
  BY <1>2, <1>3, <1>4 DEF Observed
<1>. QED BY <1>5 DEF held

\* The counts of the keys K by order; those of the single trie under 0.
OrderIn(sharded, key) == IF sharded THEN KeyOrder(key) ELSE 0

OfOrder(sharded, K, o) == {x \in K : OrderIn(sharded, x) = o}

Tally(sharded, K, val) ==
    [o \in 0 .. MaxOrder |-> Observed(OfOrder(sharded, K, o), val)]

ZeroFreq == [o \in 0 .. MaxOrder |-> NoFreq]

\* Nothing has been counted at first.
LEMMA TallyNothing == \A sharded, val : Tally(sharded, {}, val) = ZeroFreq
<1>. SUFFICES ASSUME NEW sharded, NEW val PROVE Tally(sharded, {}, val) = ZeroFreq
  OBVIOUS
<1>1. \A o : OfOrder(sharded, {}, o) = {}
  BY DEF OfOrder
<1>. QED BY <1>1, ObservedNothing DEF Tally, ZeroFreq

\* What the fold of CountNgrams does with one key.
Step(sharded, fr, key, n) ==
    IF OrderIn(sharded, key) > MaxOrder THEN fr
    ELSE [fr EXCEPT ![OrderIn(sharded, key)] = Observe(@, n)]

\* A key more is counted under its order.
LEMMA TallyGrows ==
    ASSUME NEW sharded, NEW K, IsFiniteSet(K), NEW val, NEW y, y \notin K,
           \A x \in K \cup {y} : val[x] \in Nat,
           OrderIn(sharded, y) \in 0 .. MaxOrder
    PROVE  Tally(sharded, K \cup {y}, val)
               = Step(sharded, Tally(sharded, K, val), y, val[y])
<1>. DEFINE p == OrderIn(sharded, y)
            P == OfOrder(sharded, K, p)
<1>1. MaxOrder \in Nat
  BY NumbersAssumption
<1>2. \A o \in 0 .. MaxOrder : o # p =>
          OfOrder(sharded, K \cup {y}, o) = OfOrder(sharded, K, o)
  BY DEF OfOrder
<1>3. OfOrder(sharded, K \cup {y}, p) = P \cup {y}
  BY DEF OfOrder
<1>4. Observed(P \cup {y}, val) = Observe(Observed(P, val), val[y])
  <2>1. P \subseteq K
    BY DEF OfOrder
  <2>. HIDE DEF P
  <2>2. IsFiniteSet(P)
    BY <2>1, FS_Subset
  <2>. QED BY <2>1, <2>2, ObservedGrows
<1>5. p \in 0 .. MaxOrder /\ ~ p > MaxOrder
  BY <1>1
<1>. HIDE DEF p
<1>6. Tally(sharded, K \cup {y}, val)
          = [Tally(sharded, K, val) EXCEPT ![p] = Observe(@, val[y])]
  BY <1>2, <1>3, <1>4, <1>5 DEF Tally
<1>. QED BY <1>5, <1>6 DEF Step, p

\* CountNgrams adds the entries of a trie, each once.
LEMMA CountedIs ==
    ASSUME NEW trie, IsTrie(trie), NEW K, IsFiniteSet(K), K \cap Ngrams(trie) = {},
           NEW val, \A x \in K : val[x] \in Nat,
           \A x \in Ngrams(trie) : val[x] = trie[x] /\ OrderIn(IsSharded, x) \in 0 .. MaxOrder
    PROVE  CountNgrams(Tally(IsSharded, K, val), trie)
               = Tally(IsSharded, K \cup Ngrams(trie), val)
<1>. DEFINE S == Ngrams(trie)
            fr == Tally(IsSharded, K, val)
            Is(it) == it = [T \in SUBSET S |->
                              IF T = {} THEN fr
                              ELSE LET x == CHOOSE x \in T : TRUE
                                   IN  Step(IsSharded, it[T \ {x}], x, trie[x])]
            iter == CHOOSE it : Is(it)
            G == [T \in SUBSET S |-> Tally(IsSharded, K \cup T, val)]
<1>1. CountNgrams(fr, trie) = iter[S]
  BY DEF CountNgrams, FoldSet, MapThenFoldSet, Step, OrderIn
<1>2. S \subseteq DOMAIN trie /\ IsFiniteSet(S) /\ \A x \in S : trie[x] \in Nat
  <2>1. S \subseteq DOMAIN trie
    BY DEF Ngrams
  <2>2. IsFiniteSet(DOMAIN trie)
    BY DEF IsTrie
  <2>. HIDE DEF S
  <2>3. IsFiniteSet(S)
    BY <2>1, <2>2, FS_Subset
  <2>. QED BY <2>1, <2>3 DEF IsTrie
<1>3. /\ K \cap S = {}
      /\ \A x \in S : val[x] = trie[x] /\ OrderIn(IsSharded, x) \in 0 .. MaxOrder
  OBVIOUS
<1>. HIDE DEF S, fr
<1>4. ASSUME NEW T \in SUBSET S, NEW x \in T
      PROVE  Tally(IsSharded, K \cup T, val)
                 = Step(IsSharded, Tally(IsSharded, K \cup (T \ {x}), val), x, trie[x])
  <2>. DEFINE L == K \cup (T \ {x})
  <2>1. IsFiniteSet(L)
    <3>1. IsFiniteSet(T \ {x})
      BY <1>2, FS_Subset
    <3>. QED BY <3>1, FS_Union
  <2>2. x \notin L /\ K \cup T = L \cup {x} /\ x \in S
    BY <1>3
  <2>3. \A y \in L \cup {x} : val[y] \in Nat
    BY <1>2, <1>3
  <2>. HIDE DEF L
  <2>4. Tally(IsSharded, L \cup {x}, val) = Step(IsSharded, Tally(IsSharded, L, val), x, val[x])
    BY <1>3, <2>1, <2>2, <2>3, TallyGrows
  <2>. QED BY <1>3, <2>2, <2>4 DEF L
<1>5. Is(G)
  <2>1. ASSUME NEW T \in SUBSET S, T # {}
        PROVE  LET y == CHOOSE x \in T : TRUE
               IN  G[T] = Step(IsSharded, G[T \ {y}], y, trie[y])
    <3>. DEFINE y == CHOOSE x \in T : TRUE
    <3>1. y \in T
      BY <2>1
    <3>. HIDE DEF y
    <3>2. G[T] = Step(IsSharded, G[T \ {y}], y, trie[y])
      BY <1>4, <3>1
    <3>. QED BY <3>2 DEF y
  <2>2. G[{}] = fr
    <3>1. K \cup {} = K
      OBVIOUS
    <3>. QED BY <3>1 DEF fr
  <2>3. G = [T \in SUBSET S |-> G[T]]
    OBVIOUS
  <2>. HIDE DEF G
  <2>. QED BY <2>1, <2>2, <2>3
<1>6. Is(iter)
  <2>. HIDE DEF G, Is
  <2>1. \E it : Is(it)
    BY <1>5
  <2>. QED BY <2>1
<1>. HIDE DEF iter
<1>7. iter[{}] = fr
  BY <1>6
<1>8. \A T \in SUBSET S : T # {} =>
         \E x \in T : iter[T] = Step(IsSharded, iter[T \ {x}], x, trie[x])
  BY <1>6
<1>. HIDE DEF Is
<1>. DEFINE A == {T \in SUBSET S : iter[T] = Tally(IsSharded, K \cup T, val)}
<1>9. ASSUME NEW T \in SUBSET S, \A R \in SUBSET T : R # T => R \in A
      PROVE  T \in A
  <2>1. CASE T = {}
    <3>1. K \cup {} = K
      OBVIOUS
    <3>. QED BY <1>7, <2>1, <3>1 DEF fr
  <2>2. CASE T # {}
    <3>1. PICK x \in T : iter[T] = Step(IsSharded, iter[T \ {x}], x, trie[x])
      BY <1>8, <2>2
    <3>2. T \ {x} \in A
      <4>1. T \ {x} \in SUBSET T /\ T \ {x} # T
        OBVIOUS
      <4>. QED BY ONLY <1>9, <4>1
    <3>3. iter[T \ {x}] = Tally(IsSharded, K \cup (T \ {x}), val)
      BY <3>2
    <3>4. iter[T] = Tally(IsSharded, K \cup T, val)
      BY <1>4, <3>1, <3>3
    <3>. QED BY <3>4
  <2>. QED BY <2>1, <2>2
<1>10. \A T \in SUBSET S : T \in A
  <2>. HIDE DEF A
  <2>. QED BY <1>2, <1>9, SetInduction
<1>11. iter[S] = Tally(IsSharded, K \cup S, val)
  BY <1>10
<1>. QED BY <1>1, <1>11 DEF fr, S

---------------------------------------------------------------------------
(* The statistics of what the shards have. *)

KeysIn(sh, D) == UNION {Ngrams(sh[k]) : k \in D}

Held1(sh) == [key \in KeysIn(sh, DOMAIN sh) |-> At(sh, key)]

CountedIn(sharded, sh, D) == Tally(sharded, KeysIn(sh, D), Held1(sh))

Spells(g, key) ==
    /\ g \in Seq(Words) /\ Contained(vocab, g) /\ Len(g) \in 1 .. MaxOrder
    /\ key = EncodeNgram(vocab, g) /\ DecodeKey(key) = Indices(vocab, g)
    /\ KeyOrder(key) = Len(g) /\ Held(g) = At(shards, key)

\* An n-gram of the corpus, under its key.
LEMMA NgramSpells ==
    ASSUME PipelineInv, NEW f \in Files, NEW g \in NgramsOf(setup.input, f), Contained(vocab, g)
    PROVE  /\ Spells(g, EncodeNgram(vocab, g)) /\ g \in Known
           /\ EncodeNgram(vocab, g) # Metadata /\ EncodeNgram(vocab, g)[1] # 0
<1>1. setup \in Setups /\ vocab \in Vocabularies(Words)
  BY DEF PipelineInv, TypesOK
<1>2. g \in Seq(Words) /\ g # <<>> /\ EncodeNgram(vocab, g) # Metadata
  BY <1>1, NgramIs
<1>3. Len(g) \in 1 .. MaxOrder
  <2>1. Len(g) = OrderOf[f]
    BY <1>1, SetupIs DEF Grouped
  <2>. QED BY <2>1, NumbersAssumption
<1>4. /\ DecodeKey(EncodeNgram(vocab, g)) = Indices(vocab, g)
      /\ KeyOrder(EncodeNgram(vocab, g)) = Len(g)
      /\ EncodeNgram(vocab, g)[1] # 0
  BY <1>1, <1>2, WordsFit, KeyReads
<1>5. Held(g) = At(shards, EncodeNgram(vocab, g))
  BY <1>1, Same DEF Has
<1>6. g \in Known
  BY DEF Known
<1>. QED BY <1>2, <1>3, <1>4, <1>5, <1>6 DEF Spells

\* A key in a shard is that of a stored n-gram.
LEMMA KeyIs ==
    ASSUME PipelineInv, NEW k \in DOMAIN shards, NEW key \in Ngrams(shards[k])
    PROVE  /\ \E g \in Stored : Spells(g, key)
           /\ shards[k][key] \in Nat \ {0} /\ At(shards, key) \in Nat
           /\ Cardinality(setup.cpus) = 1 =>
                 /\ At(shards, key) = shards[k][key]
                 /\ \A j \in DOMAIN shards : key \in DOMAIN shards[j] => j = k
<1>1. /\ setup \in Setups /\ vocab \in Vocabularies(Words)
      /\ KeysOK(setup, cpus, vocab, shards, begun) /\ Tries(shards)
  BY DEF PipelineInv, TypesOK, StoreOK
<1>2. key \in DOMAIN shards[k] \ {Metadata}
  BY DEF Ngrams, Metadata
<1>3. PICK f \in Files : \E g \in Wanted(setup, f) :
             Contained(vocab, g) /\ key = EncodeNgram(vocab, g)
  BY <1>1, <1>2 DEF KeysOK
<1>4. PICK g \in Wanted(setup, f) : Contained(vocab, g) /\ key = EncodeNgram(vocab, g)
  BY <1>3
<1>5. g \in NgramsOf(setup.input, f)
  BY <1>1, WantedIs
<1>6. Spells(g, key) /\ g \in Known
  BY <1>4, <1>5, NgramSpells
<1>7. /\ shards[k][key] \in Nat \ {0} /\ shards[k][key] <= At(shards, key)
      /\ At(shards, key) \in Nat
  <2>1. shards[k][key] \in Nat \ {0}
    BY <1>1, <1>2 DEF Tries, IsTrie
  <2>2. CountIn(shards[k], key) <= At(shards, key) /\ At(shards, key) \in Nat
    BY <1>1, AtIs
  <2>. QED BY <1>2, <2>1, <2>2 DEF CountIn
<1>8. g \in Stored
  BY <1>6, <1>7 DEF Stored, Spells
<1>9. ASSUME Cardinality(setup.cpus) = 1
      PROVE  /\ At(shards, key) = shards[k][key]
             /\ \A j \in DOMAIN shards : key \in DOMAIN shards[j] => j = k
  <2>1. \A j \in DOMAIN shards : key \in DOMAIN shards[j] => j = StoredAt(f, g)
    BY <1>4, <1>5, <1>9, OneShard
  <2>2. k = StoredAt(f, g)
    BY <1>2, <2>1
  <2>3. At(shards, key) = CountIn(Trie(shards, k), key)
    BY <1>1, <1>2, <2>1, <2>2, AtOnly
  <2>. QED BY <1>2, <2>1, <2>2, <2>3 DEF Trie, CountIn
<1>. QED BY <1>6, <1>7, <1>8, <1>9

\* And a stored n-gram has a key in a shard.
LEMMA StoredIs ==
    ASSUME PipelineInv, NEW g \in Stored
    PROVE  /\ Spells(g, EncodeNgram(vocab, g))
           /\ EncodeNgram(vocab, g) \in KeysIn(shards, DOMAIN shards)
<1>. DEFINE key == EncodeNgram(vocab, g)
<1>1. setup \in Setups /\ Tries(shards)
  BY DEF PipelineInv, TypesOK, StoreOK
<1>2. PICK f \in Files : g \in NgramsOf(setup.input, f)
  BY DEF Stored, Known
<1>3. Contained(vocab, g)
  <2>1. InVocabulary(g)
    BY DEF Stored, Held
  <2>. QED BY <1>1, <2>1, Same
<1>4. Spells(g, key) /\ key[1] # 0
  BY <1>2, <1>3, NgramSpells
<1>5. At(shards, key) > 0
  BY <1>4 DEF Stored, Spells
<1>. HIDE DEF key
<1>6. PICK k \in DOMAIN shards : key \in DOMAIN shards[k]
  <2>1. (\A k \in DOMAIN shards : key \notin DOMAIN shards[k]) => At(shards, key) = 0
    BY <1>1, AtIs
  <2>. QED BY <1>5, <2>1
<1>7. key \in KeysIn(shards, DOMAIN shards)
  BY <1>4, <1>6 DEF KeysIn, Ngrams
<1>. QED BY <1>4, <1>7 DEF key

\* The keys of some shards are finitely many.
LEMMA KeysFinite ==
    ASSUME PipelineInv, NEW D \in SUBSET DOMAIN shards
    PROVE  IsFiniteSet(KeysIn(shards, D))
<1>. DEFINE F == {T \in SUBSET D : IsFiniteSet(KeysIn(shards, T))}
<1>1. Tries(shards)
  BY DEF PipelineInv, StoreOK
<1>2. IsFiniteSet(D)
  BY <1>1, FS_Subset DEF Tries
<1>3. ASSUME NEW T \in SUBSET D, \A R \in SUBSET T : R # T => R \in F
      PROVE  T \in F
  <2>1. CASE T = {}
    <3>1. KeysIn(shards, T) = {}
      BY <2>1 DEF KeysIn
    <3>. QED BY <3>1, FS_EmptySet
  <2>2. CASE T # {}
    <3>1. PICK j \in T : TRUE
      BY <2>2
    <3>2. T \ {j} \in SUBSET T /\ T \ {j} # T
      BY <3>1
    <3>3. T \ {j} \in F
      BY ONLY <1>3, <3>2
    <3>4. IsFiniteSet(Ngrams(shards[j]))
      <4>1. IsFiniteSet(DOMAIN shards[j])
        BY <1>1 DEF Tries, IsTrie
      <4>2. Ngrams(shards[j]) \subseteq DOMAIN shards[j]
        BY DEF Ngrams
      <4>. QED BY <4>1, <4>2, FS_Subset
    <3>5. KeysIn(shards, T) = KeysIn(shards, T \ {j}) \cup Ngrams(shards[j])
      BY DEF KeysIn
    <3>6. IsFiniteSet(KeysIn(shards, T))
      <4>1. IsFiniteSet(KeysIn(shards, T \ {j}))
        BY <3>3
      <4>. QED BY ONLY <3>4, <3>5, <4>1, FS_Union
    <3>. QED BY <3>6
  <2>. QED BY <2>1, <2>2
<1>4. D \in F
  <2>. HIDE DEF F
  <2>. QED BY <1>2, <1>3, SetInduction
<1>. QED BY <1>4

\* A shard more is counted.
LEMMA ShardCounted ==
    ASSUME PipelineInv, Cardinality(setup.cpus) = 1,
           NEW D \in SUBSET DOMAIN shards, NEW k \in DOMAIN shards, k \notin D
    PROVE  CountNgrams(CountedIn(IsSharded, shards, D), shards[k])
               = CountedIn(IsSharded, shards, D \cup {k})
<1>. DEFINE K == KeysIn(shards, D)
            val == Held1(shards)
<1>1. Tries(shards) /\ IsTrie(shards[k])
  BY DEF PipelineInv, StoreOK, Tries
<1>2. \A x \in KeysIn(shards, DOMAIN shards) : val[x] = At(shards, x)
  BY DEF Held1
<1>3. K \cup Ngrams(shards[k]) = KeysIn(shards, D \cup {k})
  BY DEF KeysIn
<1>4. /\ K \subseteq KeysIn(shards, DOMAIN shards)
      /\ Ngrams(shards[k]) \subseteq KeysIn(shards, DOMAIN shards)
  BY DEF KeysIn
<1>5. K \cap Ngrams(shards[k]) = {}
  <2>. SUFFICES ASSUME NEW x \in K, x \in Ngrams(shards[k]) PROVE FALSE
    OBVIOUS
  <2>1. PICK j \in D : x \in Ngrams(shards[j])
    BY DEF KeysIn
  <2>2. x \in DOMAIN shards[j]
    BY <2>1 DEF Ngrams
  <2>3. j = k
    BY <2>2, KeyIs
  <2>. QED BY <2>3
<1>6. \A x \in K : val[x] \in Nat
  <2>. SUFFICES ASSUME NEW x \in K PROVE val[x] \in Nat
    OBVIOUS
  <2>1. PICK j \in D : x \in Ngrams(shards[j])
    BY DEF KeysIn
  <2>2. At(shards, x) \in Nat
    BY <2>1, KeyIs
  <2>. QED BY <1>2, <1>4, <2>2
<1>7. ASSUME NEW x \in Ngrams(shards[k])
      PROVE  val[x] = shards[k][x] /\ OrderIn(IsSharded, x) \in 0 .. MaxOrder
  <2>1. val[x] = shards[k][x]
    BY <1>2, <1>4, KeyIs
  <2>2. PICK g \in Stored : Spells(g, x)
    BY KeyIs
  <2>3. KeyOrder(x) \in 1 .. MaxOrder /\ MaxOrder \in Nat
    BY <2>2, NumbersAssumption DEF Spells
  <2>. QED BY <2>1, <2>3 DEF OrderIn
<1>8. IsFiniteSet(K)
  BY KeysFinite
<1>. HIDE DEF K, val
<1>9. CountNgrams(Tally(IsSharded, K, val), shards[k])
          = Tally(IsSharded, K \cup Ngrams(shards[k]), val)
  BY <1>1, <1>5, <1>6, <1>7, <1>8, CountedIs
<1>. QED BY <1>3, <1>9 DEF CountedIn, K, val

PairsIn(sharded, trie, orders) ==
    UNION {LET g == DecodeKey(key)
               o == IF sharded THEN Len(g) ELSE 0
           IN  IF Len(g) \in orders /\ Len(g) >= 2
               THEN {<<"predecessor", o, EncodeIndices(Tail(g)), Head(g)>>,
                     <<"successor", o, EncodeIndices(Front(g)), Last(g)>>}
               ELSE {} : key \in Ngrams(trie)}

\* The pairs of all shards, up to order n, or n - 1 in those that a pass has
\* yet to visit; and all of them.
PairsUpTo(sharded, sh, td, n) ==
    UNION {PairsIn(sharded, sh[k], 2 .. (IF k \in td THEN n - 1 ELSE n)) : k \in DOMAIN sh}

AllPairs(sharded, sh) == UNION {PairsIn(sharded, sh[k], Nat) : k \in DOMAIN sh}

\* The pairs of one key.
PairsOfKey(sharded, key) ==
    LET g == DecodeKey(key)
        o == IF sharded THEN Len(g) ELSE 0
    IN  {<<"predecessor", o, EncodeIndices(Tail(g)), Head(g)>>,
         <<"successor", o, EncodeIndices(Front(g)), Last(g)>>}

LongIn(trie, orders) ==
    {key \in Ngrams(trie) : Len(DecodeKey(key)) \in orders /\ Len(DecodeKey(key)) >= 2}

\* The pairs are those of the keys that are long enough.
LEMMA PairsAre ==
    ASSUME NEW sharded, NEW trie, NEW orders
    PROVE  PairsIn(sharded, trie, orders)
               = UNION {PairsOfKey(sharded, key) : key \in LongIn(trie, orders)}
<1>. DEFINE R(key) == LET g == DecodeKey(key)
                          o == IF sharded THEN Len(g) ELSE 0
                      IN  IF Len(g) \in orders /\ Len(g) >= 2
                          THEN {<<"predecessor", o, EncodeIndices(Tail(g)), Head(g)>>,
                                <<"successor", o, EncodeIndices(Front(g)), Last(g)>>}
                          ELSE {}
<1>1. PairsIn(sharded, trie, orders) = UNION {R(key) : key \in Ngrams(trie)}
  BY DEF PairsIn
<1>2. \A key : R(key) = IF Len(DecodeKey(key)) \in orders /\ Len(DecodeKey(key)) >= 2
                        THEN PairsOfKey(sharded, key) ELSE {}
  BY DEF PairsOfKey
<1>. HIDE DEF R
<1>. QED BY <1>1, <1>2 DEF LongIn

\* Orders add up.
LEMMA PairsAdd ==
    ASSUME NEW sharded, NEW trie, NEW A, NEW B
    PROVE  PairsIn(sharded, trie, A \cup B)
               = PairsIn(sharded, trie, A) \cup PairsIn(sharded, trie, B)
<1>1. LongIn(trie, A \cup B) = LongIn(trie, A) \cup LongIn(trie, B)
  BY DEF LongIn
<1>. QED BY <1>1, PairsAre

\* No shard has been visited before the first order.
LEMMA PairsBegin ==
    ASSUME NEW sharded, NEW sh
    PROVE  PairsUpTo(sharded, sh, DOMAIN sh, 2) = {}
<1>1. \A k \in DOMAIN sh : PairsIn(sharded, sh[k], 2 .. (IF k \in DOMAIN sh THEN 2 - 1 ELSE 2)) = {}
  <2>. SUFFICES ASSUME NEW k \in DOMAIN sh PROVE PairsIn(sharded, sh[k], 2 .. 2 - 1) = {}
    OBVIOUS
  <2>1. 2 .. 2 - 1 = {}
    OBVIOUS
  <2>2. LongIn(sh[k], {}) = {}
    BY DEF LongIn
  <2>. QED BY <2>1, <2>2, PairsAre
<1>. QED BY <1>1 DEF PairsUpTo

\* A shard is visited.
LEMMA PairsVisit ==
    ASSUME NEW sharded, NEW sh, NEW td, NEW k \in td, k \in DOMAIN sh, NEW n \in Nat, n >= 2
    PROVE  PairsUpTo(sharded, sh, td \ {k}, n)
               = PairsUpTo(sharded, sh, td, n) \cup PairsIn(sharded, sh[k], {n})
<1>1. 2 .. n = (2 .. n - 1) \cup {n}
  OBVIOUS
<1>2. PairsIn(sharded, sh[k], 2 .. n)
          = PairsIn(sharded, sh[k], 2 .. n - 1) \cup PairsIn(sharded, sh[k], {n})
  BY <1>1, PairsAdd
<1>. DEFINE P(j) == PairsIn(sharded, sh[j], 2 .. (IF j \in td THEN n - 1 ELSE n))
            Q(j) == PairsIn(sharded, sh[j], 2 .. (IF j \in td \ {k} THEN n - 1 ELSE n))
<1>3. Q(k) = P(k) \cup PairsIn(sharded, sh[k], {n})
  BY <1>2
<1>4. \A j \in DOMAIN sh : j # k => Q(j) = P(j)
  OBVIOUS
<1>5. \A x : /\ x \in PairsUpTo(sharded, sh, td \ {k}, n) <=> \E j \in DOMAIN sh : x \in Q(j)
             /\ x \in PairsUpTo(sharded, sh, td, n) <=> \E j \in DOMAIN sh : x \in P(j)
  BY DEF PairsUpTo
<1>. HIDE DEF P, Q
<1>6. ASSUME NEW x
      PROVE  (\E j \in DOMAIN sh : x \in Q(j))
                 <=> (\E j \in DOMAIN sh : x \in P(j)) \/ x \in PairsIn(sharded, sh[k], {n})
  <2>1. x \in Q(k) <=> x \in P(k) \/ x \in PairsIn(sharded, sh[k], {n})
    BY <1>3
  <2>. QED BY <1>4, <2>1
<1>7. \A x : x \in PairsUpTo(sharded, sh, td \ {k}, n)
               <=> x \in PairsUpTo(sharded, sh, td, n) \/ x \in PairsIn(sharded, sh[k], {n})
  BY <1>5, <1>6
<1>. QED BY <1>7

\* The next order begins where this one ends.
LEMMA PairsTurn ==
    ASSUME NEW sharded, NEW sh, NEW n \in Nat
    PROVE  PairsUpTo(sharded, sh, {}, n) = PairsUpTo(sharded, sh, DOMAIN sh, n + 1)
<1>1. n + 1 - 1 = n
  OBVIOUS
<1>2. \A k \in DOMAIN sh : (IF k \in {} THEN n - 1 ELSE n)
                                = (IF k \in DOMAIN sh THEN n + 1 - 1 ELSE n + 1)
  BY <1>1
<1>. QED BY <1>2 DEF PairsUpTo

\* After the last order no pair is missing.
LEMMA PairsEnd ==
    ASSUME PipelineInv, NEW n \in Nat, n >= MaxOrder, NEW sharded
    PROVE  PairsUpTo(sharded, shards, {}, n) = AllPairs(sharded, shards)
<1>1. ASSUME NEW k \in DOMAIN shards
      PROVE  PairsIn(sharded, shards[k], 2 .. n) = PairsIn(sharded, shards[k], Nat)
  <2>1. \A key \in Ngrams(shards[k]) : Len(DecodeKey(key)) \in 1 .. MaxOrder
    <3>. SUFFICES ASSUME NEW key \in Ngrams(shards[k])
                  PROVE  Len(DecodeKey(key)) \in 1 .. MaxOrder
      OBVIOUS
    <3>. QED BY KeyIs DEF Spells, KeyOrder
  <2>2. LongIn(shards[k], 2 .. n) = LongIn(shards[k], Nat)
    BY <2>1, NumbersAssumption DEF LongIn
  <2>. QED BY <2>2, PairsAre
<1>2. \A k \in DOMAIN shards : 2 .. (IF k \in {} THEN n - 1 ELSE n) = 2 .. n
  OBVIOUS
<1>. QED BY <1>1, <1>2 DEF PairsUpTo, AllPairs

---------------------------------------------------------------------------
(* The invariant of the statistics: the frequencies and pairs are those of *)
(* the shards that were visited, unless the pass has been cancelled or has *)
(* skipped a shard.                                                        *)

StatsInv ==
    Cardinality(setup.cpus) = 1 =>
        /\ ~ IsSharded => DOMAIN shards = {<<>>}
        /\ phase \in {"importing", "over"} => freq = ZeroFreq /\ pairs = {} /\ cancelled = FALSE
        /\ phase = "counting" =>
              /\ todo \subseteq DOMAIN shards /\ pairs = {}
              /\ ~ IsSharded => freq = ZeroFreq
              /\ IsSharded /\ ~ cancelled /\ unread = {} =>
                    freq = CountedIn(IsSharded, shards, DOMAIN shards \ todo)
        /\ phase = "following" =>
              /\ todo \subseteq DOMAIN shards /\ order \in Nat /\ order >= 2 /\ IsSharded
              /\ unread = {} => /\ freq = CountedIn(IsSharded, shards, DOMAIN shards)
                                /\ pairs = PairsUpTo(IsSharded, shards, todo, order)
        /\ phase = "saving" /\ unread = {} =>
              /\ freq = CountedIn(IsSharded, shards, DOMAIN shards)
              /\ ~ IsSharded \/ setup.follow => pairs = AllPairs(IsSharded, shards)
        /\ phase = "merging" => IsSharded

\* Nothing is counted at first.
LEMMA StatsBegin == Init => StatsInv
<1>. SUFFICES ASSUME Init PROVE StatsInv
  OBVIOUS
<1>1. ~ IsSharded => DOMAIN shards = {<<>>}
  BY DEF Init
<1>2. phase = "importing" /\ freq = ZeroFreq /\ pairs = {} /\ cancelled = FALSE
  BY DEF Init, ZeroFreq
<1>. QED BY <1>1, <1>2 DEF StatsInv

\* A step that changes no shard, no counts and not the phase.
Still ==
    /\ setup' = setup /\ shards' = shards /\ freq' = freq /\ pairs' = pairs
    /\ cancelled' = cancelled /\ todo' = todo /\ order' = order /\ unread' = unread

\* Such a step keeps the invariant, also into the phases that it does not mention.
LEMMA StillKeeps ==
    ASSUME StatsInv, Still,
           \/ phase' = phase
           \/ phase' \in {"saved", "finished"}
           \/ phase' = "importing" /\ phase = "over"
    PROVE  StatsInv'
<1>1. IsSharded' = IsSharded
  BY DEF Still, IsSharded
<1>. QED BY <1>1 DEF Still, StatsInv

\* Importing: only the trie changes.
LEMMA ImportCounts ==
    ASSUME StatsInv, Import
    PROVE  StatsInv'
<1>1. phase = "importing" /\ phase' = phase /\ setup' = setup /\ UNCHANGED counting
  BY DEF Import, StartFile, ReadFile, FinishFile, FailFile
<1>2. IsSharded' = IsSharded
  BY <1>1 DEF IsSharded
<1>3. ASSUME ~ IsSharded, DOMAIN shards = {<<>>} PROVE DOMAIN shards' = {<<>>}
  <2>1. ~ HasTx
    BY <1>3 DEF HasTx
  <2>2. \A g : RouteOf(g) = <<>>
    BY <1>3 DEF RouteOf
  <2>3. \A w, r, j : Store(w, r, j) =>
           \E t : shards' = Put(shards, <<>>, t)
    BY <2>1, <2>2 DEF Store
  <2>4. \/ shards' = shards
        \/ \E t : shards' = Put(shards, <<>>, t)
    BY <2>1, <2>3 DEF Import, StartFile, ReadFile, FinishFile, FailFile, SkipLine, AddLine,
                      NextNgram, Flush
  <2>5. ASSUME NEW t, shards' = Put(shards, <<>>, t) PROVE DOMAIN shards' = {<<>>}
    <3>1. DOMAIN Put(shards, <<>>, t) = DOMAIN shards \cup {<<>>}
      BY PutIs
    <3>. QED BY <1>3, <2>5, <3>1
  <2>6. CASE shards' = shards
    BY <1>3, <2>6
  <2>. QED BY <2>4, <2>5, <2>6
<1>4. freq' = freq /\ pairs' = pairs /\ cancelled' = cancelled
  BY <1>1 DEF counting
<1>. QED BY <1>1, <1>2, <1>3, <1>4 DEF StatsInv

\* Nothing has been visited.
LEMMA NothingCounted ==
    ASSUME NEW sharded, NEW sh
    PROVE  CountedIn(sharded, sh, {}) = ZeroFreq
<1>1. KeysIn(sh, {}) = {}
  BY DEF KeysIn
<1>. QED BY <1>1, TallyNothing DEF CountedIn

\* The passes.
LEMMA StatsCounted ==
    ASSUME PipelineInv, StatsInv, ComputeMkn
    PROVE  StatsInv'
<1>. SUFFICES ASSUME Cardinality(setup.cpus) = 1 PROVE StatsInv'
  <2>1. setup' = setup
    BY DEF ComputeMkn, StartFinalize, CountTrie, EndCounting, NextOrder, CountShard,
           FollowShard, SkipShard, SaveStats, CompleteMkn
  <2>. QED BY <2>1 DEF StatsInv
<1>1. CASE StartFinalize
  <2>1. /\ setup' = setup /\ shards' = shards /\ freq' = freq /\ pairs' = pairs
        /\ phase = "importing" /\ phase' \in {"counting", "finished"}
        /\ phase' = "counting" => todo' = DOMAIN shards
    BY <1>1 DEF StartFinalize
  <2>2. IsSharded' = IsSharded
    BY <2>1 DEF IsSharded
  <2>3. DOMAIN shards \ DOMAIN shards = {}
    OBVIOUS
  <2>4. freq = ZeroFreq /\ pairs = {} /\ (~ IsSharded => DOMAIN shards = {<<>>})
    BY <2>1 DEF StatsInv
  <2>. QED BY <2>1, <2>2, <2>3, <2>4, NothingCounted DEF StatsInv
<1>2. CASE CountTrie
  <2>1. /\ setup' = setup /\ shards' = shards /\ phase = "counting" /\ phase' = "saving"
        /\ freq' = CountNgrams(freq, shards[<<>>]) /\ pairs' = PairsOf(shards[<<>>], Nat)
        /\ ~ IsSharded
    BY <1>2 DEF CountTrie
  <2>2. IsSharded' = IsSharded
    BY <2>1 DEF IsSharded
  <2>3. freq = ZeroFreq /\ DOMAIN shards = {<<>>}
    BY <2>1 DEF StatsInv
  <2>4. CountNgrams(CountedIn(IsSharded, shards, {}), shards[<<>>])
            = CountedIn(IsSharded, shards, {} \cup {<<>>})
    BY <2>3, ShardCounted
  <2>5. {} \cup {<<>>} = DOMAIN shards
    BY <2>3
  <2>6. freq' = CountedIn(IsSharded, shards, DOMAIN shards)
    BY <2>1, <2>3, <2>4, <2>5, NothingCounted
  <2>7. pairs' = AllPairs(IsSharded, shards)
    <3>1. PairsOf(shards[<<>>], Nat) = PairsIn(IsSharded, shards[<<>>], Nat)
      BY DEF PairsOf, PairsIn
    <3>2. AllPairs(IsSharded, shards) = PairsIn(IsSharded, shards[<<>>], Nat)
      BY <2>3 DEF AllPairs
    <3>. QED BY <2>1, <3>1, <3>2
  <2>. QED BY <2>1, <2>2, <2>3, <2>6, <2>7 DEF StatsInv
<1>3. CASE EndCounting
  <2>1. /\ setup' = setup /\ shards' = shards /\ freq' = freq /\ pairs' = pairs
        /\ phase = "counting" /\ IsSharded /\ todo = {} /\ ~ cancelled
        /\ IF setup.follow
           THEN phase' = "following" /\ todo' = DOMAIN shards /\ order' = 2
           ELSE phase' = "saving"
        /\ unread' = unread
    BY <1>3 DEF EndCounting, CountsUsable
  <2>2. IsSharded' = IsSharded
    BY <2>1 DEF IsSharded
  <2>3. DOMAIN shards \ {} = DOMAIN shards
    OBVIOUS
  <2>4. pairs = {} /\ (unread = {} => freq = CountedIn(IsSharded, shards, DOMAIN shards))
    BY <2>1, <2>3 DEF StatsInv
  <2>5. PairsUpTo(IsSharded, shards, DOMAIN shards, 2) = {}
    BY PairsBegin
  <2>6. CASE setup.follow
    <3>1. /\ phase' = "following" /\ order' = 2 /\ order' \in Nat /\ order' >= 2
          /\ todo' = DOMAIN shards
      BY <2>1, <2>6
    <3>2. pairs' = PairsUpTo(IsSharded, shards, DOMAIN shards, 2)
      BY <2>1, <2>4, <2>5
    <3>3. pairs' = PairsUpTo(IsSharded, shards, todo', order')
      BY <3>1, <3>2
    <3>. QED BY <2>1, <2>2, <2>4, <3>1, <3>3 DEF StatsInv
  <2>7. CASE ~ setup.follow
    BY <2>1, <2>2, <2>4, <2>7 DEF StatsInv
  <2>. QED BY <2>6, <2>7
<1>4. CASE NextOrder
  <2>1. /\ setup' = setup /\ shards' = shards /\ freq' = freq /\ pairs' = pairs
        /\ phase = "following" /\ todo = {}
        /\ IF order < MaxOrder
           THEN order' = order + 1 /\ todo' = DOMAIN shards /\ phase' = phase
           ELSE phase' = "saving"
        /\ unread' = unread
    BY <1>4 DEF NextOrder
  <2>2. IsSharded' = IsSharded
    BY <2>1 DEF IsSharded
  <2>3. /\ order \in Nat /\ order >= 2 /\ IsSharded
        /\ unread = {} => /\ freq = CountedIn(IsSharded, shards, DOMAIN shards)
                          /\ pairs = PairsUpTo(IsSharded, shards, {}, order)
    BY <2>1 DEF StatsInv
  <2>4. CASE order < MaxOrder
    <3>1. unread = {} => pairs = PairsUpTo(IsSharded, shards, DOMAIN shards, order + 1)
      BY <2>3, PairsTurn
    <3>2. order + 1 \in Nat /\ order + 1 >= 2
      BY <2>3
    <3>. QED BY <2>1, <2>2, <2>3, <2>4, <3>1, <3>2 DEF StatsInv
  <2>5. CASE ~ order < MaxOrder
    <3>1. order >= MaxOrder
      BY <2>3, <2>5, NumbersAssumption
    <3>2. unread = {} => pairs = AllPairs(IsSharded, shards)
      BY <2>3, <3>1, PairsEnd
    <3>. QED BY <2>1, <2>2, <2>3, <2>5, <3>2 DEF StatsInv
  <2>. QED BY <2>4, <2>5
<1>5. ASSUME NEW k \in todo, CountShard(k) PROVE StatsInv'
  <2>1. /\ setup' = setup /\ shards' = shards /\ pairs' = pairs
        /\ phase = "counting" /\ phase' = phase /\ IsSharded /\ todo' = todo \ {k}
        /\ ~ cancelled' => ~ cancelled /\ freq' = CountNgrams(freq, shards[k])
        /\ unread' = unread
    BY <1>5 DEF CountShard
  <2>2. IsSharded' = IsSharded
    BY <2>1 DEF IsSharded
  <2>3. pairs = {} /\ todo \subseteq DOMAIN shards
    BY <2>1 DEF StatsInv
  <2>4. ASSUME ~ cancelled', unread = {}
        PROVE  freq' = CountedIn(IsSharded, shards, DOMAIN shards \ todo')
    <3>1. freq = CountedIn(IsSharded, shards, DOMAIN shards \ todo)
      BY <2>1, <2>4 DEF StatsInv
    <3>2. CountNgrams(CountedIn(IsSharded, shards, DOMAIN shards \ todo), shards[k])
              = CountedIn(IsSharded, shards, (DOMAIN shards \ todo) \cup {k})
      BY <2>3, ShardCounted
    <3>3. (DOMAIN shards \ todo) \cup {k} = DOMAIN shards \ todo'
      BY <2>1, <2>3
    <3>. QED BY <2>1, <2>4, <3>1, <3>2, <3>3
  <2>. QED BY <2>1, <2>2, <2>3, <2>4 DEF StatsInv
<1>6. ASSUME NEW k \in todo, FollowShard(k) PROVE StatsInv'
  <2>1. /\ setup' = setup /\ shards' = shards /\ freq' = freq /\ order' = order
        /\ phase = "following" /\ phase' = phase /\ todo' = todo \ {k}
        /\ pairs' = pairs \cup PairsOf(shards[k], {order}) /\ unread' = unread
    BY <1>6 DEF FollowShard
  <2>2. IsSharded' = IsSharded
    BY <2>1 DEF IsSharded
  <2>3. /\ order \in Nat /\ order >= 2 /\ IsSharded /\ todo \subseteq DOMAIN shards
        /\ unread = {} => /\ freq = CountedIn(IsSharded, shards, DOMAIN shards)
                          /\ pairs = PairsUpTo(IsSharded, shards, todo, order)
    BY <2>1 DEF StatsInv
  <2>4. PairsOf(shards[k], {order}) = PairsIn(IsSharded, shards[k], {order})
    BY DEF PairsOf, PairsIn
  <2>5. PairsUpTo(IsSharded, shards, todo \ {k}, order)
            = PairsUpTo(IsSharded, shards, todo, order) \cup PairsIn(IsSharded, shards[k], {order})
    <3>1. k \in DOMAIN shards
      BY <2>3
    <3>2. \A b : PairsUpTo(b, shards, todo \ {k}, order)
                   = PairsUpTo(b, shards, todo, order) \cup PairsIn(b, shards[k], {order})
      BY <2>3, <3>1, PairsVisit
    <3>. QED BY <3>2
  <2>6. unread = {} => pairs' = PairsUpTo(IsSharded, shards, todo \ {k}, order)
    BY <2>1, <2>3, <2>4, <2>5
  <2>. QED BY <2>1, <2>2, <2>3, <2>6 DEF StatsInv
<1>7. CASE SaveStats \/ CompleteMkn
  <2>1. Still /\ phase' \in {"saved", "finished"}
    BY <1>7 DEF SaveStats, CompleteMkn, Still, counting
  <2>. QED BY <2>1, StillKeeps
<1>8. ASSUME NEW k \in todo, SkipShard(k) PROVE StatsInv'
  <2>1. /\ setup' = setup /\ shards' = shards /\ freq' = freq /\ order' = order
        /\ phase \in {"counting", "following"} /\ phase' = phase /\ todo' = todo \ {k}
        /\ pairs' = pairs /\ cancelled' = cancelled /\ unread' # {}
    BY <1>8 DEF SkipShard
  <2>2. IsSharded' = IsSharded
    BY <2>1 DEF IsSharded
  <2>3. todo' \subseteq todo
    BY <2>1
  <2>. QED BY <2>1, <2>2, <2>3 DEF StatsInv
<1>. QED BY <1>1, <1>2, <1>3, <1>4, <1>5, <1>6, <1>7, <1>8 DEF ComputeMkn

\* The merge, and the end of the import.
LEMMA StatsMerged ==
    ASSUME StatsInv, Merge
    PROVE  StatsInv'
<1>1. setup' = setup /\ IsSharded' = IsSharded
  BY DEF Merge, CleanupCheckpoint, MergeShard, EndMerge, IsSharded
<1>2. CASE CleanupCheckpoint
  <2>1. shards' = shards /\ ((phase' = "merging" /\ IsSharded) \/ phase' = "ended")
    BY <1>2 DEF CleanupCheckpoint, MergeWanted
  <2>. QED BY <1>1, <2>1 DEF StatsInv
<1>3. ASSUME NEW k \in todo, MergeShard(k) PROVE StatsInv'
  <2>1. shards' = shards /\ phase = "merging" /\ phase' = phase
    BY <1>3 DEF MergeShard
  <2>. QED BY <1>1, <2>1 DEF StatsInv
<1>4. CASE EndMerge
  <2>1. phase = "merging" /\ phase' = "ended"
    BY <1>4 DEF EndMerge
  <2>. QED BY <1>1, <2>1 DEF StatsInv
<1>. QED BY <1>2, <1>3, <1>4 DEF Merge

\* Every step.
LEMMA StatsSteps ==
    ASSUME PipelineInv, StatsInv, [Next]_vars
    PROVE  StatsInv'
<1>1. CASE Import
  BY <1>1, ImportCounts
<1>2. CASE ComputeMkn
  BY <1>2, StatsCounted
<1>3. CASE Merge
  BY <1>3, StatsMerged
<1>4. CASE Interrupt
  <2>1. Still /\ phase' = phase
    BY <1>4 DEF Interrupt, Still
  <2>. QED BY <2>1, StillKeeps
<1>5. CASE EndSession
  <2>1. /\ setup' = setup /\ shards' = shards /\ phase' = "over" /\ freq' = ZeroFreq
        /\ pairs' = {} /\ cancelled' = FALSE
    BY <1>5 DEF EndSession, ZeroFreq
  <2>2. IsSharded' = IsSharded
    BY <2>1 DEF IsSharded
  <2>. QED BY <2>1, <2>2 DEF StatsInv
<1>6. CASE Resume
  <2>1. Still /\ phase = "over" /\ phase' = "importing"
    BY <1>6 DEF Resume, Still, counting
  <2>. QED BY <2>1, StillKeeps
<1>7. CASE UNCHANGED vars
  <2>1. Still /\ phase' = phase
    BY <1>7 DEF vars, Still, counting
  <2>. QED BY <2>1, StillKeeps
<1>8. CASE Terminated
  BY <1>7, <1>8 DEF Terminated
<1>. QED BY <1>1, <1>2, <1>3, <1>4, <1>5, <1>6, <1>7, <1>8 DEF Next

---------------------------------------------------------------------------
(* What is saved is exact. *)

\* The frequencies of some keys are those of their n-grams.
LEMMA FreqIs ==
    ASSUME PipelineInv, NEW G \in SUBSET Stored,
           NEW K \in SUBSET KeysIn(shards, DOMAIN shards),
           \A g \in Stored : g \in G <=> EncodeNgram(vocab, g) \in K
    PROVE  FreqExact(Observed(K, Held1(shards)), G)
<1>. DEFINE b == [g \in G |-> EncodeNgram(vocab, g)]
            val == Held1(shards)
            held == [g \in G |-> val[b[g]]]
<1>1. vocab \in Vocabularies(Words)
  BY DEF PipelineInv, TypesOK
<1>2. \A g \in Stored : Spells(g, EncodeNgram(vocab, g))
  BY StoredIs
<1>3. b \in [G -> K]
  OBVIOUS
<1>4. \A g, h \in G : b[g] = b[h] => g = h
  <2>. SUFFICES ASSUME NEW g \in G, NEW h \in G, EncodeNgram(vocab, g) = EncodeNgram(vocab, h)
                PROVE  g = h
    OBVIOUS
  <2>1. /\ g \in Seq(Words) /\ Contained(vocab, g)
        /\ h \in Seq(Words) /\ Contained(vocab, h)
    BY <1>2 DEF Spells
  <2>. QED BY <1>1, <2>1, WordsFit, KeyInjective
<1>5. ASSUME NEW x \in K PROVE (\E g \in G : b[g] = x) /\ val[x] \in Nat
  <2>1. PICK k \in DOMAIN shards : x \in Ngrams(shards[k])
    BY DEF KeysIn
  <2>2. PICK g \in Stored : Spells(g, x)
    BY <2>1, KeyIs
  <2>3. x = EncodeNgram(vocab, g)
    BY <2>2 DEF Spells
  <2>4. At(shards, x) \in Nat
    BY <2>1, KeyIs
  <2>5. val[x] = At(shards, x)
    BY DEF Held1
  <2>. QED BY <2>3, <2>4, <2>5
<1>6. \A g \in G : held[g] = Held(g)
  <2>. SUFFICES ASSUME NEW g \in G PROVE val[EncodeNgram(vocab, g)] = Held(g)
    OBVIOUS
  <2>1. Held(g) = At(shards, EncodeNgram(vocab, g))
    BY <1>2 DEF Spells
  <2>2. EncodeNgram(vocab, g) \in KeysIn(shards, DOMAIN shards)
    BY StoredIs
  <2>. QED BY <2>1, <2>2 DEF Held1
<1>. HIDE DEF b, val
<1>7. b \in Bijection(G, K)
  BY <1>3, <1>4, <1>5 DEF Bijection, Injection, Surjection, IsInjective
<1>8. IsFiniteSet(G)
  <2>1. IsFiniteSet(K)
    <3>1. IsFiniteSet(KeysIn(shards, DOMAIN shards))
      BY KeysFinite
    <3>. QED BY <3>1, FS_Subset
  <2>2. b \in Injection(G, K)
    BY <1>7 DEF Bijection
  <2>. QED BY <2>1, <2>2, FS_Injection
<1>9. Observed(K, val) = Observed(G, held)
  BY <1>5, <1>7, <1>8, ObservedRenamed
<1>10. held = [g \in G |-> Held(g)]
  BY <1>6
<1>. HIDE DEF held
<1>11. /\ \A i \in 1 .. 4 : Observed(G, held).n[i] = Cardinality({g \in G : held[g] = i})
       /\ Observed(G, held).unique = Cardinality(G)
       /\ Observed(G, held).total = SumFunction([g \in G |-> held[g]])
  BY DEF Observed
<1>12. \A i : {g \in G : held[g] = i} = {g \in G : Held(g) = i}
  BY <1>6
<1>13. [g \in G |-> held[g]] = [g \in G |-> Held(g)]
  BY <1>6
<1>. QED BY <1>9, <1>11, <1>12, <1>13 DEF FreqExact, val

\* The frequencies are exact.
LEMMA FreqFollows ==
    ASSUME PipelineInv
    PROVE  LET fr == CountedIn(IsSharded, shards, DOMAIN shards)
           IN  IF IsSharded
               THEN \A o \in 1 .. MaxOrder : FreqExact(fr[o], {g \in Stored : Len(g) = o})
               ELSE FreqExact(fr[0], Stored)
<1>. DEFINE All == KeysIn(shards, DOMAIN shards)
            fr == CountedIn(IsSharded, shards, DOMAIN shards)
<1>1. \A o \in 0 .. MaxOrder : fr[o] = Observed(OfOrder(IsSharded, All, o), Held1(shards))
  BY DEF CountedIn, Tally
<1>2. MaxOrder \in Nat
  BY NumbersAssumption
<1>. HIDE DEF fr
<1>3. ASSUME IsSharded, NEW o \in 1 .. MaxOrder
      PROVE  FreqExact(fr[o], {g \in Stored : Len(g) = o})
  <2>. DEFINE G == {g \in Stored : Len(g) = o}
              K == OfOrder(IsSharded, All, o)
  <2>1. \A g \in Stored : g \in G <=> EncodeNgram(vocab, g) \in K
    <3>. SUFFICES ASSUME NEW g \in Stored PROVE g \in G <=> EncodeNgram(vocab, g) \in K
      OBVIOUS
    <3>1. KeyOrder(EncodeNgram(vocab, g)) = Len(g) /\ EncodeNgram(vocab, g) \in All
      BY StoredIs DEF Spells
    <3>. QED BY <1>3, <3>1 DEF OfOrder, OrderIn
  <2>2. K \in SUBSET All
    BY DEF OfOrder
  <2>3. G \in SUBSET Stored
    OBVIOUS
  <2>4. fr[o] = Observed(K, Held1(shards))
    BY <1>1, <1>2
  <2>. HIDE DEF G, K
  <2>5. FreqExact(Observed(K, Held1(shards)), G)
    BY <2>1, <2>2, <2>3, FreqIs
  <2>. QED BY <2>4, <2>5 DEF G
<1>4. ASSUME ~ IsSharded PROVE FreqExact(fr[0], Stored)
  <2>1. OfOrder(IsSharded, All, 0) = All
    BY <1>4 DEF OfOrder, OrderIn
  <2>2. fr[0] = Observed(All, Held1(shards))
    BY <1>1, <1>2, <2>1
  <2>3. \A g \in Stored : EncodeNgram(vocab, g) \in All
    BY StoredIs
  <2>4. FreqExact(Observed(All, Held1(shards)), Stored)
    BY <2>3, FreqIs
  <2>. QED BY <2>2, <2>4
<1>. QED BY <1>3, <1>4 DEF fr

---------------------------------------------------------------------------
(* Both kinds of pairs at once: the context of an n-gram, and what         *)
(* precedes or follows it.                                                 *)

Sides == {"predecessor", "successor"}

Ctx(side, s) == IF side = "predecessor" THEN Tail(s) ELSE Front(s)

Item(side, s) == IF side = "predecessor" THEN Head(s) ELSE Last(s)

PairOf(sharded, side, key) ==
    LET g == DecodeKey(key)
    IN  <<side, IF sharded THEN Len(g) ELSE 0, EncodeIndices(Ctx(side, g)), Item(side, g)>>

\* Where the context begins, and where the other word is.
Offset(side) == IF side = "predecessor" THEN 1 ELSE 0

Place(side, n) == IF side = "predecessor" THEN 1 ELSE n

\* A context has one word less, and is the n-gram from an offset on.
LEMMA CtxIs ==
    ASSUME NEW side \in Sides, NEW T, NEW s \in Seq(T), Len(s) >= 1
    PROVE  /\ Ctx(side, s) \in Seq(T) /\ Len(Ctx(side, s)) = Len(s) - 1
           /\ \A i \in 1 .. Len(s) - 1 : Ctx(side, s)[i] = s[i + Offset(side)]
           /\ Item(side, s) = s[Place(side, Len(s))] /\ Item(side, s) \in T
<1>1. CASE side = "predecessor"
  <2>1. /\ Tail(s) \in Seq(T) /\ Len(Tail(s)) = Len(s) - 1
        /\ \A i \in 1 .. Len(s) - 1 : Tail(s)[i] = s[i + 1]
    OBVIOUS
  <2>2. Head(s) = s[1] /\ s[1] \in T
    OBVIOUS
  <2>. QED BY <1>1, <2>1, <2>2 DEF Ctx, Item, Offset, Place
<1>2. CASE side = "successor"
  <2>1. /\ Front(s) \in Seq(T) /\ Len(Front(s)) = Len(s) - 1
        /\ \A i \in 1 .. Len(s) - 1 : Front(s)[i] = s[i]
    <3>. DEFINE m == Len(s) - 1
                x == SubSeq(s, 1, m)
    <3>1. /\ 1 \in Int /\ m \in Int /\ m >= 0 /\ \A i \in 1 .. m : s[i] \in T
          /\ m - 1 + 1 = m /\ \A i \in 1 .. m : 1 + i - 1 = i
      OBVIOUS
    <3>. HIDE DEF m
    <3>2. /\ x \in Seq(T) /\ Len(x) = IF 1 <= m THEN m - 1 + 1 ELSE 0
          /\ \A i \in 1 .. m - 1 + 1 : x[i] = s[1 + i - 1]
      BY <3>1, SubSeqProperties
    <3>. HIDE DEF x
    <3>3. x \in Seq(T) /\ Len(x) = m /\ \A i \in 1 .. m : x[i] = s[i]
      BY <3>1, <3>2
    <3>. QED BY <3>3 DEF Front, x, m
  <2>2. Last(s) = s[Len(s)] /\ s[Len(s)] \in T
    BY DEF Last
  <2>3. \A i \in 1 .. Len(s) - 1 : i + 0 = i
    OBVIOUS
  <2>. QED BY <1>2, <2>1, <2>2, <2>3 DEF Ctx, Item, Offset, Place
<1>. QED BY <1>1, <1>2 DEF Sides

\* A context and what precedes or follows it make the n-gram.
LEMMA CtxMakes ==
    ASSUME NEW side \in Sides, NEW T, NEW s \in Seq(T), Len(s) >= 1, NEW t \in Seq(T), Len(t) >= 1,
           Ctx(side, s) = Ctx(side, t), Item(side, s) = Item(side, t)
    PROVE  s = t
<1>1. /\ Len(Ctx(side, s)) = Len(s) - 1 /\ Item(side, s) = s[Place(side, Len(s))]
      /\ \A i \in 1 .. Len(s) - 1 : Ctx(side, s)[i] = s[i + Offset(side)]
  BY CtxIs
<1>2. /\ Len(Ctx(side, t)) = Len(t) - 1 /\ Item(side, t) = t[Place(side, Len(t))]
      /\ \A i \in 1 .. Len(t) - 1 : Ctx(side, t)[i] = t[i + Offset(side)]
  BY CtxIs
<1>3. Len(s) = Len(t)
  BY <1>1, <1>2
<1>4. ASSUME NEW j \in 1 .. Len(s) PROVE s[j] = t[j]
  <2>1. CASE side = "predecessor" /\ j > 1
    <3>1. j - 1 \in 1 .. Len(s) - 1 /\ (j - 1) + 1 = j
      BY <2>1
    <3>2. s[(j - 1) + 1] = t[(j - 1) + 1]
      BY <1>1, <1>2, <1>3, <2>1, <3>1 DEF Offset
    <3>. QED BY <3>1, <3>2
  <2>2. CASE side = "predecessor" /\ j = 1
    BY <1>1, <1>2, <2>2 DEF Place
  <2>3. CASE side = "successor" /\ j < Len(s)
    <3>1. j \in 1 .. Len(s) - 1 /\ j + 0 = j
      BY <2>3
    <3>2. s[j + 0] = t[j + 0]
      BY <1>1, <1>2, <1>3, <2>3, <3>1 DEF Offset
    <3>. QED BY <3>1, <3>2
  <2>4. CASE side = "successor" /\ j = Len(s)
    BY <1>1, <1>2, <1>3, <2>4 DEF Place
  <2>. QED BY <2>1, <2>2, <2>3, <2>4 DEF Sides
<1>. QED BY <1>3, <1>4

\* The indices of a context are the context of the indices.
LEMMA CtxIndices ==
    ASSUME NEW side \in Sides, NEW v \in Vocabularies(Words), NEW g \in Seq(Words), Len(g) >= 1,
           Contained(v, g)
    PROVE  /\ Ctx(side, g) \in Seq(Words) /\ Contained(v, Ctx(side, g))
           /\ EncodeNgram(v, Ctx(side, g)) = EncodeIndices(Ctx(side, Indices(v, g)))
           /\ Item(side, g) \in Words /\ Contains(v, Item(side, g))
           /\ Item(side, Indices(v, g)) = IndexOf(v, Item(side, g))
<1>. DEFINE c == Ctx(side, g)
            d == Ctx(side, Indices(v, g))
            n == Len(g)
<1>1. /\ c \in Seq(Words) /\ Len(c) = n - 1 /\ \A i \in 1 .. n - 1 : c[i] = g[i + Offset(side)]
      /\ Item(side, g) = g[Place(side, n)] /\ Item(side, g) \in Words
  BY CtxIs
<1>2. n \in Nat /\ DOMAIN g = 1 .. n
  OBVIOUS
<1>3. /\ Indices(v, g) \in Seq(Nat) /\ Len(Indices(v, g)) = n
      /\ \A i \in 1 .. n : Indices(v, g)[i] = IndexOf(v, g[i])
  BY WordsFit, IndicesAre
<1>4. /\ d \in Seq(Nat) /\ Len(d) = n - 1
      /\ \A i \in 1 .. n - 1 : d[i] = Indices(v, g)[i + Offset(side)]
      /\ Item(side, Indices(v, g)) = Indices(v, g)[Place(side, n)]
  <2>. DEFINE s == Indices(v, g)
  <2>1. s \in Seq(Nat) /\ Len(s) = n /\ Len(s) >= 1
    BY <1>3
  <2>. HIDE DEF s
  <2>2. /\ Ctx(side, s) \in Seq(Nat) /\ Len(Ctx(side, s)) = Len(s) - 1
        /\ \A i \in 1 .. Len(s) - 1 : Ctx(side, s)[i] = s[i + Offset(side)]
        /\ Item(side, s) = s[Place(side, Len(s))]
    BY <2>1, CtxIs
  <2>. QED BY <2>1, <2>2 DEF s
<1>5. Place(side, n) \in 1 .. n /\ \A i \in 1 .. n - 1 : i + Offset(side) \in 1 .. n
  BY <1>2 DEF Place, Offset
<1>6. \A i \in 1 .. n : Contains(v, g[i])
  BY <1>2 DEF Contained
<1>. HIDE DEF c, d, n
<1>7. DOMAIN c = 1 .. n - 1
  BY <1>1, <1>2
<1>8. Contained(v, c)
  BY <1>1, <1>5, <1>6, <1>7 DEF Contained
<1>9. Indices(v, c) = d
  <2>1. Indices(v, c) \in Seq(Nat) /\ Len(Indices(v, c)) = n - 1
    BY <1>1, <1>8, WordsFit, IndicesAre
  <2>2. \A i \in 1 .. n - 1 : Indices(v, c)[i] = IndexOf(v, c[i])
    BY <1>7 DEF Indices
  <2>3. \A i \in 1 .. n - 1 : Indices(v, c)[i] = d[i]
    BY <1>1, <1>3, <1>4, <1>5, <2>2
  <2>. QED BY <1>4, <2>1, <2>3
<1>10. EncodeNgram(v, c) = EncodeIndices(Indices(v, c))
  BY <1>1, <1>8, WordsFit, IndicesAre
<1>11. Item(side, Indices(v, g)) = IndexOf(v, Item(side, g)) /\ Contains(v, Item(side, g))
  BY <1>1, <1>3, <1>4, <1>5, <1>6
<1>. QED BY <1>1, <1>8, <1>9, <1>10, <1>11 DEF c, d

\* An n-gram's pair.
PairFor(sharded, side, g) ==
    <<side, IF sharded THEN Len(g) ELSE 0, EncodeNgram(vocab, Ctx(side, g)),
      IndexOf(vocab, Item(side, g))>>

\* The pair of a key is that of the n-gram that it spells.
LEMMA PairIs ==
    ASSUME vocab \in Vocabularies(Words), NEW g, NEW key, Spells(g, key), NEW side \in Sides,
           NEW sharded
    PROVE  PairOf(sharded, side, key) = PairFor(sharded, side, g)
<1>1. /\ g \in Seq(Words) /\ Contained(vocab, g) /\ Len(g) >= 1
      /\ DecodeKey(key) = Indices(vocab, g)
  BY DEF Spells
<1>2. Len(Indices(vocab, g)) = Len(g)
  BY <1>1, WordsFit, IndicesAre
<1>. QED BY <1>1, <1>2, CtxIndices DEF PairOf, PairFor

\* All pairs are those of the stored n-grams of two words and more.
LEMMA AllPairsAre ==
    ASSUME PipelineInv, NEW sharded
    PROVE  \A p : p \in AllPairs(sharded, shards)
                   <=> \E side \in Sides : \E g \in Stored :
                          Len(g) >= 2 /\ p = PairFor(sharded, side, g)
<1>. DEFINE Long == {key \in KeysIn(shards, DOMAIN shards) : Len(DecodeKey(key)) >= 2}
<1>1. vocab \in Vocabularies(Words)
  BY DEF PipelineInv, TypesOK
<1>2. \A key : PairsOfKey(sharded, key) = {PairOf(sharded, side, key) : side \in Sides}
  BY DEF PairsOfKey, PairOf, Sides, Ctx, Item
<1>3. \A p : p \in AllPairs(sharded, shards) <=> \E key \in Long : p \in PairsOfKey(sharded, key)
  <2>1. \A k \in DOMAIN shards : \A key \in Ngrams(shards[k]) : Len(DecodeKey(key)) \in Nat
    <3>. SUFFICES ASSUME NEW k \in DOMAIN shards, NEW key \in Ngrams(shards[k])
                  PROVE  Len(DecodeKey(key)) \in Nat
      OBVIOUS
    <3>1. PICK g \in Stored : Spells(g, key)
      BY KeyIs
    <3>. QED BY <3>1 DEF Spells, KeyOrder
  <2>2. \A k \in DOMAIN shards :
            LongIn(shards[k], Nat) = {key \in Ngrams(shards[k]) : Len(DecodeKey(key)) >= 2}
    BY <2>1 DEF LongIn
  <2>3. \A k \in DOMAIN shards : PairsIn(sharded, shards[k], Nat)
                = UNION {PairsOfKey(sharded, key) : key \in LongIn(shards[k], Nat)}
    BY PairsAre
  <2>4. \A key : key \in Long <=> \E k \in DOMAIN shards : key \in LongIn(shards[k], Nat)
    BY <2>2 DEF KeysIn
  <2>5. \A p : p \in AllPairs(sharded, shards)
                <=> \E k \in DOMAIN shards : \E key \in LongIn(shards[k], Nat) :
                       p \in PairsOfKey(sharded, key)
    BY <2>3 DEF AllPairs
  <2>. HIDE DEF Long
  <2>. QED BY <2>4, <2>5
<1>4. ASSUME NEW key \in Long
      PROVE  \E g \in Stored : Spells(g, key) /\ Len(g) >= 2
  <2>1. PICK k \in DOMAIN shards : key \in Ngrams(shards[k])
    BY DEF KeysIn
  <2>2. PICK g \in Stored : Spells(g, key)
    BY <2>1, KeyIs
  <2>. QED BY <2>2 DEF Spells, KeyOrder
<1>5. ASSUME NEW g \in Stored, Len(g) >= 2
      PROVE  Spells(g, EncodeNgram(vocab, g)) /\ EncodeNgram(vocab, g) \in Long
  <2>1. Spells(g, EncodeNgram(vocab, g)) /\ EncodeNgram(vocab, g) \in KeysIn(shards, DOMAIN shards)
    BY StoredIs
  <2>. QED BY <1>5, <2>1 DEF Spells, KeyOrder
<1>. HIDE DEF Long
<1>6. ASSUME NEW p, p \in AllPairs(sharded, shards)
      PROVE  \E side \in Sides : \E g \in Stored : Len(g) >= 2 /\ p = PairFor(sharded, side, g)
  <2>1. PICK key \in Long : p \in PairsOfKey(sharded, key)
    BY <1>3, <1>6
  <2>2. PICK side \in Sides : p = PairOf(sharded, side, key)
    BY <1>2, <2>1
  <2>3. PICK g \in Stored : Spells(g, key) /\ Len(g) >= 2
    BY <1>4
  <2>4. p = PairFor(sharded, side, g)
    BY <1>1, <2>2, <2>3, PairIs
  <2>. QED BY <2>3, <2>4
<1>7. ASSUME NEW side \in Sides, NEW g \in Stored, Len(g) >= 2
      PROVE  PairFor(sharded, side, g) \in AllPairs(sharded, shards)
  <2>1. Spells(g, EncodeNgram(vocab, g)) /\ EncodeNgram(vocab, g) \in Long
    BY <1>5, <1>7
  <2>2. PairFor(sharded, side, g) = PairOf(sharded, side, EncodeNgram(vocab, g))
    BY <1>1, <2>1, PairIs
  <2>3. PairFor(sharded, side, g) \in PairsOfKey(sharded, EncodeNgram(vocab, g))
    BY <1>2, <2>2
  <2>. QED BY <1>3, <2>1, <2>3
<1>. QED BY <1>6, <1>7

\* The stored n-grams are as many as their keys.
LEMMA StoredFinite ==
    ASSUME PipelineInv
    PROVE  IsFiniteSet(Stored)
<1>. DEFINE All == KeysIn(shards, DOMAIN shards)
            b == [g \in Stored |-> EncodeNgram(vocab, g)]
<1>1. vocab \in Vocabularies(Words)
  BY DEF PipelineInv, TypesOK
<1>2. b \in [Stored -> All]
  <2>1. \A g \in Stored : EncodeNgram(vocab, g) \in All
    BY StoredIs
  <2>. HIDE DEF All
  <2>. QED BY <2>1
<1>3. \A g, h \in Stored : b[g] = b[h] => g = h
  <2>. SUFFICES ASSUME NEW g \in Stored, NEW h \in Stored,
                       EncodeNgram(vocab, g) = EncodeNgram(vocab, h)
                PROVE  g = h
    OBVIOUS
  <2>1. /\ g \in Seq(Words) /\ Contained(vocab, g)
        /\ h \in Seq(Words) /\ Contained(vocab, h)
    BY StoredIs DEF Spells
  <2>. QED BY <1>1, <2>1, WordsFit, KeyInjective
<1>4. IsFiniteSet(All)
  BY KeysFinite
<1>. HIDE DEF b, All
<1>5. b \in Injection(Stored, All)
  BY <1>2, <1>3 DEF Injection, IsInjective
<1>. QED BY <1>4, <1>5, FS_Injection

\* What precedes, or follows, a context is counted once for each n-gram.
LEMMA FollowIs ==
    ASSUME PipelineInv, NEW sharded, NEW side \in Sides, NEW g \in Stored, Len(g) >= 2
    PROVE  CountIn(CountPairs(AllPairs(sharded, shards)),
                   <<side, IF sharded THEN Len(g) ELSE 0, EncodeNgram(vocab, Ctx(side, g))>>)
           = Cardinality({h \in Stored : Len(h) = Len(g) /\ Ctx(side, h) = Ctx(side, g)})
<1>. DEFINE ps == AllPairs(sharded, shards)
            c == <<side, IF sharded THEN Len(g) ELSE 0, EncodeNgram(vocab, Ctx(side, g))>>
            A == {p \in ps : <<p[1], p[2], p[3]>> = c}
            B == {h \in Stored : Len(h) = Len(g) /\ Ctx(side, h) = Ctx(side, g)}
            m == [h \in B |-> PairFor(sharded, side, h)]
<1>1. vocab \in Vocabularies(Words)
  BY DEF PipelineInv, TypesOK
<1>2. ASSUME NEW h \in Stored, Len(h) >= 2
      PROVE  /\ h \in Seq(Words) /\ Len(h) \in Nat /\ Len(h) >= 1
             /\ Ctx(side, h) \in Seq(Words) /\ Contained(vocab, Ctx(side, h))
             /\ Len(Ctx(side, h)) = Len(h) - 1
             /\ Contains(vocab, Item(side, h))
  <2>1. h \in Seq(Words) /\ Contained(vocab, h) /\ Len(h) \in Nat /\ Len(h) >= 1
    BY StoredIs DEF Spells
  <2>2. /\ Ctx(side, h) \in Seq(Words) /\ Contained(vocab, Ctx(side, h))
        /\ Contains(vocab, Item(side, h))
    BY <1>1, <2>1, CtxIndices
  <2>3. Len(Ctx(side, h)) = Len(h) - 1
    BY <2>1, CtxIs
  <2>. QED BY <2>1, <2>2, <2>3
<1>3. ASSUME NEW h \in B
      PROVE  h \in Stored /\ Len(h) >= 2 /\ Len(h) = Len(g) /\ Ctx(side, h) = Ctx(side, g)
  OBVIOUS
<1>4. \A h \in B : PairFor(sharded, side, h) \in A
  <2>. SUFFICES ASSUME NEW h \in B PROVE PairFor(sharded, side, h) \in A
    OBVIOUS
  <2>1. PairFor(sharded, side, h) \in ps
    BY <1>3, AllPairsAre
  <2>. DEFINE p == PairFor(sharded, side, h)
  <2>2. <<p[1], p[2], p[3]>> = c
    BY <1>3 DEF PairFor
  <2>. QED BY <2>1, <2>2
<1>5. ASSUME NEW h \in B, NEW i \in B, PairFor(sharded, side, h) = PairFor(sharded, side, i)
      PROVE  h = i
  <2>1. IndexOf(vocab, Item(side, h)) = IndexOf(vocab, Item(side, i))
    BY <1>5 DEF PairFor
  <2>2. Contains(vocab, Item(side, h)) /\ Contains(vocab, Item(side, i))
    BY <1>2, <1>3
  <2>3. Item(side, h) = Item(side, i)
    BY <1>1, <2>1, <2>2, IndexIs
  <2>4. /\ h \in Seq(Words) /\ i \in Seq(Words) /\ Len(h) >= 1 /\ Len(i) >= 1
        /\ Ctx(side, h) = Ctx(side, i)
    BY <1>2, <1>3
  <2>. HIDE DEF B
  <2>. QED BY <2>3, <2>4, CtxMakes
<1>6. ASSUME NEW p \in A PROVE \E h \in B : PairFor(sharded, side, h) = p
  <2>1. p \in ps /\ <<p[1], p[2], p[3]>> = c
    OBVIOUS
  <2>2. PICK other \in Sides, h \in Stored : Len(h) >= 2 /\ p = PairFor(sharded, other, h)
    BY <2>1, AllPairsAre
  <2>3. other = side
    BY <2>1, <2>2 DEF PairFor
  <2>4. EncodeNgram(vocab, Ctx(side, h)) = EncodeNgram(vocab, Ctx(side, g))
    BY <2>1, <2>2, <2>3 DEF PairFor
  <2>5. /\ Ctx(side, h) \in Seq(Words) /\ Contained(vocab, Ctx(side, h))
        /\ Ctx(side, g) \in Seq(Words) /\ Contained(vocab, Ctx(side, g))
        /\ Len(Ctx(side, h)) = Len(h) - 1 /\ Len(Ctx(side, g)) = Len(g) - 1
        /\ Len(h) \in Nat /\ Len(g) \in Nat
    BY <1>2, <2>2
  <2>6. Ctx(side, h) = Ctx(side, g)
    BY <1>1, <2>4, <2>5, WordsFit, KeyInjective
  <2>7. Len(h) = Len(g)
    BY <2>5, <2>6
  <2>. QED BY <2>2, <2>3, <2>6, <2>7
<1>7. IsFiniteSet(B)
  <2>1. IsFiniteSet(Stored)
    BY StoredFinite
  <2>2. B \subseteq Stored
    OBVIOUS
  <2>. HIDE DEF B
  <2>. QED BY <2>1, <2>2, FS_Subset
<1>8. c \in Contexts(ps)
  <2>1. PairFor(sharded, side, g) \in A
    BY <1>4
  <2>. HIDE DEF c, ps
  <2>. QED BY <2>1 DEF Contexts
<1>9. CountIn(CountPairs(ps), c) = Cardinality(A)
  <2>. HIDE DEF c, ps
  <2>. QED BY <1>8 DEF CountPairs, CountIn
<1>10. /\ m \in [B -> A] /\ \A h, i \in B : m[h] = m[i] => h = i
       /\ \A p \in A : \E h \in B : m[h] = p
  <2>. HIDE DEF A, B
  <2>. QED BY <1>4, <1>5, <1>6
<1>. HIDE DEF A, B, m, c, ps
<1>11. m \in Bijection(B, A)
  BY <1>10 DEF Bijection, Injection, Surjection, IsInjective
<1>12. ExistsBijection(B, A)
  BY <1>11 DEF ExistsBijection
<1>13. Cardinality(A) = Cardinality(B)
  BY <1>7, <1>12, FS_Bijection
<1>14. CountIn(CountPairs(ps), c) = Cardinality(B)
  BY <1>9, <1>13
<1>. QED BY <1>14 DEF B, c, ps

\* The continuation counts are exact.
LEMMA FollowFollows ==
    ASSUME PipelineInv
    PROVE  FollowExact(CountPairs(AllPairs(IsSharded, shards)))
<1>. DEFINE follow == CountPairs(AllPairs(IsSharded, shards))
<1>. SUFFICES ASSUME NEW g \in Stored, Len(g) >= 2
              PROVE  LET o == IF IsSharded THEN Len(g) ELSE 0
                     IN  /\ CountIn(follow, <<"predecessor", o, EncodeNgram(vocab, Tail(g))>>)
                              = Cardinality({h \in Stored : Len(h) = Len(g) /\ Tail(h) = Tail(g)})
                         /\ CountIn(follow, <<"successor", o, EncodeNgram(vocab, Front(g))>>)
                              = Cardinality({h \in Stored : Len(h) = Len(g) /\ Front(h) = Front(g)})
  BY DEF FollowExact
<1>. DEFINE o == IF IsSharded THEN Len(g) ELSE 0
<1>1. \A side \in Sides :
         CountIn(follow, <<side, o, EncodeNgram(vocab, Ctx(side, g))>>)
             = Cardinality({h \in Stored : Len(h) = Len(g) /\ Ctx(side, h) = Ctx(side, g)})
  BY FollowIs
<1>. HIDE DEF follow, o
<1>2. "predecessor" \in Sides /\ "successor" \in Sides
  BY DEF Sides
<1>3. \A s : Ctx("predecessor", s) = Tail(s) /\ Ctx("successor", s) = Front(s)
  BY DEF Ctx
<1>4. CountIn(follow, <<"predecessor", o, EncodeNgram(vocab, Tail(g))>>)
          = Cardinality({h \in Stored : Len(h) = Len(g) /\ Tail(h) = Tail(g)})
  BY <1>1, <1>2, <1>3
<1>5. CountIn(follow, <<"successor", o, EncodeNgram(vocab, Front(g))>>)
          = Cardinality({h \in Stored : Len(h) = Len(g) /\ Front(h) = Front(g)})
  BY <1>1, <1>2, <1>3
<1>. QED BY <1>4, <1>5 DEF o

\* The step that writes the statistics.
LEMMA StatsSaved ==
    ASSUME PipelineInv, StatsInv, Next, stats' # stats, unread = {},
           Cardinality(setup.cpus) = 1
    PROVE  StatsExact
<1>1. CASE SaveStats
  <2>1. phase = "saving" /\ stats' = [freq |-> freq, follow |-> CountPairs(pairs)]
    BY <1>1 DEF SaveStats
  <2>2. stats'.freq = freq /\ stats'.follow = CountPairs(pairs)
    BY <2>1
  <2>3. /\ freq = CountedIn(IsSharded, shards, DOMAIN shards)
        /\ ~ IsSharded \/ setup.follow => pairs = AllPairs(IsSharded, shards)
    BY <2>1 DEF StatsInv
  <2>4. /\ IsSharded => \A o \in 1 .. MaxOrder : FreqExact(freq[o], {g \in Stored : Len(g) = o})
        /\ ~ IsSharded => FreqExact(freq[0], Stored)
    BY <2>3, FreqFollows
  <2>5. ~ IsSharded \/ setup.follow => FollowExact(CountPairs(pairs))
    BY <2>3, FollowFollows
  <2>. QED BY <2>2, <2>4, <2>5 DEF StatsExact
<1>2. CASE Import
  BY <1>2 DEF Import, StartFile, ReadFile, FinishFile, FailFile
<1>3. CASE ComputeMkn /\ ~ SaveStats
  BY <1>3 DEF ComputeMkn, StartFinalize, CountTrie, EndCounting, NextOrder, CountShard,
              FollowShard, SkipShard, CompleteMkn
<1>4. CASE Merge
  BY <1>4 DEF Merge, CleanupCheckpoint, MergeShard, EndMerge
<1>5. CASE Interrupt \/ EndSession \/ Resume \/ Terminated
  BY <1>5 DEF Interrupt, EndSession, Resume, Terminated, vars
<1>. QED BY <1>1, <1>2, <1>3, <1>4, <1>5 DEF Next

\* Statistics that are written count every stored n-gram, once, in one trie or
\* in shards that several threads visit, whenever the import is interrupted,
\* unless a shard did not open.
THEOREM StatsAreRight == Spec => StatsAreExact
<1>. DEFINE Inv == PipelineInv /\ StatsInv
<1>1. Init => Inv
  BY StartsRight, StatsBegin
<1>2. Inv /\ [Next]_vars => Inv'
  BY PipelineSteps, StatsSteps
<1>3. Inv /\ [Next]_vars => [stats' # stats /\ unread = {} /\ Cardinality(setup.cpus) = 1 => StatsExact]_vars
  BY StatsSaved
<1>. QED BY <1>1, <1>2, <1>3, PTL DEF Spec, StatsAreExact
=============================================================================
