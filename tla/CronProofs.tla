----------------------------- MODULE CronProofs -----------------------------
(***************************************************************************)
(* Proofs about Cron, for any tasks, intervals and poll interval: a task   *)
(* is in one place at a time, the heap is in order, the thread does not    *)
(* sleep past a task it holds, and it never ends with a due one.           *)
(***************************************************************************)
EXTENDS Cron, SequenceTheorems, TLAPS

\* What insertion into a sequence yields, position by position.
Yields(r, S, q, i, e) ==
    /\ r \in Seq(S)
    /\ Len(r) = Len(q) + 1
    /\ \A j \in 1..i - 1 : r[j] = q[j]
    /\ r[i] = e
    /\ \A j \in i + 1..Len(q) + 1 : r[j] = q[j - 1]

\* InsertAt does what its comment in SequencesExt says.
LEMMA InsertAtYields ==
    ASSUME NEW S, NEW q \in Seq(S), NEW i \in 1..Len(q) + 1, NEW e \in S
    PROVE  Yields(InsertAt(q, i, e), S, q, i, e)
<1>. DEFINE before == SubSeq(q, 1, i - 1)
            after  == SubSeq(q, i, Len(q))
<1>1. /\ before \in Seq(S) /\ Len(before) = i - 1
      /\ \A j \in 1..i - 1 : before[j] = q[j]
  BY SubSeqProperties
<1>2. /\ after \in Seq(S) /\ Len(after) = Len(q) - i + 1
      /\ \A j \in 1..Len(q) - i + 1 : after[j] = q[i + j - 1]
  <2>1. CASE i = Len(q) + 1
    BY <2>1, SubSeqEmpty, EmptySeq
  <2>2. CASE i <= Len(q)
    BY <2>2, SubSeqProperties
  <2>. QED BY <2>1, <2>2
<1>3. /\ <<e>> \in Seq(S) /\ Len(<<e>>) = 1 /\ <<e>>[1] = e
  OBVIOUS
<1>4. /\ before \o <<e>> \in Seq(S) /\ Len(before \o <<e>>) = i
      /\ \A j \in 1..i : (before \o <<e>>)[j] = IF j < i THEN q[j] ELSE e
  <2>. DEFINE last == <<e>>
  <2>. HIDE DEF before, last
  <2>1. last \in Seq(S) /\ Len(last) = 1 /\ last[1] = e
    BY <1>3 DEF last
  <2>2. /\ before \o last \in Seq(S)
        /\ Len(before \o last) = Len(before) + Len(last)
        /\ \A j \in 1..Len(before) + Len(last) : (before \o last)[j] =
              IF j <= Len(before) THEN before[j] ELSE last[j - Len(before)]
    BY <1>1, <2>1, ConcatProperties
  <2>3. /\ before \o last \in Seq(S) /\ Len(before \o last) = i
        /\ \A j \in 1..i : (before \o last)[j] =
              IF j <= i - 1 THEN before[j] ELSE last[j - (i - 1)]
    BY <1>1, <2>1, <2>2
  <2>4. \A j \in 1..i : (j <= i - 1 <=> j \in 1..i - 1)
                         /\ (j < i <=> j \in 1..i - 1)
                         /\ (j \notin 1..i - 1 => j - (i - 1) = 1)
    OBVIOUS
  <2>5. \A j \in 1..i : (before \o last)[j] = IF j < i THEN q[j] ELSE e
    BY <1>1, <2>1, <2>3, <2>4
  <2>. QED BY <2>3, <2>5 DEF last
<1>. DEFINE front == before \o <<e>>
<1>. HIDE DEF before, after, front
<1>5. /\ front \o after \in Seq(S)
      /\ Len(front \o after) = Len(q) + 1
      /\ \A j \in 1..Len(q) + 1 : (front \o after)[j] =
            IF j <= i THEN front[j] ELSE after[j - i]
  <2>1. front \in Seq(S) /\ Len(front) = i
    BY <1>4 DEF front
  <2>2. /\ front \o after \in Seq(S)
        /\ Len(front \o after) = Len(front) + Len(after)
        /\ \A j \in 1..Len(front) + Len(after) : (front \o after)[j] =
              IF j <= Len(front) THEN front[j] ELSE after[j - Len(front)]
    BY <2>1, <1>2, ConcatProperties
  <2>. QED BY <2>1, <2>2, <1>2
<1>6. InsertAt(q, i, e) = front \o after
  BY DEF InsertAt, before, after, front
<1>7. \A j \in 1..i : front[j] = IF j < i THEN q[j] ELSE e
  BY <1>4 DEF front
<1>8. ASSUME NEW j \in 1..Len(q) + 1, i < j
      PROVE  after[j - i] = q[j - 1]
  <2>1. j - i \in 1..Len(q) - i + 1 /\ i + (j - i) - 1 = j - 1
    BY <1>8
  <2>. QED BY <2>1, <1>2
<1>9. \A j \in 1..i - 1 : (front \o after)[j] = q[j]
  BY <1>5, <1>7
<1>10. (front \o after)[i] = e
  BY <1>5, <1>7
<1>11. \A j \in i + 1..Len(q) + 1 : (front \o after)[j] = q[j - 1]
  BY <1>5, <1>8
<1>. QED BY <1>5, <1>6, <1>9, <1>10, <1>11 DEF Yields

\* Where the element at position j of InsertAt(q, i, e) stood in q.
From(i, j) == IF j < i THEN j ELSE j - 1

\* The other positions of the longer sequence hold what they held in q.
LEMMA InsertAtFrom ==
    ASSUME NEW S, NEW q \in Seq(S), NEW i \in 1..Len(q) + 1, NEW e \in S,
           NEW j \in 1..Len(q) + 1, j # i
    PROVE  From(i, j) \in 1..Len(q) /\ InsertAt(q, i, e)[j] = q[From(i, j)]
<1>. DEFINE r == InsertAt(q, i, e)
            n == Len(q)
<1>0. Yields(r, S, q, i, e)
  BY InsertAtYields
<1>1. \A k \in 1..i - 1 : r[k] = q[k]
  BY <1>0 DEF Yields
<1>2. \A k \in i + 1..n + 1 : r[k] = q[k - 1]
  BY <1>0 DEF Yields
<1>3. n \in Nat /\ i \in 1..n + 1 /\ j \in 1..n + 1
  OBVIOUS
<1>. HIDE DEF r, n
<1>4. CASE j < i
  <2>1. j \in 1..i - 1 /\ j \in 1..n
    BY <1>3, <1>4
  <2>. QED BY <1>1, <1>4, <2>1 DEF From, r, n
<1>5. CASE i < j
  <2>1. j \in i + 1..n + 1 /\ j - 1 \in 1..n /\ ~(j < i)
    BY <1>3, <1>5
  <2>. QED BY <1>2, <2>1 DEF From, r, n
<1>. QED BY <1>3, <1>4, <1>5

\* Inserting something new repeats nothing.
LEMMA InsertAtInjective ==
    ASSUME NEW S, NEW q \in Seq(S), NEW i \in 1..Len(q) + 1, NEW e \in S,
           IsInjective(q), e \notin ToSet(q)
    PROVE  IsInjective(InsertAt(q, i, e))
<1>. DEFINE r == InsertAt(q, i, e)
            n == Len(q)
<1>0. Yields(r, S, q, i, e)
  BY InsertAtYields
<1>1. n \in Nat /\ i \in 1..n + 1 /\ r[i] = e /\ DOMAIN r = 1..n + 1
  <2>1. r \in Seq(S) /\ Len(r) = n + 1
    BY <1>0 DEF Yields
  <2>2. r[i] = e
    BY <1>0 DEF Yields
  <2>. QED BY <2>1, <2>2
<1>2. \A j \in 1..n + 1 : j # i => From(i, j) \in 1..n /\ r[j] = q[From(i, j)]
  BY InsertAtFrom
<1>3. /\ \A j \in 1..n : q[j] # e
      /\ \A j, k \in 1..n : q[j] = q[k] => j = k
  BY DEF IsInjective, ToSet
<1>. HIDE DEF r, n
<1>4. \A a, b \in 1..n + 1 : a < b /\ a # i /\ b # i => From(i, a) < From(i, b)
  BY <1>1 DEF From
<1>5. ASSUME NEW a \in 1..n + 1, NEW b \in 1..n + 1, a < b
      PROVE  r[a] # r[b]
  <2>1. CASE a # i /\ b # i
    <3>1. From(i, a) \in 1..n /\ From(i, b) \in 1..n /\ From(i, a) # From(i, b)
      BY <1>1, <1>2, <1>4, <1>5, <2>1
    <3>. QED BY <1>2, <1>3, <2>1, <3>1
  <2>2. CASE a = i
    <3>1. b # i
      BY <1>1, <1>5, <2>2
    <3>. QED BY <1>1, <1>2, <1>3, <2>2, <3>1
  <2>3. CASE b = i
    <3>1. a # i
      BY <1>1, <1>5, <2>3
    <3>. QED BY <1>1, <1>2, <1>3, <2>3, <3>1
  <2>. QED BY <2>1, <2>2, <2>3
<1>. QED BY <1>1, <1>5 DEF IsInjective, r

\* An insertion adds one element.
LEMMA InsertAtElements ==
    ASSUME NEW S, NEW q \in Seq(S), NEW i \in 1..Len(q) + 1, NEW e \in S
    PROVE  ToSet(InsertAt(q, i, e)) = ToSet(q) \cup {e}
<1>. DEFINE r == InsertAt(q, i, e)
            n == Len(q)
<1>0. Yields(r, S, q, i, e)
  BY InsertAtYields
<1>1. n \in Nat /\ i \in 1..n + 1 /\ r[i] = e /\ DOMAIN r = 1..n + 1
  <2>1. r \in Seq(S) /\ Len(r) = n + 1
    BY <1>0 DEF Yields
  <2>2. r[i] = e
    BY <1>0 DEF Yields
  <2>. QED BY <2>1, <2>2
<1>2. \A j \in 1..n + 1 : j # i => From(i, j) \in 1..n /\ r[j] = q[From(i, j)]
  BY InsertAtFrom
<1>3. ToSet(r) = {r[j] : j \in 1..n + 1} /\ ToSet(q) = {q[j] : j \in 1..n}
  BY <1>1 DEF ToSet
<1>. HIDE DEF r, n
<1>4. ToSet(r) \subseteq ToSet(q) \cup {e}
  BY <1>1, <1>2, <1>3
<1>5. e \in ToSet(r)
  BY <1>1, <1>3
<1>6. ASSUME NEW j \in 1..n
      PROVE  q[j] \in ToSet(r)
  <2>1. CASE j < i
    <3>1. j \in 1..n + 1 /\ j # i /\ From(i, j) = j
      BY <1>1, <2>1 DEF From
    <3>. QED BY <1>2, <1>3, <3>1
  <2>2. CASE i <= j
    <3>1. j + 1 \in 1..n + 1 /\ j + 1 # i /\ From(i, j + 1) = j
      BY <1>1, <2>2 DEF From
    <3>. QED BY <1>2, <1>3, <3>1
  <2>. QED BY <1>1, <2>1, <2>2
<1>7. ToSet(q) \subseteq ToSet(r)
  BY <1>3, <1>6
<1>. QED BY <1>4, <1>5, <1>7 DEF r

\* f does not decrease along q.
Ascending(f, q) == \A i, j \in 1..Len(q) : i < j => f[q[i]] <= f[q[j]]

\* Position i of q is one for an element with value d.
Fits(f, q, i, d) ==
    /\ \A j \in 1..i - 1 : f[q[j]] <= d
    /\ \A j \in i..Len(q) : d <= f[q[j]]

\* An insertion where the element fits keeps the order.
LEMMA InsertAtAscending ==
    ASSUME NEW S, NEW q \in Seq(S), NEW i \in 1..Len(q) + 1, NEW e \in S,
           NEW f \in [S -> Nat], Ascending(f, q), Fits(f, q, i, f[e])
    PROVE  Ascending(f, InsertAt(q, i, e))
<1>. DEFINE r == InsertAt(q, i, e)
            n == Len(q)
<1>0. Yields(r, S, q, i, e)
  BY InsertAtYields
<1>1. n \in Nat /\ i \in 1..n + 1 /\ r[i] = e /\ Len(r) = n + 1
  <2>1. r \in Seq(S) /\ Len(r) = n + 1
    BY <1>0 DEF Yields
  <2>2. r[i] = e
    BY <1>0 DEF Yields
  <2>. QED BY <2>1, <2>2
<1>2. \A j \in 1..n + 1 : j # i => From(i, j) \in 1..n /\ r[j] = q[From(i, j)]
  BY InsertAtFrom
<1>3. \A j, k \in 1..n : j < k => f[q[j]] <= f[q[k]]
  BY DEF Ascending
<1>4. \A j \in 1..n : j < i => f[q[j]] <= f[e]
  BY DEF Fits
<1>5. \A j \in 1..n : i <= j => f[e] <= f[q[j]]
  BY DEF Fits
<1>. HIDE DEF r, n
<1>6. \A j, k \in 1..n + 1 : j < k /\ j # i /\ k # i => From(i, j) < From(i, k)
  BY <1>1 DEF From
<1>7. ASSUME NEW a \in 1..n + 1, NEW b \in 1..n + 1, a < b
      PROVE  f[r[a]] <= f[r[b]]
  <2>1. CASE a # i /\ b # i
    BY <1>2, <1>3, <1>6, <1>7, <2>1
  <2>2. CASE a = i
    <3>1. b # i /\ i <= From(i, b)
      BY <1>1, <1>7, <2>2 DEF From
    <3>. QED BY <1>1, <1>2, <1>5, <2>2, <3>1
  <2>3. CASE b = i
    <3>1. a # i /\ From(i, a) < i
      BY <1>1, <1>7, <2>3 DEF From
    <3>. QED BY <1>1, <1>2, <1>4, <2>3, <3>1
  <2>. QED BY <2>1, <2>2, <2>3
<1>. QED BY <1>1, <1>7 DEF Ascending, r

\* The heap is in order of time.
InOrder == Ascending(left, queue)

\* The tasks the thread and the channel hold have been accepted.
Known == (Queued \cup ToSet(channel) \cup {running}) \ {Nothing} \subseteq accepted

\* The inductive invariant.
CronInv == TypeOK /\ Known /\ InOrder /\ NoOversleep /\ NoDueTaskIsLeft

\* A push of a task that is nowhere else keeps the heap a set in order.
LEMMA PushKeepsOrder ==
    ASSUME queue \in Seq(Tasks), IsInjective(queue), left \in [Tasks -> Nat],
           InOrder, NEW t \in Tasks, t \notin Queued, NEW d \in Nat, Push(t, d),
           left' \in [Tasks -> Nat], left'[t] = d,
           \A u \in Queued : left'[u] = left[u]
    PROVE  /\ queue' \in Seq(Tasks)
           /\ IsInjective(queue')
           /\ Queued' = Queued \cup {t}
           /\ InOrder'
<1>. DEFINE q == queue
            f == left'
<1>1. PICK i \in 1..Len(q) + 1 : /\ queue' = InsertAt(q, i, t)
                                 /\ Fits(left, q, i, d)
  BY DEF Push, Positions, Fits
<1>2. \A j \in 1..Len(q) : q[j] \in Queued
  BY DEF Queued, ToSet
<1>3. Fits(f, q, i, f[t])
  <2>1. \A j \in 1..Len(q) : f[q[j]] = left[q[j]]
    BY <1>2
  <2>2. 1..i - 1 \subseteq 1..Len(q) /\ i..Len(q) \subseteq 1..Len(q)
    OBVIOUS
  <2>. HIDE DEF q
  <2>. QED BY <1>1, <2>1, <2>2 DEF Fits
<1>4. Ascending(f, q) /\ t \notin ToSet(q)
  BY <1>2 DEF InOrder, Ascending, Queued
<1>5. q \in Seq(Tasks) /\ IsInjective(q) /\ f \in [Tasks -> Nat]
  OBVIOUS
<1>. HIDE DEF q, f
<1>6. InsertAt(q, i, t) \in Seq(Tasks)
  BY <1>5, InsertAtYields DEF Yields
<1>7. IsInjective(InsertAt(q, i, t))
  BY <1>4, <1>5, InsertAtInjective
<1>8. ToSet(InsertAt(q, i, t)) = ToSet(q) \cup {t}
  BY <1>5, InsertAtElements
<1>9. Ascending(f, InsertAt(q, i, t))
  BY <1>3, <1>4, <1>5, InsertAtAscending
<1>. QED BY <1>1, <1>6, <1>7, <1>8, <1>9 DEF InOrder, Queued, q, f

\* Head and Tail take one task out of a sequence without repetitions.
LEMMA TailWithoutHead ==
    ASSUME NEW S, NEW q \in Seq(S), q # <<>>, IsInjective(q)
    PROVE  /\ Head(q) \in S /\ Tail(q) \in Seq(S)
           /\ IsInjective(Tail(q))
           /\ ToSet(q) = ToSet(Tail(q)) \cup {Head(q)}
           /\ Head(q) \notin ToSet(Tail(q))
           /\ Len(q) \in Nat \ {0} /\ Len(Tail(q)) = Len(q) - 1 /\ Head(q) = q[1]
           /\ \A j \in 1..Len(q) - 1 : Tail(q)[j] = q[j + 1]
<1>1. /\ Len(q) \in Nat \ {0} /\ Head(q) \in S /\ Head(q) = q[1]
      /\ Tail(q) \in Seq(S) /\ Len(Tail(q)) = Len(q) - 1
      /\ \A j \in 1..Len(q) - 1 : Tail(q)[j] = q[j + 1]
  BY HeadTailProperties
<1>. DEFINE n == Len(q)
            r == Tail(q)
<1>2. n \in Nat \ {0} /\ DOMAIN q = 1..n /\ DOMAIN r = 1..n - 1
  BY <1>1
<1>3. \A j, k \in 1..n : q[j] = q[k] => j = k
  BY <1>2 DEF IsInjective
<1>4. \A j \in 1..n - 1 : r[j] = q[j + 1]
  BY <1>1
<1>. HIDE DEF n, r
<1>5. IsInjective(r)
  <2>. SUFFICES ASSUME NEW a \in 1..n - 1, NEW b \in 1..n - 1, r[a] = r[b]
                PROVE  a = b
    BY <1>2 DEF IsInjective
  <2>1. a + 1 \in 1..n /\ b + 1 \in 1..n
    BY <1>2
  <2>. QED BY <1>3, <1>4, <2>1
<1>6. /\ ToSet(q) = {q[j] : j \in 1..n}
      /\ ToSet(r) = {r[j] : j \in 1..n - 1}
  BY <1>2 DEF ToSet
<1>7. \A j \in 1..n : j = 1 \/ (j - 1 \in 1..n - 1 /\ q[j] = r[j - 1])
  BY <1>2, <1>4
<1>8. \A j \in 1..n - 1 : j + 1 \in 1..n /\ j + 1 # 1
  BY <1>2
<1>9. q[1] \in ToSet(q) /\ 1 \in 1..n
  BY <1>2, <1>6
<1>10. ToSet(q) \subseteq ToSet(r) \cup {q[1]}
  BY <1>6, <1>7
<1>11. ToSet(r) \subseteq ToSet(q)
  BY <1>4, <1>6, <1>8
<1>12. q[1] \notin ToSet(r)
  BY <1>3, <1>4, <1>6, <1>8, <1>9
<1>. QED BY <1>1, <1>5, <1>9, <1>10, <1>11, <1>12 DEF r

\* Append adds a task to a sequence without repetitions.
LEMMA AppendNew ==
    ASSUME NEW S, NEW q \in Seq(S), NEW e \in S, IsInjective(q), e \notin ToSet(q)
    PROVE  /\ Append(q, e) \in Seq(S)
           /\ IsInjective(Append(q, e))
           /\ ToSet(Append(q, e)) = ToSet(q) \cup {e}
<1>. DEFINE r == Append(q, e)
            n == Len(q)
<1>1. /\ r \in Seq(S) /\ Len(r) = n + 1 /\ n \in Nat
      /\ \A j \in 1..n : r[j] = q[j]
      /\ r[n + 1] = e
  BY AppendProperties
<1>2. DOMAIN q = 1..n /\ DOMAIN r = 1..n + 1
  BY <1>1
<1>3. /\ \A j, k \in 1..n : q[j] = q[k] => j = k
      /\ \A j \in 1..n : q[j] # e
  BY <1>2 DEF IsInjective, ToSet
<1>. HIDE DEF n, r
<1>4. \A j \in 1..n + 1 : j \in 1..n \/ j = n + 1
  BY <1>1
<1>5. IsInjective(r)
  BY <1>1, <1>2, <1>3, <1>4 DEF IsInjective
<1>6. /\ ToSet(q) = {q[j] : j \in 1..n}
      /\ ToSet(r) = {r[j] : j \in 1..n + 1}
  BY <1>2 DEF ToSet
<1>7. n + 1 \in 1..n + 1 /\ \A j \in 1..n : j \in 1..n + 1
  BY <1>1
<1>8. ToSet(q) \cup {e} \subseteq ToSet(r)
  BY <1>1, <1>6, <1>7
<1>9. ToSet(r) \subseteq ToSet(q) \cup {e}
  BY <1>1, <1>4, <1>6
<1>. QED BY <1>1, <1>5, <1>8, <1>9 DEF r

---------------------------------------------------------------------------
\* The empty sequence has no element.
LEMMA EmptyHasNoElement == ToSet(<<>>) = {}
BY DEF ToSet

\* While the heap stays as it is and its tasks keep their times, it is in order.
LEMMA SameHeap ==
    ASSUME TypeOK, InOrder, UNCHANGED queue,
           \A u \in Queued : left'[u] = left[u]
    PROVE  InOrder' /\ Queued' = Queued
<1>1. Queued' = Queued
  BY DEF Queued
<1>2. \A j \in 1..Len(queue) : queue[j] \in Queued
  BY DEF TypeOK, Queued, ToSet
<1>3. InOrder'
  BY <1>2 DEF InOrder, Ascending
<1>. QED BY <1>1, <1>3

\* Every step keeps the invariant.
LEMMA CronStep == CronInv /\ [Next]_vars => CronInv'
<1>. SUFFICES ASSUME CronInv, [Next]_vars PROVE CronInv'
  OBVIOUS
<1>. USE TasksAssumption, TimesAssumption
<1>0. TypeOK /\ Known /\ InOrder /\ NoOversleep /\ NoDueTaskIsLeft
  BY DEF CronInv
<1>1. ASSUME NEW t \in Tasks, NEW d \in 0..MaxDelay, Schedule(t, d)
      PROVE  CronInv'
  <2>1. t \notin Queued /\ t \notin ToSet(channel) /\ t # running
    BY <1>0, <1>1 DEF Schedule, Known, TypeOK
  <2>2. /\ channel' \in Seq(Tasks) /\ IsInjective(channel')
        /\ ToSet(channel') = ToSet(channel) \cup {t}
    BY <1>0, <1>1, <2>1, AppendNew DEF Schedule, TypeOK
  <2>3. InOrder' /\ Queued' = Queued /\ \A u \in Queued : left'[u] = left[u]
    BY <1>0, <1>1, <2>1, SameHeap DEF Schedule, TypeOK
  <2>4. TypeOK'
    BY <1>0, <1>1, <2>1, <2>2, <2>3 DEF Schedule, TypeOK
  <2>5. Known'
    BY <1>0, <1>1, <2>2, <2>3 DEF Schedule, Known
  <2>6. NoOversleep' /\ NoDueTaskIsLeft'
    BY <1>0, <1>1, <2>3 DEF Schedule, NoOversleep, NoDueTaskIsLeft
  <2>. QED BY <2>3, <2>4, <2>5, <2>6 DEF CronInv
<1>2. CASE RequestShutdown \/ DropHandles \/ Ended \/ UNCHANGED vars
  BY <1>0, <1>2 DEF RequestShutdown, DropHandles, Ended, vars, CronInv, TypeOK,
     Known, InOrder, NoOversleep, NoDueTaskIsLeft, Queued
<1>3. CASE ExecuteTask
  <2>1. queue # <<>> /\ running = Nothing
    BY <1>0, <1>3 DEF ExecuteTask, HeadDue, Polling, TypeOK
  <2>2. /\ Head(queue) \in Tasks /\ queue' \in Seq(Tasks) /\ IsInjective(queue')
        /\ Queued = Queued' \cup {Head(queue)} /\ Head(queue) \notin Queued'
    BY <1>0, <1>3, <2>1, TailWithoutHead DEF ExecuteTask, TypeOK, Queued
  <2>3. InOrder'
    <3>1. /\ Len(queue) \in Nat \ {0} /\ Len(queue') = Len(queue) - 1
          /\ \A j \in 1..Len(queue) - 1 : queue'[j] = queue[j + 1]
      BY <1>0, <1>3, <2>1, TailWithoutHead DEF ExecuteTask, TypeOK
    <3>. SUFFICES ASSUME NEW i \in 1..Len(queue) - 1,
                         NEW j \in 1..Len(queue) - 1, i < j
                  PROVE  left[queue'[i]] <= left[queue'[j]]
      BY <1>3, <3>1 DEF InOrder, Ascending, ExecuteTask
    <3>2. /\ i + 1 \in 1..Len(queue) /\ j + 1 \in 1..Len(queue)
          /\ i + 1 < j + 1
      BY <3>1
    <3>. QED BY <1>0, <3>1, <3>2 DEF InOrder, Ascending
  <2>4. TypeOK'
    BY <1>0, <1>3, <2>1, <2>2 DEF ExecuteTask, TypeOK, CronState
  <2>5. Known'
    BY <1>0, <1>3, <2>2 DEF ExecuteTask, Known
  <2>6. NoOversleep' /\ NoDueTaskIsLeft'
    BY <1>3 DEF ExecuteTask, NoOversleep, NoDueTaskIsLeft
  <2>. QED BY <2>3, <2>4, <2>5, <2>6 DEF CronInv
<1>4. HeadDue \/ \A u \in Queued : left[u] > 0
  <2>. SUFFICES ASSUME NEW u \in Queued, left[u] = 0 PROVE HeadDue
    BY <1>0 DEF TypeOK, Queued, ToSet
  <2>1. PICK j \in 1..Len(queue) : queue[j] = u
    BY <1>0 DEF TypeOK, Queued, ToSet
  <2>2. queue # <<>> /\ Head(queue) = queue[1] /\ Len(queue) \in Nat
    BY <1>0, <2>1 DEF TypeOK
  <2>3. left[queue[1]] <= left[u] /\ left[queue[1]] \in Nat
    BY <1>0, <2>1, <2>2 DEF InOrder, Ascending, TypeOK
  <2>. QED BY <2>2, <2>3 DEF HeadDue
<1>5. CASE Terminate
  <2>1. InOrder' /\ Queued' = Queued
    BY <1>0, <1>5, SameHeap DEF Terminate
  <2>2. TypeOK' /\ Known'
    BY <1>0, <1>5, <2>1 DEF Terminate, Polling, TypeOK, Known, CronState
  <2>3. NoOversleep' /\ NoDueTaskIsLeft'
    BY <1>4, <1>5, <2>1 DEF Terminate, NoOversleep, NoDueTaskIsLeft
  <2>. QED BY <2>1, <2>2, <2>3 DEF CronInv
<1>6. CASE Receive
  <2>. DEFINE t == Head(channel)
  <2>1. /\ t \in Tasks /\ channel' \in Seq(Tasks) /\ IsInjective(channel')
        /\ ToSet(channel) = ToSet(channel') \cup {t} /\ t \notin ToSet(channel')
    BY <1>0, <1>6, TailWithoutHead DEF Receive, TypeOK
  <2>2. t \notin Queued
    BY <1>0, <2>1 DEF TypeOK
  <2>3. /\ queue' \in Seq(Tasks) /\ IsInjective(queue')
        /\ Queued' = Queued \cup {t} /\ InOrder'
    <3>. HIDE DEF t
    <3>1. left[t] \in Nat /\ Push(t, left[t]) /\ left' = left
      BY <1>0, <1>6, <2>1 DEF Receive, TypeOK, t
    <3>. QED BY <1>0, <2>1, <2>2, <3>1, PushKeepsOrder DEF TypeOK
  <2>4. TypeOK'
    BY <1>0, <1>6, <2>1, <2>2, <2>3 DEF Receive, TypeOK, CronState
  <2>5. Known'
    BY <1>0, <1>6, <2>1, <2>3 DEF Receive, Known
  <2>6. NoOversleep' /\ NoDueTaskIsLeft'
    BY <1>6 DEF Receive, NoOversleep, NoDueTaskIsLeft
  <2>. QED BY <2>3, <2>4, <2>5, <2>6 DEF CronInv
<1>7. CASE NoticeDisconnect \/ RunOut
  <2>1. InOrder' /\ Queued' = Queued
    BY <1>0, <1>7, SameHeap DEF NoticeDisconnect, RunOut
  <2>2. TypeOK' /\ Known'
    BY <1>0, <1>7, <2>1 DEF NoticeDisconnect, RunOut, TypeOK, Known, CronState
  <2>3. NoOversleep' /\ NoDueTaskIsLeft'
    BY <1>7, EmptyHasNoElement
    DEF NoticeDisconnect, RunOut, NoOversleep, NoDueTaskIsLeft, Queued
  <2>. QED BY <2>1, <2>2, <2>3 DEF CronInv
<1>8. CASE GoToSleep
  <2>1. InOrder' /\ Queued' = Queued
    BY <1>0, <1>8, SameHeap DEF GoToSleep
  <2>2. SleepTime \in 0..PollInterval /\ \A u \in Queued : SleepTime <= left[u]
    <3>1. CASE queue = <<>>
      BY <3>1, EmptyHasNoElement DEF SleepTime, Queued
    <3>2. CASE queue # <<>>
      <4>1. Head(queue) = queue[1] /\ 1 \in 1..Len(queue) /\ Len(queue) \in Nat
            /\ left[Head(queue)] \in Nat
        BY <1>0, <3>2 DEF TypeOK
      <4>2. ASSUME NEW u \in Queued
            PROVE  left[Head(queue)] <= left[u] /\ left[u] \in Nat
        <5>1. PICK j \in 1..Len(queue) : queue[j] = u
          BY <1>0 DEF TypeOK, Queued, ToSet
        <5>. QED BY <1>0, <4>1, <5>1 DEF InOrder, Ascending, TypeOK
      <4>. QED BY <4>1, <4>2 DEF SleepTime
    <3>. QED BY <3>1, <3>2
  <2>3. TypeOK' /\ Known'
    BY <1>0, <1>8, <2>1, <2>2 DEF GoToSleep, TypeOK, Known, CronState
  <2>4. NoOversleep' /\ NoDueTaskIsLeft'
    BY <1>8, <2>1, <2>2 DEF GoToSleep, NoOversleep, NoDueTaskIsLeft
  <2>. QED BY <2>1, <2>3, <2>4 DEF CronInv
<1>9. CASE WakeUp
  <2>1. InOrder' /\ Queued' = Queued
    BY <1>0, <1>9, SameHeap DEF WakeUp
  <2>2. TypeOK' /\ Known' /\ NoOversleep' /\ NoDueTaskIsLeft'
    BY <1>0, <1>9, <2>1
    DEF WakeUp, TypeOK, Known, CronState, NoOversleep, NoDueTaskIsLeft
  <2>. QED BY <2>1, <2>2 DEF CronInv
<1>10. ASSUME TaskEnds, UNCHANGED <<queue, left>>
       PROVE  CronInv'
  <2>1. InOrder' /\ Queued' = Queued
    BY <1>0, <1>10, SameHeap DEF TaskEnds
  <2>2. Nothing \notin Queued \cup ToSet(channel)
    BY <1>0 DEF TypeOK, Queued, ToSet
  <2>3. TypeOK' /\ Known'
    BY <1>0, <1>10, <2>1, <2>2 DEF TaskEnds, TypeOK, Known, CronState
  <2>4. NoOversleep' /\ NoDueTaskIsLeft'
    BY <1>10 DEF TaskEnds, NoOversleep, NoDueTaskIsLeft
  <2>. QED BY <2>1, <2>3, <2>4 DEF CronInv
<1>11. ASSUME TaskEnds, running \in Recurring, Requeue(running)
       PROVE  CronInv'
  <2>. DEFINE t == running
              d == Interval[running]
  <2>1. /\ t \in Tasks /\ t \notin Queued /\ t \notin ToSet(channel)
        /\ d \in Nat /\ Push(t, d)
    BY <1>0, <1>11 DEF TypeOK, Requeue
  <2>2. /\ left' \in [Tasks -> Nat] /\ left'[t] = d
        /\ \A u \in Queued : left'[u] = left[u]
    BY <1>0, <1>11, <2>1 DEF TypeOK, Requeue, Queued, ToSet
  <2>3. /\ queue' \in Seq(Tasks) /\ IsInjective(queue')
        /\ Queued' = Queued \cup {t} /\ InOrder'
    <3>. HIDE DEF t, d
    <3>. QED BY <1>0, <2>1, <2>2, PushKeepsOrder DEF TypeOK
  <2>4. TypeOK'
    <3>1. Nothing \notin Queued \cup ToSet(channel) \cup {t}
      BY <1>0, <2>1 DEF TypeOK, Queued, ToSet
    <3>. HIDE DEF d
    <3>. QED BY <1>0, <1>11, <2>1, <2>2, <2>3, <3>1 DEF TaskEnds, TypeOK, CronState
  <2>5. Known'
    BY <1>0, <1>11, <2>3 DEF TaskEnds, Known
  <2>6. NoOversleep' /\ NoDueTaskIsLeft'
    BY <1>11 DEF TaskEnds, NoOversleep, NoDueTaskIsLeft
  <2>. QED BY <2>3, <2>4, <2>5, <2>6 DEF CronInv
<1>12. CASE Tick
  <2>1. /\ queue' = queue /\ Queued' = Queued
        /\ left' \in [Tasks -> Nat]
        /\ \A u \in Tasks : left'[u] = Minus1(left[u])
    BY <1>0, <1>12 DEF Tick, TypeOK, Minus1, Queued
  <2>2. \A m, n \in Nat : m <= n => Minus1(m) <= Minus1(n) /\ Minus1(m) \in 0..m
    BY DEF Minus1
  <2>3. InOrder'
    <3>. SUFFICES ASSUME NEW i \in 1..Len(queue), NEW j \in 1..Len(queue), i < j
                  PROVE  left'[queue[i]] <= left'[queue[j]]
      BY <2>1 DEF InOrder, Ascending
    <3>1. /\ queue[i] \in Tasks /\ queue[j] \in Tasks
          /\ left[queue[i]] \in Nat /\ left[queue[j]] \in Nat
          /\ left[queue[i]] <= left[queue[j]]
      BY <1>0 DEF TypeOK, InOrder, Ascending
    <3>. QED BY <2>1, <2>2, <3>1
  <2>4. TypeOK' /\ Known'
    BY <1>0, <1>12, <2>1, <2>2 DEF Tick, TypeOK, Known
  <2>5. NoOversleep' /\ NoDueTaskIsLeft'
    <3>1. \A u \in Queued : u \in Tasks /\ left[u] \in Nat
      BY <1>0 DEF TypeOK, Queued, ToSet
    <3>2. alarm \in Nat
      BY <1>0 DEF TypeOK
    <3>. QED BY <1>0, <1>12, <2>1, <2>2, <3>1, <3>2
         DEF Tick, NoOversleep, NoDueTaskIsLeft
  <2>. QED BY <2>3, <2>4, <2>5 DEF CronInv
<1>. QED
  BY <1>1, <1>2, <1>3, <1>5, <1>6, <1>7, <1>8, <1>9, <1>10, <1>11, <1>12
  DEF Next, Callers, PollEvent, TaskSucceeds, TaskFails

\* The invariant holds in every reachable state.
LEMMA CronInvHolds == Spec => []CronInv
<1>1. Init => CronInv
  <2>. SUFFICES ASSUME Init PROVE CronInv
    OBVIOUS
  <2>1. IsInjective(<<>>) /\ ToSet(<<>>) = {} /\ Ascending(left, <<>>)
    BY EmptyHasNoElement DEF IsInjective, Ascending
  <2>2. <<>> \in Seq(Tasks)
    OBVIOUS
  <2>3. /\ left \in [Tasks -> Nat] /\ alarm \in 0..PollInterval
        /\ queue = <<>> /\ channel = <<>>
    BY TimesAssumption DEF Init
  <2>4. TypeOK
    BY <2>1, <2>2, <2>3, TasksAssumption DEF Init, TypeOK, Queued, CronState
  <2>. QED BY <2>1, <2>4
       DEF Init, CronInv, Known, InOrder, NoOversleep, NoDueTaskIsLeft, Queued
<1>. QED BY <1>1, CronStep, PTL DEF Spec

\* A task is in one place at a time: in the channel, in the heap or running.
THEOREM Typing == Spec => []TypeOK
BY CronInvHolds, PTL DEF CronInv

\* The thread never sleeps past the time of a task it holds.
THEOREM SleepIsShort == Spec => []NoOversleep
BY CronInvHolds, PTL DEF CronInv

\* When the thread has terminated, no task it held was due.
THEOREM DueTasksGoFirst == Spec => []NoDueTaskIsLeft
BY CronInvHolds, PTL DEF CronInv
=============================================================================
