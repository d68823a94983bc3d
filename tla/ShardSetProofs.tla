-------------------------- MODULE ShardSetProofs --------------------------
(***************************************************************************)
(* Proofs about ShardSet, for any files, shards, threads and sessions: the *)
(* type invariant, with the references that keep handles open; that a      *)
(* shard file is open once; and what follows from it: the limit on open    *)
(* shards holds, a recorded prefix is whole, what the saved ledger has is  *)
(* on the disk, and the next start does not take it back.                  *)
(***************************************************************************)
EXTENDS ShardSet, FiniteSetTheorems, SequenceTheorems, TLAPS

---------------------------------------------------------------------------
(* Types and references. *)

\* A handle is open exactly while it is referenced; it has a file, and belongs
\* to the shard it is found under.
References ==
    /\ \A i \in Live(open, arc, evicted) : heap[i] # None
    /\ \A i \in Ids : heap[i] # None =>
          i \in Live(open, arc, evicted) /\ disk[heap[i].key] # None
    /\ \A k \in Shards : open[k] # None => heap[open[k]].key = k
    /\ \A t \in Threads : arc[t] # None => heap[arc[t]].key = goal[t]
    /\ \A t \in Threads : evicted[t] # None => heap[evicted[t]].key = victim[t]

\* What a thread has at the place where it stands.
Places ==
    \A t \in Threads :
       /\ pc[t] # "idle" => file[t] # None /\ goal[t] # None
       /\ pc[t] # "idle" => t \in setup.workers
       /\ pc[t] = "idle" => arc[t] = None
       /\ pc[t] \in {"insert", "touch", "have", "record"} => arc[t] # None
       /\ pc[t] \in {"remove", "save", "pop"} => victim[t] # None /\ setup.cap > 0
       /\ evicted[t] # None <=> pc[t] = "save"

Base == TypeOK /\ References /\ Places

\* None is nothing else.
LEMMA NoneFacts ==
    /\ None \notin Ids /\ None \notin Files /\ None \notin Shards
    /\ None \notin Threads /\ None \notin Images /\ None \notin Handles
BY NoneIsNothing DEF Ids

\* What references a handle.
LEMMA LiveIs ==
    ASSUME NEW o, NEW a, NEW e, NEW i
    PROVE  i \in Live(o, a, e) <=>
             /\ i # None
             /\ \/ \E k \in Shards : o[k] = i
                \/ \E t \in Threads : a[t] = i \/ e[t] = i
BY DEF Live

Heaps == [Ids -> Handles \cup {None}]

\* Closing keeps what is referenced and nothing else.
LEMMA ClosingKeeps ==
    ASSUME NEW h \in Heaps, NEW live
    PROVE  /\ Closed(h, live) \in Heaps
           /\ \A i \in Ids : Closed(h, live)[i] = IF i \in live THEN h[i] ELSE None
BY DEF Closed, Heaps

\* The images and handles that are made of others.
LEMMA MadeOfOthers ==
    /\ \A h \in Handles : h.key \in Shards /\ Image(h) \in Images
    /\ \A h \in Handles : disk[h.key] \in Images => Logged(h) \in Images
    /\ \A k \in Shards, image \in Images :
          Loaded(k, image) \in Handles /\ Loaded(k, image).key = k
    /\ NewShard \in Images
    /\ \A h \in Handles, f \in Files :
         /\ \A c \in Contents : [h EXCEPT !.cnt[f] = c] \in Handles
         /\ [h EXCEPT !.done = @ \cup {f}] \in Handles
    /\ \A h \in Handles : [h EXCEPT !.dirty = TRUE] \in Handles
BY DEF Handles, Images, Image, Logged, Loaded, NewShard, NoCounts, Contents

\* The tracker tracks shards.
LEMMA TouchedType ==
    ASSUME lru \in Seq(Shards), setup.cap \in Nat, NEW k \in Shards
    PROVE  Touched(k) \in Seq(Shards)
<1>1. CASE setup.cap = 0
  BY <1>1 DEF Touched
<1>2. CASE setup.cap > 0 /\ Contains(lru, k)
  <2>. DEFINE i == CHOOSE i \in DOMAIN lru : lru[i] = k
  <2>1. i \in DOMAIN lru
    BY <1>2 DEF Contains
  <2>2. RemoveAt(lru, i) \in Seq(Shards)
    <3>. HIDE DEF i
    <3>. QED BY <2>1 DEF RemoveAt
  <2>3. Touched(k) = Append(RemoveAt(lru, i), k)
    BY <1>2 DEF Touched
  <2>. HIDE DEF i
  <2>. QED BY <2>2, <2>3
<1>3. CASE setup.cap > 0 /\ ~ Contains(lru, k)
  <2>1. Len(lru) >= setup.cap => Tail(lru) \in Seq(Shards)
    BY <1>3
  <2>. QED BY <1>3, <2>1 DEF Touched
<1>. QED BY <1>1, <1>2, <1>3

\* What a setup may be.
LEMMA SetupFacts ==
    ASSUME TypeOK
    PROVE  /\ setup.hash \in BOOLEAN /\ setup.cap \in Nat /\ setup.errors \in BOOLEAN
           /\ setup.workers \subseteq Threads
           /\ \A f \in Files : Targets(f) \subseteq Shards /\ Targets(f) # {}
<1>1. setup \in [hash : BOOLEAN, spread : [Files -> (SUBSET Shards) \ {{}}],
                 cap : Nat, workers : SUBSET Threads, errors : BOOLEAN]
  BY SetupsAssumption DEF TypeOK
<1>2. \A f \in Files : setup.spread[f] \in (SUBSET Shards) \ {{}}
  BY <1>1
<1>3. \A f \in Files : Targets(f) \subseteq Shards /\ Targets(f) # {}
  BY <1>2, FilesHaveKeys DEF Targets
<1>. QED BY <1>1, <1>3

\* Most steps move references that are there already, and write to handles
\* that stay those of their shards.
LEMMA ReferencesMove ==
    ASSUME TypeOK, References, NEW h \in Heaps,
           \A i \in Ids : heap[i] # None => h[i] # None /\ h[i].key = heap[i].key,
           \A i \in Ids : heap'[i] = IF i \in Live(open', arc', evicted')
                                     THEN h[i] ELSE None,
           \A k \in Shards : disk[k] # None => disk'[k] # None,
           \A k \in Shards : open'[k] # None =>
              open'[k] = open[k] \/ \E t \in Threads : open'[k] = arc[t] /\ goal[t] = k,
           \A t \in Threads : arc'[t] # None =>
              \/ arc'[t] = arc[t] /\ goal'[t] = goal[t]
              \/ goal'[t] \in Shards /\ arc'[t] = open[goal'[t]],
           \A t \in Threads : evicted'[t] # None =>
              \/ evicted'[t] = evicted[t] /\ victim'[t] = victim[t]
              \/ victim'[t] \in Shards /\ evicted'[t] = open[victim'[t]]
    PROVE  References'
<1>1. \A i \in Live(open', arc', evicted') :
          i \in Live(open, arc, evicted) /\ i \in Ids /\ i # None
  <2>. SUFFICES ASSUME NEW i, i # None,
                       \/ \E k \in Shards : open'[k] = i
                       \/ \E t \in Threads : arc'[t] = i \/ evicted'[t] = i
                PROVE  i \in Live(open, arc, evicted) /\ i \in Ids
    BY DEF Live
  <2>1. \/ \E k \in Shards : open[k] = i
        \/ \E t \in Threads : arc[t] = i \/ evicted[t] = i
    OBVIOUS
  <2>. QED BY <2>1 DEF Live, TypeOK
<1>2. \A i \in Live(open', arc', evicted') :
          heap'[i] = h[i] /\ heap'[i] # None /\ heap[i] # None /\ h[i].key = heap[i].key
  BY <1>1 DEF References
<1>3. \A i \in Ids : heap'[i] # None =>
          i \in Live(open', arc', evicted') /\ disk'[heap'[i].key] # None
  <2>. SUFFICES ASSUME NEW i \in Ids, heap'[i] # None
                PROVE  i \in Live(open', arc', evicted') /\ disk'[heap'[i].key] # None
    OBVIOUS
  <2>1. i \in Live(open', arc', evicted')
    OBVIOUS
  <2>2. heap'[i].key = heap[i].key /\ heap[i] # None
    BY <1>2, <2>1
  <2>3. heap[i].key \in Shards /\ disk[heap[i].key] # None
    BY <2>2, MadeOfOthers DEF References, TypeOK
  <2>. QED BY <2>1, <2>2, <2>3
<1>4. \A k \in Shards : open'[k] # None => heap'[open'[k]].key = k
  <2>1. \A k \in Shards : open'[k] # None => open'[k] \in Live(open', arc', evicted')
    BY DEF Live
  <2>. QED BY <1>2, <2>1 DEF References
<1>5. \A t \in Threads : arc'[t] # None => heap'[arc'[t]].key = goal'[t]
  <2>1. \A t \in Threads : arc'[t] # None => arc'[t] \in Live(open', arc', evicted')
    BY DEF Live
  <2>. QED BY <1>2, <2>1 DEF References
<1>6. \A t \in Threads : evicted'[t] # None => heap'[evicted'[t]].key = victim'[t]
  <2>1. \A t \in Threads : evicted'[t] # None =>
            evicted'[t] \in Live(open', arc', evicted')
    BY DEF Live
  <2>. QED BY <1>2, <2>1 DEF References
<1>. QED BY <1>2, <1>3, <1>4, <1>5, <1>6 DEF References

\* A function has no more values than arguments.
LEMMA ValuesAreFew ==
    ASSUME NEW S, IsFiniteSet(S), NEW g, NEW V, V = {g[x] : x \in S}
    PROVE  IsFiniteSet(V) /\ Cardinality(V) <= Cardinality(S) /\ Cardinality(V) \in Nat
<1>. DEFINE G == [x \in S |-> g[x]]
<1>1. G \in Surjection(S, V)
  BY DEF Surjection
<1>. QED BY <1>1, FS_Surjection, FS_CardinalityType

\* There is an identifier for one more handle: a thread that opens a shard is
\* not evicting one.
LEMMA FreeIdIsFree ==
    ASSUME Base, NEW t \in Threads, evicted[t] = None
    PROVE  FreeId \in Ids /\ heap[FreeId] = None
<1>. DEFINE A == {open[k] : k \in Shards}
            B == {arc[u] : u \in Threads}
            C == {evicted[u] : u \in Threads \ {t}}
<1>1. /\ Cardinality(Shards) \in Nat /\ Cardinality(Threads) \in Nat
      /\ IsFiniteSet(Threads \ {t})
      /\ Cardinality(Threads \ {t}) = Cardinality(Threads) - 1
  BY FinitelyMany, FS_CardinalityType, FS_RemoveElement
<1>2. /\ IsFiniteSet(A) /\ Cardinality(A) <= Cardinality(Shards) /\ Cardinality(A) \in Nat
      /\ IsFiniteSet(B) /\ Cardinality(B) <= Cardinality(Threads) /\ Cardinality(B) \in Nat
      /\ IsFiniteSet(C) /\ Cardinality(C) <= Cardinality(Threads \ {t})
      /\ Cardinality(C) \in Nat
  BY <1>1, FinitelyMany, ValuesAreFew
<1>3. SUFFICES ASSUME \A i \in Ids : heap[i] # None PROVE FALSE
  BY DEF FreeId
<1>4. Ids \subseteq A \cup B \cup C
  BY <1>3 DEF Base, References, Live
<1>. HIDE DEF A, B, C
<1>5. /\ IsFiniteSet(A \cup B)
      /\ Cardinality(A \cup B) <= Cardinality(A) + Cardinality(B)
      /\ Cardinality(A \cup B) \in Nat
  <2>1. IsFiniteSet(A \cap B) /\ Cardinality(A \cap B) \in Nat
    BY <1>2, FS_Intersection, FS_CardinalityType
  <2>2. IsFiniteSet(A \cup B)
        /\ Cardinality(A \cup B) = Cardinality(A) + Cardinality(B) - Cardinality(A \cap B)
    BY <1>2, FS_Union
  <2>. QED BY <1>2, <2>1, <2>2, FS_CardinalityType
<1>6. /\ IsFiniteSet(A \cup B \cup C)
      /\ Cardinality(A \cup B \cup C) <= Cardinality(A \cup B) + Cardinality(C)
      /\ Cardinality(A \cup B \cup C) \in Nat
  <2>. DEFINE AB == A \cup B
  <2>0. IsFiniteSet(AB) /\ Cardinality(AB) \in Nat
    BY <1>5
  <2>. HIDE DEF AB
  <2>1. IsFiniteSet(AB \cap C) /\ Cardinality(AB \cap C) \in Nat
    BY <1>2, <2>0, FS_Intersection, FS_CardinalityType
  <2>2. IsFiniteSet(AB \cup C)
        /\ Cardinality(AB \cup C) = Cardinality(AB) + Cardinality(C) - Cardinality(AB \cap C)
    BY <1>2, <2>0, FS_Union
  <2>3. /\ IsFiniteSet(AB \cup C)
        /\ Cardinality(AB \cup C) <= Cardinality(AB) + Cardinality(C)
        /\ Cardinality(AB \cup C) \in Nat
    BY <1>2, <2>0, <2>1, <2>2, FS_CardinalityType
  <2>. QED BY <2>3 DEF AB
<1>7. Cardinality(Ids) = Cardinality(Shards) + 2 * Cardinality(Threads)
  BY <1>1, FS_Interval DEF Ids
<1>8. Cardinality(Ids) <= Cardinality(A \cup B \cup C)
  BY <1>4, <1>6, FS_Subset
<1>. QED BY <1>1, <1>2, <1>5, <1>6, <1>7, <1>8

\* What stays as it was while a thread looks for its shard.
Elsewhere == <<setup, saved, ledgerSaved, records, file, goal, left, import,
               saving, session>>

\* The steps of get_or_create_shard.
LEMMA LookingKeepsBase ==
    ASSUME Base, NEW t \in Threads, GetOrCreate(t)
    PROVE  Base'
<1>. USE NoneFacts DEF Base, Goto
<1>1. /\ UNCHANGED <<setup, saved, ledgerSaved, records, file, goal, left, tried,
                     results, ledger, main, todo, collected, session>>
      /\ pc[t] # "idle" /\ pc[t] # "record" /\ pc[t] # "have"
      /\ goal[t] \in Shards /\ goal[t] # None
  BY DEF GetOrCreate, import, saving, FastPath, SlowPath, FoundAfterAll,
     StartCreating, NoEviction, PeekLru, RemoveVictim, SaveVictim, PopLru,
     OpenOrCreate, InsertShard, TouchNew, Places, TypeOK
<1>2. heap \in Heaps /\ Live(open, arc, evicted) \subseteq Ids
  BY DEF TypeOK, Heaps, Live
<1>3. CASE FastPath(t) \/ FoundAfterAll(t)
  <2>1. /\ UNCHANGED <<open, lock, disk, victim, evicted>>
        /\ arc' = [arc EXCEPT ![t] = open[goal[t]]] /\ open[goal[t]] # None
        /\ heap' = Closed(heap, Live(open', arc', evicted'))
        /\ pc[t] \in {"want", "lock"} /\ pc' = [pc EXCEPT ![t] = "have"]
        /\ lru' = Touched(goal[t])
    BY <1>3 DEF FastPath, FoundAfterAll, TakeArc, IsOpen
  <2>2. /\ lru' \in Seq(Shards) /\ heap' \in Heaps
        /\ \A i \in Ids : heap'[i] = IF i \in Live(open', arc', evicted')
                                       THEN heap[i] ELSE None
    BY <1>1, <1>2, <2>1, TouchedType, SetupFacts, ClosingKeeps DEF TypeOK
  <2>3. arc' \in [Threads -> Ids \cup {None}] /\ pc' \in [Threads -> PCs]
    BY <1>1, <2>1 DEF TypeOK, PCs
  <2>4. TypeOK'
    BY <1>1, <2>1, <2>2, <2>3 DEF TypeOK, Heaps
  <2>5. /\ \A k \in Shards : open'[k] # None =>
              open'[k] = open[k] \/ \E u \in Threads : open'[k] = arc[u] /\ goal[u] = k
        /\ \A u \in Threads : arc'[u] # None =>
              \/ arc'[u] = arc[u] /\ goal'[u] = goal[u]
              \/ goal'[u] \in Shards /\ arc'[u] = open[goal'[u]]
        /\ \A u \in Threads : evicted'[u] # None =>
              \/ evicted'[u] = evicted[u] /\ victim'[u] = victim[u]
              \/ victim'[u] \in Shards /\ evicted'[u] = open[victim'[u]]
        /\ \A k \in Shards : disk[k] # None => disk'[k] # None
    BY <1>1, <2>1 DEF TypeOK
  <2>6. References'
    BY <1>2, <2>2, <2>5, ReferencesMove
  <2>7. Places'
    BY <1>1, <2>1 DEF Places, TypeOK
  <2>. QED BY <2>4, <2>6, <2>7
<1>4. CASE SlowPath(t) \/ StartCreating(t) \/ NoEviction(t) \/ PeekLru(t)
            \/ PopLru(t) \/ TouchNew(t)
  <2>1. /\ UNCHANGED <<open, heap, disk, arc, evicted>>
        /\ \A u \in Threads \ {t} : pc'[u] = pc[u] /\ victim'[u] = victim[u]
        /\ pc[t] \notin {"save", "insert"} /\ pc'[t] \notin {"idle", "save"}
    BY <1>4 DEF SlowPath, StartCreating, NoEviction, PeekLru, PopLru, TouchNew,
       cache, TypeOK
  <2>2. PeekLru(t) => Head(lru) \in Shards
    <3>1. PeekLru(t) => setup.cap > 0 /\ Len(lru) >= setup.cap /\ setup.cap \in Nat
      BY SetupFacts DEF PeekLru, MustEvict
    <3>2. PeekLru(t) => lru # <<>> /\ lru \in Seq(Shards)
      BY <3>1 DEF TypeOK
    <3>. QED BY <3>2
  <2>3. lru' \in Seq(Shards)
    <3>1. lru' = lru \/ lru' = Touched(goal[t]) \/ (lru # <<>> /\ lru' = Tail(lru))
      BY <1>4 DEF SlowPath, StartCreating, NoEviction, PeekLru, PopLru, TouchNew, cache
    <3>2. lru \in Seq(Shards) /\ Touched(goal[t]) \in Seq(Shards)
      BY <1>1, TouchedType, SetupFacts DEF TypeOK
    <3>. QED BY <3>1, <3>2
  <2>4. pc' \in [Threads -> PCs] /\ victim' \in [Threads -> Shards \cup {None}]
    <3>1. /\ pc \in [Threads -> PCs] /\ victim \in [Threads -> Shards \cup {None}]
          /\ {"lock", "evict", "open", "remove", "have"} \subseteq PCs
      BY DEF TypeOK, PCs, Creating
    <3>2. \E to \in {"lock", "evict", "open", "remove", "have"} :
             pc' = [pc EXCEPT ![t] = to]
      BY <1>4 DEF SlowPath, StartCreating, NoEviction, PeekLru, PopLru, TouchNew
    <3>3. \/ victim' = victim
          \/ victim' = [victim EXCEPT ![t] = None]
          \/ PeekLru(t) /\ victim' = [victim EXCEPT ![t] = Head(lru)]
      BY <1>4 DEF SlowPath, StartCreating, NoEviction, PeekLru, PopLru, TouchNew
    <3>4. victim' \in [Threads -> Shards \cup {None}]
      BY <2>2, <3>1, <3>3
    <3>. QED BY <3>1, <3>2, <3>4
  <2>5. lock' \in [Shards -> Threads \cup {None}]
    <3>1. lock' = lock \/ (\E u \in Threads \cup {None} : lock' = [lock EXCEPT ![goal[t]] = u])
      BY <1>4 DEF SlowPath, StartCreating, NoEviction, PeekLru, PopLru, TouchNew, cache
    <3>. QED BY <3>1 DEF TypeOK
  <2>6. TypeOK'
    BY <1>1, <2>1, <2>3, <2>4, <2>5 DEF TypeOK
  <2>7. evicted[t] = None
    BY <2>1 DEF Places
  <2>8. References'
    BY <1>1, <2>1, <2>7 DEF References
  <2>9. /\ pc'[t] \in {"insert", "touch", "have", "record"} => arc'[t] # None
        /\ pc'[t] \in {"remove", "save", "pop"} => victim'[t] # None /\ setup.cap > 0
    BY <1>4, <2>1, <2>2 DEF SlowPath, StartCreating, NoEviction, PeekLru, PopLru,
       TouchNew, MustEvict, TypeOK, Places
  <2>. QED BY <1>1, <2>1, <2>6, <2>7, <2>8, <2>9 DEF Places
<1>5. CASE RemoveVictim(t)
  <2>1. /\ UNCHANGED <<heap, lru, lock, disk, arc, victim>>
        /\ open' = [open EXCEPT ![victim[t]] = None]
        /\ evicted' = [evicted EXCEPT ![t] = open[victim[t]]]
        /\ victim[t] \in Shards /\ setup.cap > 0
        /\ pc[t] = "remove" /\ evicted[t] = None
        /\ pc' = [pc EXCEPT ![t] = IF open[victim[t]] # None THEN "save" ELSE "pop"]
    BY <1>5 DEF RemoveVictim, Places, TypeOK, IsOpen
  <2>2. Live(open', arc', evicted') = Live(open, arc, evicted)
    <3>1. \A k \in Shards : open[k] = open'[k] \/ open[k] = evicted'[t]
      BY <2>1 DEF TypeOK
    <3>2. \A k \in Shards : open'[k] = open[k] \/ open'[k] = None
      BY <2>1 DEF TypeOK
    <3>3. \A u \in Threads : evicted'[u] = evicted[u] \/ evicted'[u] = open[victim[t]]
      BY <2>1 DEF TypeOK
    <3>4. \A u \in Threads : evicted[u] = evicted'[u] \/ evicted[u] = None
      BY <2>1 DEF TypeOK
    <3>. QED BY <2>1, <3>1, <3>2, <3>3, <3>4 DEF Live
  <2>3. TypeOK'
    <3>1. /\ open' \in [Shards -> Ids \cup {None}]
          /\ evicted' \in [Threads -> Ids \cup {None}]
          /\ pc' \in [Threads -> PCs]
      BY <2>1 DEF TypeOK, PCs, Creating
    <3>. QED BY <1>1, <2>1, <3>1 DEF TypeOK
  <2>4. References'
    BY <1>1, <2>1, <2>2 DEF References, TypeOK
  <2>5. Places'
    BY <1>1, <2>1 DEF Places, TypeOK
  <2>. QED BY <2>3, <2>4, <2>5
<1>6. CASE SaveVictim(t)
  <2>1. /\ UNCHANGED <<open, lru, lock, arc, victim>>
        /\ evicted' = [evicted EXCEPT ![t] = None]
        /\ heap' = Closed(heap, Live(open', arc', evicted'))
        /\ victim[t] \in Shards /\ setup.cap > 0
        /\ pc[t] = "save" /\ evicted[t] # None /\ pc' = [pc EXCEPT ![t] = "pop"]
        /\ disk' = disk \/ disk' = [disk EXCEPT ![victim[t]] = Image(heap[evicted[t]])]
    BY <1>6 DEF SaveVictim, Places, TypeOK
  <2>2. heap[evicted[t]] \in Handles /\ Image(heap[evicted[t]]) \in Images
    BY <2>1, MadeOfOthers DEF References, Live, TypeOK
  <2>3. /\ disk' \in [Shards -> Images \cup {None}]
        /\ \A k \in Shards : disk[k] # None => disk'[k] # None
    BY <2>1, <2>2 DEF TypeOK
  <2>4. /\ heap' \in Heaps
        /\ \A i \in Ids : heap'[i] = IF i \in Live(open', arc', evicted')
                                       THEN heap[i] ELSE None
    BY <1>2, <2>1, ClosingKeeps
  <2>5. /\ evicted' \in [Threads -> Ids \cup {None}]
        /\ pc' \in [Threads -> PCs]
    BY <2>1 DEF TypeOK, PCs, Creating
  <2>6. TypeOK'
    BY <1>1, <2>1, <2>3, <2>4, <2>5 DEF TypeOK, Heaps
  <2>7. /\ \A k \in Shards : open'[k] # None =>
              open'[k] = open[k] \/ \E u \in Threads : open'[k] = arc[u] /\ goal[u] = k
        /\ \A u \in Threads : arc'[u] # None =>
              \/ arc'[u] = arc[u] /\ goal'[u] = goal[u]
              \/ goal'[u] \in Shards /\ arc'[u] = open[goal'[u]]
        /\ \A u \in Threads : evicted'[u] # None =>
              \/ evicted'[u] = evicted[u] /\ victim'[u] = victim[u]
              \/ victim'[u] \in Shards /\ evicted'[u] = open[victim'[u]]
    BY <1>1, <2>1 DEF TypeOK
  <2>8. References'
    BY <1>2, <2>3, <2>4, <2>7, ReferencesMove
  <2>9. Places'
    BY <1>1, <2>1 DEF Places, TypeOK
  <2>. QED BY <2>6, <2>8, <2>9
<1>7. CASE OpenOrCreate(t)
  <2>. DEFINE k == goal[t]
              image == IF disk[k] = None THEN NewShard ELSE disk[k]
              i == FreeId
              h == [heap EXCEPT ![i] = Loaded(k, image)]
  <2>1. /\ UNCHANGED <<open, lru, lock, victim, evicted>>
        /\ disk' = [disk EXCEPT ![k] = image]
        /\ arc' = [arc EXCEPT ![t] = i]
        /\ heap' = Closed(h, Live(open', arc', evicted'))
        /\ pc[t] = "open" /\ pc' = [pc EXCEPT ![t] = "insert"]
        /\ evicted[t] = None
    BY <1>7 DEF OpenOrCreate, Places
  <2>2. i \in Ids /\ heap[i] = None
    BY <2>1, FreeIdIsFree
  <2>3. image \in Images /\ Loaded(k, image) \in Handles /\ Loaded(k, image).key = k
    BY <1>1, MadeOfOthers DEF TypeOK
  <2>. HIDE DEF i, image
  <2>4. /\ disk' \in [Shards -> Images \cup {None}]
        /\ \A j \in Shards : disk[j] # None => disk'[j] # None
        /\ disk'[k] # None
    BY <1>1, <2>1, <2>3 DEF TypeOK
  <2>5. /\ h \in Heaps /\ h[i].key = k /\ h[i] # None
        /\ \A j \in Ids \ {i} : h[j] = heap[j]
    BY <1>2, <2>2, <2>3 DEF Heaps
  <2>. HIDE DEF h
  <2>6. /\ heap' \in Heaps
        /\ \A j \in Ids : heap'[j] = IF j \in Live(open', arc', evicted')
                                       THEN h[j] ELSE None
    BY <2>1, <2>5, ClosingKeeps
  <2>7. TypeOK'
    <3>1. arc' \in [Threads -> Ids \cup {None}] /\ pc' \in [Threads -> PCs]
      BY <2>1, <2>2 DEF TypeOK, PCs, Creating
    <3>. QED BY <1>1, <2>1, <2>4, <2>6, <3>1 DEF TypeOK, Heaps
  <2>8. References'
    <3>1. \A j \in Live(open, arc, evicted) : j # i
      BY <2>2 DEF References
    <3>2. /\ \A l \in Shards : open[l] # None => open[l] \in Live(open, arc, evicted)
          /\ \A u \in Threads : arc[u] # None => arc[u] \in Live(open, arc, evicted)
          /\ \A u \in Threads : evicted[u] # None => evicted[u] \in Live(open, arc, evicted)
      BY DEF Live
    <3>3. \A j \in Live(open', arc', evicted') : j \in Ids /\
              (j = i \/ j \in Live(open, arc, evicted))
      BY <2>1, <2>2 DEF Live, TypeOK
    <3>4. \A j \in Live(open', arc', evicted') : heap'[j] = h[j] /\ h[j] # None
      BY <2>5, <2>6, <3>3 DEF References
    <3>5. \A j \in Ids : heap'[j] # None =>
             j \in Live(open', arc', evicted') /\ disk'[heap'[j].key] # None
      <4>. SUFFICES ASSUME NEW j \in Ids, heap'[j] # None
                    PROVE  j \in Live(open', arc', evicted')
                           /\ disk'[heap'[j].key] # None
        OBVIOUS
      <4>1. j \in Live(open', arc', evicted') /\ heap'[j] = h[j]
        BY <2>6
      <4>2. CASE j = i
        BY <2>4, <2>5, <4>1, <4>2
      <4>3. CASE j # i
        <5>1. heap'[j] = heap[j] /\ heap[j] # None
          BY <2>5, <4>1, <4>3
        <5>2. heap[j].key \in Shards /\ disk[heap[j].key] # None
          BY <1>2, <5>1, MadeOfOthers DEF References, Heaps
        <5>. QED BY <2>4, <4>1, <5>1, <5>2
      <4>. QED BY <4>2, <4>3
    <3>6. \A j \in Live(open, arc, evicted) : j \in Live(open', arc', evicted') =>
             heap'[j] = heap[j]
      BY <1>2, <2>5, <3>1, <3>4
    <3>7. /\ \A l \in Shards : open'[l] # None => open'[l] \in Live(open', arc', evicted')
          /\ \A u \in Threads : arc'[u] # None => arc'[u] \in Live(open', arc', evicted')
          /\ \A u \in Threads : evicted'[u] # None =>
                evicted'[u] \in Live(open', arc', evicted')
      BY DEF Live
    <3>8. \A l \in Shards : open'[l] # None => heap'[open'[l]].key = l
      BY <2>1, <3>2, <3>6, <3>7 DEF References
    <3>9. \A u \in Threads : arc'[u] # None => heap'[arc'[u]].key = goal'[u]
      <4>1. heap'[i].key = goal'[t] /\ arc'[t] = i
        BY <1>1, <2>1, <2>5, <3>4, <3>7, <2>2 DEF TypeOK
      <4>2. \A u \in Threads \ {t} : arc'[u] = arc[u] /\ goal'[u] = goal[u]
        BY <1>1, <2>1 DEF TypeOK
      <4>. QED BY <3>2, <3>6, <3>7, <4>1, <4>2 DEF References
    <3>10. \A u \in Threads : evicted'[u] # None => heap'[evicted'[u]].key = victim'[u]
      BY <2>1, <3>2, <3>6, <3>7 DEF References
    <3>. QED BY <3>4, <3>5, <3>8, <3>9, <3>10 DEF References
  <2>9. Places'
    BY <1>1, <2>1, <2>2 DEF Places, TypeOK
  <2>. QED BY <2>7, <2>8, <2>9
<1>8. CASE InsertShard(t)
  <2>1. /\ UNCHANGED <<lru, lock, disk, arc, victim, evicted>>
        /\ open' = [open EXCEPT ![goal[t]] = arc[t]]
        /\ heap' = Closed(heap, Live(open', arc', evicted'))
        /\ pc[t] = "insert" /\ pc' = [pc EXCEPT ![t] = "touch"] /\ arc[t] # None
    BY <1>8 DEF InsertShard, Places
  <2>2. /\ heap' \in Heaps
        /\ \A i \in Ids : heap'[i] = IF i \in Live(open', arc', evicted')
                                       THEN heap[i] ELSE None
    BY <1>2, <2>1, ClosingKeeps
  <2>3. /\ open' \in [Shards -> Ids \cup {None}] /\ pc' \in [Threads -> PCs]
    BY <1>1, <2>1 DEF TypeOK, PCs, Creating
  <2>4. TypeOK'
    BY <1>1, <2>1, <2>2, <2>3 DEF TypeOK, Heaps
  <2>5. /\ \A k \in Shards : open'[k] # None =>
              open'[k] = open[k] \/ \E u \in Threads : open'[k] = arc[u] /\ goal[u] = k
        /\ \A u \in Threads : arc'[u] # None =>
              \/ arc'[u] = arc[u] /\ goal'[u] = goal[u]
              \/ goal'[u] \in Shards /\ arc'[u] = open[goal'[u]]
        /\ \A u \in Threads : evicted'[u] # None =>
              \/ evicted'[u] = evicted[u] /\ victim'[u] = victim[u]
              \/ victim'[u] \in Shards /\ evicted'[u] = open[victim'[u]]
        /\ \A k \in Shards : disk[k] # None => disk'[k] # None
    BY <1>1, <2>1 DEF TypeOK
  <2>6. References'
    BY <1>2, <2>2, <2>5, ReferencesMove
  <2>7. Places'
    BY <1>1, <2>1 DEF Places, TypeOK
  <2>. QED BY <2>4, <2>6, <2>7
<1>. QED BY <1>3, <1>4, <1>5, <1>6, <1>7, <1>8 DEF GetOrCreate

\* The handle that a thread holds, or that is open for a shard.
LEMMA HeldHandle ==
    ASSUME Base, NEW t \in Threads, arc[t] # None
    PROVE  /\ arc[t] \in Ids /\ arc[t] \in Live(open, arc, evicted)
           /\ heap[arc[t]] \in Handles /\ heap[arc[t]] # None
           /\ heap[arc[t]].key = goal[t] /\ goal[t] \in Shards
           /\ disk[goal[t]] \in Images
<1>1. arc[t] \in Ids /\ arc[t] \in Live(open, arc, evicted)
  BY NoneFacts DEF Base, TypeOK, Live
<1>2. heap[arc[t]] \in Handles /\ heap[arc[t]] # None /\ heap[arc[t]].key = goal[t]
  BY <1>1 DEF Base, TypeOK, References
<1>3. goal[t] \in Shards /\ disk[goal[t]] # None
  BY <1>1, <1>2, MadeOfOthers DEF Base, References
<1>. QED BY <1>1, <1>2, <1>3 DEF Base, TypeOK

LEMMA OpenHandle ==
    ASSUME Base, NEW k \in Shards, open[k] # None
    PROVE  /\ open[k] \in Ids /\ open[k] \in Live(open, arc, evicted)
           /\ heap[open[k]] \in Handles /\ heap[open[k]] # None
           /\ heap[open[k]].key = k /\ disk[k] \in Images
<1>1. open[k] \in Ids /\ open[k] \in Live(open, arc, evicted)
  BY NoneFacts DEF Base, TypeOK, Live
<1>2. heap[open[k]] \in Handles /\ heap[open[k]] # None /\ heap[open[k]].key = k
  BY <1>1 DEF Base, TypeOK, References
<1>3. disk[k] # None
  BY <1>1, <1>2 DEF Base, References
<1>. QED BY <1>1, <1>2, <1>3 DEF Base, TypeOK

\* What is written to a handle.
LEMMA Counted ==
    ASSUME NEW h \in Handles, NEW f \in Files
    PROVE  /\ LET n == [h EXCEPT !.cnt[f] = More(@), !.dirty = TRUE] IN
                /\ n \in Handles /\ n.key = h.key /\ n.done = h.done /\ n.dirty
                /\ n.cnt = [h.cnt EXCEPT ![f] = More(h.cnt[f])]
           /\ LET n == [h EXCEPT !.cnt[f] = IF @ = "none" THEN "part" ELSE @,
                                 !.dirty = TRUE] IN
                /\ n \in Handles /\ n.key = h.key /\ n.done = h.done /\ n.dirty
                /\ n.cnt = [h.cnt EXCEPT ![f] = IF h.cnt[f] = "none" THEN "part"
                                                ELSE h.cnt[f]]
<1>1. h.cnt[f] \in Contents
  BY DEF Handles
<1>2. More(h.cnt[f]) \in Contents
  BY DEF More, Contents
<1>3. (IF h.cnt[f] = "none" THEN "part" ELSE h.cnt[f]) \in Contents
  BY <1>1 DEF Contents
<1>. DEFINE c == More(h.cnt[f])
            d == IF h.cnt[f] = "none" THEN "part" ELSE h.cnt[f]
<1>4. c \in Contents /\ d \in Contents
  BY <1>2, <1>3
<1>. HIDE DEF c, d
<1>5. LET n == [h EXCEPT !.cnt[f] = c, !.dirty = TRUE] IN
        /\ n \in Handles /\ n.key = h.key /\ n.done = h.done /\ n.dirty
        /\ n.cnt = [h.cnt EXCEPT ![f] = c]
  BY <1>4 DEF Handles
<1>6. LET n == [h EXCEPT !.cnt[f] = d, !.dirty = TRUE] IN
        /\ n \in Handles /\ n.key = h.key /\ n.done = h.done /\ n.dirty
        /\ n.cnt = [h.cnt EXCEPT ![f] = d]
  BY <1>4 DEF Handles
<1>. QED BY <1>5, <1>6 DEF c, d

LEMMA Written ==
    ASSUME NEW h \in Handles, NEW f \in Files
    PROVE  /\ LET n == [h EXCEPT !.cnt[f] = "once", !.done = @ \cup {f}] IN
                /\ n \in Handles /\ n.key = h.key /\ n.done = h.done \cup {f}
                /\ n.dirty = h.dirty /\ n.cnt = [h.cnt EXCEPT ![f] = "once"]
           /\ LET n == [h EXCEPT !.done = @ \cup {f}] IN
                /\ n \in Handles /\ n.key = h.key /\ n.done = h.done \cup {f}
                /\ n.dirty = h.dirty /\ n.cnt = h.cnt
           /\ LET n == [h EXCEPT !.dirty = TRUE] IN
                /\ n \in Handles /\ n.key = h.key /\ n.done = h.done
                /\ n.dirty /\ n.cnt = h.cnt
BY DEF Handles, Contents

\* What a thread does to the handle it holds while no other reference moves.
LEMMA WritingKeeps ==
    ASSUME Base, NEW j \in Live(open, arc, evicted), NEW n \in Handles,
           n.key = heap[j].key, NEW h, h = [heap EXCEPT ![j] = n]
    PROVE  /\ h \in Heaps /\ h[j] = n /\ n # None
           /\ \A i \in Ids : heap[i] # None => h[i] # None /\ h[i].key = heap[i].key
           /\ \A i \in Ids \ {j} : h[i] = heap[i]
           /\ \A i \in Ids : i \notin Live(open, arc, evicted) => h[i] = None
<1>1. j \in Ids /\ heap \in Heaps /\ heap[j] # None
  BY NoneFacts DEF Base, TypeOK, References, Heaps, Live
<1>2. n # None
  BY NoneFacts
<1>3. h \in Heaps /\ h[j] = n /\ \A i \in Ids \ {j} : h[i] = heap[i]
  BY <1>1 DEF Heaps
<1>4. \A i \in Ids : i \notin Live(open, arc, evicted) => heap[i] = None
  BY DEF Base, References
<1>. QED BY <1>1, <1>2, <1>3, <1>4

\* The steps that move nothing but the references of one thread, which lets go
\* of its handle or keeps it.
LEMMA LettingGo ==
    ASSUME Base, NEW t \in Threads, NEW h \in Heaps,
           \A i \in Ids : heap[i] # None => h[i] # None /\ h[i].key = heap[i].key,
           heap' = Closed(h, Live(open', arc', evicted')),
           UNCHANGED <<open, victim, evicted>>,
           arc' = [arc EXCEPT ![t] = None],
           \A u \in Threads \ {t} : goal'[u] = goal[u],
           \A k \in Shards : disk[k] # None => disk'[k] # None
    PROVE  References' /\ heap' \in Heaps /\ arc' \in [Threads -> Ids \cup {None}]
<1>. USE DEF Base
<1>1. /\ heap' \in Heaps
      /\ \A i \in Ids : heap'[i] = IF i \in Live(open', arc', evicted')
                                     THEN h[i] ELSE None
  BY ClosingKeeps
<1>2. /\ \A k \in Shards : open'[k] # None =>
            open'[k] = open[k] \/ \E u \in Threads : open'[k] = arc[u] /\ goal[u] = k
      /\ \A u \in Threads : arc'[u] # None =>
            \/ arc'[u] = arc[u] /\ goal'[u] = goal[u]
            \/ goal'[u] \in Shards /\ arc'[u] = open[goal'[u]]
      /\ \A u \in Threads : evicted'[u] # None =>
            \/ evicted'[u] = evicted[u] /\ victim'[u] = victim[u]
            \/ victim'[u] \in Shards /\ evicted'[u] = open[victim'[u]]
  BY DEF TypeOK
<1>3. References'
  BY <1>1, <1>2, ReferencesMove
<1>. QED BY <1>1, <1>3 DEF TypeOK

\* The steps that move no reference at all.
LEMMA StayingPut ==
    ASSUME Base, UNCHANGED <<open, arc, evicted, victim, goal>>,
           heap' \in Heaps,
           \A i \in Ids : heap[i] # None => heap'[i] # None /\ heap'[i].key = heap[i].key,
           \A i \in Ids : i \notin Live(open, arc, evicted) => heap'[i] = None,
           \A k \in Shards : disk[k] # None => disk'[k] # None
    PROVE  References'
<1>. USE DEF Base
<1>1. \A i \in Ids : heap'[i] = IF i \in Live(open', arc', evicted')
                                THEN heap'[i] ELSE None
  OBVIOUS
<1>2. /\ \A k \in Shards : open'[k] # None =>
            open'[k] = open[k] \/ \E u \in Threads : open'[k] = arc[u] /\ goal[u] = k
      /\ \A u \in Threads : arc'[u] # None =>
            \/ arc'[u] = arc[u] /\ goal'[u] = goal[u]
            \/ goal'[u] \in Shards /\ arc'[u] = open[goal'[u]]
      /\ \A u \in Threads : evicted'[u] # None =>
            \/ evicted'[u] = evicted[u] /\ victim'[u] = victim[u]
            \/ victim'[u] \in Shards /\ evicted'[u] = open[victim'[u]]
  OBVIOUS
<1>. QED BY <1>1, <1>2, ReferencesMove

\* A worker that is through with its file.
LEMMA EndsKeeps ==
    ASSUME Base, NEW t \in Threads, pc[t] # "idle", pc[t] # "save",
           NEW outcome \in {"ok", "failed"}, Ends(t, outcome),
           UNCHANGED <<setup, victim, evicted>>
    PROVE  /\ pc' \in [Threads -> PCs] /\ file' \in [Threads -> Files \cup {None}]
           /\ goal' \in [Threads -> Shards \cup {None}]
           /\ left' \in [Threads -> SUBSET Shards]
           /\ results' \in [{"ok", "failed"} -> SUBSET Files]
           /\ \A u \in Threads \ {t} : goal'[u] = goal[u]
           /\ Places'
<1>1. file[t] \in Files
  BY DEF Base, TypeOK, Places
<1>2. /\ pc' \in [Threads -> PCs] /\ file' \in [Threads -> Files \cup {None}]
      /\ goal' \in [Threads -> Shards \cup {None}]
      /\ left' \in [Threads -> SUBSET Shards]
      /\ \A u \in Threads \ {t} : goal'[u] = goal[u]
  BY DEF Base, TypeOK, Ends, PCs
<1>3. results' \in [{"ok", "failed"} -> SUBSET Files]
  BY <1>1 DEF Base, TypeOK, Ends
<1>4. Places'
  BY DEF Base, TypeOK, Ends, Places
<1>. QED BY <1>2, <1>3, <1>4

\* The first shard that is asked for is one of the file's.
LEMMA AskKeeps ==
    ASSUME Base, NEW t \in Threads, NEW f \in Files, Ask(t, f)
    PROVE  /\ goal' \in [Threads -> Shards \cup {None}]
           /\ left' \in [Threads -> SUBSET Shards]
           /\ left'[t] = Targets(f) /\ goal'[t] \in Targets(f) /\ goal'[t] # None
           /\ \A u \in Threads \ {t} : goal'[u] = goal[u] /\ left'[u] = left[u]
<1>. DEFINE k == CHOOSE k \in Targets(f) : TRUE
<1>1. Targets(f) \subseteq Shards /\ Targets(f) # {}
  BY SetupFacts DEF Base
<1>2. k \in Targets(f)
  BY <1>1
<1>3. goal' = [goal EXCEPT ![t] = k] /\ left' = [left EXCEPT ![t] = Targets(f)]
  BY DEF Ask
<1>. HIDE DEF k
<1>. QED BY <1>1, <1>2, <1>3, NoneFacts DEF Base, TypeOK

\* The other steps of a worker.
LEMMA WorkingKeepsBase ==
    ASSUME Base, NEW t \in Threads, Worker(t), ~ GetOrCreate(t)
    PROVE  Base'
<1>. USE NoneFacts DEF Base, Goto
<1>1. heap \in Heaps /\ \A i \in Ids : heap[i] # None => heap[i].key = heap[i].key
  BY DEF TypeOK, Heaps
<1>2. ASSUME NEW f \in Files, StartFile(t, f) PROVE Base'
  <2>1. /\ UNCHANGED <<setup, open, heap, lru, lock, disk, saved, ledgerSaved,
                       records, arc, victim, evicted, results, ledger, main, todo,
                       collected, session>>
        /\ t \in setup.workers /\ pc[t] = "idle" /\ pc' = [pc EXCEPT ![t] = "want"]
        /\ tried' = tried \cup {f} /\ file' = [file EXCEPT ![t] = f] /\ Ask(t, f)
    BY <1>2 DEF StartFile, cache, durable, saving
  <2>2. /\ goal' \in [Threads -> Shards \cup {None}]
        /\ left' \in [Threads -> SUBSET Shards] /\ goal'[t] # None
        /\ \A u \in Threads \ {t} : goal'[u] = goal[u]
    BY <2>1, AskKeeps
  <2>3. /\ pc' \in [Threads -> PCs] /\ file' \in [Threads -> Files \cup {None}]
    BY <2>1 DEF TypeOK, PCs
  <2>4. TypeOK'
    BY <2>1, <2>2, <2>3 DEF TypeOK
  <2>5. References'
    BY <2>1, <2>2 DEF References, Places
  <2>6. Places'
    BY <2>1, <2>2 DEF Places, TypeOK
  <2>. QED BY <2>4, <2>5, <2>6
<1>3. CASE Increment(t)
  <2>. DEFINE j == arc[t]
              n == [heap[j] EXCEPT !.cnt[file[t]] = More(@), !.dirty = TRUE]
              h == [heap EXCEPT ![j] = n]
              rest == left[t] \ {goal[t]}
  <2>1. /\ UNCHANGED <<setup, open, lru, lock, disk, saved, ledgerSaved, records,
                       victim, evicted, tried, ledger, main, todo, collected, session>>
        /\ pc[t] = "have" /\ heap' = Closed(h, Live(open', arc', evicted'))
        /\ \/ /\ rest # {} /\ pc' = [pc EXCEPT ![t] = "want"]
              /\ left' = [left EXCEPT ![t] = rest]
              /\ goal' = [goal EXCEPT ![t] = CHOOSE k \in rest : TRUE]
              /\ arc' = [arc EXCEPT ![t] = None]
              /\ UNCHANGED <<file, results>>
           \/ Ends(t, "ok")
    BY <1>3 DEF Increment, durable, saving
  <2>2. /\ arc[t] # None /\ file[t] \in Files /\ goal[t] # None
        /\ evicted[t] = None /\ t \in setup.workers
    BY <2>1 DEF Places, TypeOK
  <2>3. n \in Handles /\ n.key = heap[j].key
    <3>1. heap[j] \in Handles
      BY <2>2, HeldHandle
    <3>. QED BY <2>2, <3>1, Counted
  <2>. HIDE DEF n
  <2>4. /\ h \in Heaps
        /\ \A i \in Ids : heap[i] # None => h[i] # None /\ h[i].key = heap[i].key
    BY <2>2, <2>3, HeldHandle, WritingKeeps
  <2>. HIDE DEF h
  <2>5. CASE Ends(t, "ok")
    <3>1. /\ pc' \in [Threads -> PCs] /\ file' \in [Threads -> Files \cup {None}]
          /\ goal' \in [Threads -> Shards \cup {None}]
          /\ left' \in [Threads -> SUBSET Shards]
          /\ results' \in [{"ok", "failed"} -> SUBSET Files]
          /\ \A u \in Threads \ {t} : goal'[u] = goal[u]
          /\ Places' /\ arc' = [arc EXCEPT ![t] = None]
      BY <2>1, <2>5, EndsKeeps DEF Ends
    <3>2. References' /\ heap' \in Heaps /\ arc' \in [Threads -> Ids \cup {None}]
      BY <2>1, <2>4, <3>1, LettingGo
    <3>3. TypeOK'
      BY <2>1, <3>1, <3>2 DEF TypeOK, Heaps
    <3>. QED BY <3>1, <3>2, <3>3
  <2>6. CASE ~ Ends(t, "ok")
    <3>. DEFINE k == CHOOSE k \in rest : TRUE
    <3>1. k \in rest
      BY <2>1, <2>6
    <3>2. rest \subseteq Shards /\ goal' = [goal EXCEPT ![t] = k]
      BY <2>1, <2>6 DEF TypeOK
    <3>. HIDE DEF k
    <3>3. /\ goal' \in [Threads -> Shards \cup {None}] /\ goal'[t] # None
          /\ \A u \in Threads \ {t} : goal'[u] = goal[u]
      BY <3>1, <3>2 DEF TypeOK
    <3>4. /\ pc' = [pc EXCEPT ![t] = "want"] /\ arc' = [arc EXCEPT ![t] = None]
          /\ left' = [left EXCEPT ![t] = rest]
          /\ UNCHANGED <<file, results>>
      BY <2>1, <2>6
    <3>5. References' /\ heap' \in Heaps /\ arc' \in [Threads -> Ids \cup {None}]
      BY <2>1, <2>4, <3>3, <3>4, LettingGo
    <3>6. pc' \in [Threads -> PCs] /\ left' \in [Threads -> SUBSET Shards]
      BY <3>2, <3>4 DEF TypeOK, PCs
    <3>7. TypeOK'
      BY <2>1, <3>3, <3>4, <3>5, <3>6 DEF TypeOK, Heaps
    <3>8. Places'
      BY <2>1, <2>2, <3>3, <3>4 DEF Places, TypeOK
    <3>. QED BY <3>5, <3>7, <3>8
  <2>. QED BY <2>5, <2>6
<1>4. CASE CommitChunk(t) \/ CommitPrefix(t)
  <2>. DEFINE j == arc[t]
  <2>1. /\ UNCHANGED <<setup, open, lru, lock, saved, ledgerSaved, records, file,
                       goal, arc, victim, evicted, tried, results, ledger, main,
                       todo, collected, session>>
        /\ pc[t] = "have" /\ (pc' = [pc EXCEPT ![t] = "want"]
                              \/ pc' = [pc EXCEPT ![t] = "record"])
        /\ left' = left \/ left' = [left EXCEPT ![t] = {}]
    BY <1>4 DEF CommitChunk, CommitPrefix, import, saving, durable
  <2>2. /\ arc[t] # None /\ file[t] \in Files
    BY <2>1 DEF Places, TypeOK
  <2>3. /\ heap[j] \in Handles /\ heap[j].key = goal[t] /\ goal[t] \in Shards
        /\ j \in Live(open, arc, evicted) /\ disk[goal[t]] \in Images
    BY <2>2, HeldHandle
  <2>4. \E n \in Handles :
          /\ n.key = heap[j].key /\ heap' = [heap EXCEPT ![j] = n]
          /\ disk' = disk \/ \E image \in Images : disk' = [disk EXCEPT ![goal[t]] = image]
    <3>1. CASE CommitChunk(t)
      <4>. DEFINE n == [heap[j] EXCEPT !.cnt[file[t]] = IF @ = "none" THEN "part" ELSE @,
                                       !.dirty = TRUE]
      <4>1. n \in Handles /\ n.key = heap[j].key
        BY <2>2, <2>3, Counted
      <4>2. heap' = [heap EXCEPT ![j] = n] /\ disk' = disk
        BY <3>1 DEF CommitChunk, Write, durable
      <4>. QED BY <4>1, <4>2
    <3>2. CASE CommitPrefix(t)
      <4>. DEFINE whole == [heap[j] EXCEPT !.cnt[file[t]] = "once",
                                           !.done = @ \cup {file[t]}]
                  n == [whole EXCEPT !.dirty = TRUE]
      <4>1. whole \in Handles /\ whole.key = heap[j].key
        BY <2>2, <2>3, Written
      <4>2. heap' = [heap EXCEPT ![j] = n] /\ disk' = [disk EXCEPT ![goal[t]] = Logged(whole)]
        BY <2>3, <3>2 DEF CommitPrefix, Write
      <4>. HIDE DEF whole
      <4>3. n \in Handles /\ n.key = heap[j].key
        BY <2>2, <4>1, Written
      <4>4. Logged(whole) \in Images
        BY <2>3, <4>1, MadeOfOthers
      <4>. QED BY <4>2, <4>3, <4>4
    <3>. QED BY <1>4, <3>1, <3>2
  <2>5. /\ heap' \in Heaps
        /\ \A i \in Ids : heap[i] # None => heap'[i] # None /\ heap'[i].key = heap[i].key
        /\ \A i \in Ids : i \notin Live(open, arc, evicted) => heap'[i] = None
    <3>1. PICK n \in Handles : n.key = heap[j].key /\ heap' = [heap EXCEPT ![j] = n]
      BY <2>4
    <3>. DEFINE h == [heap EXCEPT ![j] = n]
    <3>2. /\ h \in Heaps
          /\ \A i \in Ids : heap[i] # None => h[i] # None /\ h[i].key = heap[i].key
          /\ \A i \in Ids : i \notin Live(open, arc, evicted) => h[i] = None
      <4>1. j \in Live(open, arc, evicted) /\ n.key = heap[j].key
        BY <2>3, <3>1
      <4>. QED BY <4>1, WritingKeeps
    <3>. HIDE DEF h
    <3>. QED BY <3>1, <3>2 DEF h
  <2>6. /\ disk' \in [Shards -> Images \cup {None}]
        /\ \A k \in Shards : disk[k] # None => disk'[k] # None
    BY <2>3, <2>4 DEF TypeOK
  <2>7. References'
    BY <2>1, <2>5, <2>6, StayingPut
  <2>8. pc' \in [Threads -> PCs] /\ left' \in [Threads -> SUBSET Shards]
    BY <2>1 DEF TypeOK, PCs
  <2>9. TypeOK'
    BY <2>1, <2>5, <2>6, <2>8 DEF TypeOK, Heaps
  <2>10. Places'
    BY <2>1, <2>2 DEF Places, TypeOK
  <2>. QED BY <2>7, <2>9, <2>10
<1>5. CASE CommitPrefixPersistFails(t)
  <2>. DEFINE j == arc[t]
              n == [heap[j] EXCEPT !.cnt[file[t]] = "once", !.done = @ \cup {file[t]}]
              h == [heap EXCEPT ![j] = n]
  <2>1. /\ UNCHANGED <<setup, open, lru, lock, disk, saved, ledgerSaved, records,
                       victim, evicted, tried, ledger, main, todo, collected, session>>
        /\ pc[t] = "have" /\ heap' = Closed(h, Live(open', arc', evicted'))
        /\ Ends(t, "failed") /\ arc' = [arc EXCEPT ![t] = None]
    BY <1>5 DEF CommitPrefixPersistFails, durable, saving, Ends
  <2>2. arc[t] # None /\ file[t] \in Files
    BY <2>1 DEF Places, TypeOK
  <2>3. n \in Handles /\ n.key = heap[j].key
    BY <2>2, HeldHandle, Written
  <2>. HIDE DEF n
  <2>4. /\ h \in Heaps
        /\ \A i \in Ids : heap[i] # None => h[i] # None /\ h[i].key = heap[i].key
    BY <2>2, <2>3, HeldHandle, WritingKeeps
  <2>. HIDE DEF h
  <2>5. /\ pc' \in [Threads -> PCs] /\ file' \in [Threads -> Files \cup {None}]
        /\ goal' \in [Threads -> Shards \cup {None}]
        /\ left' \in [Threads -> SUBSET Shards]
        /\ results' \in [{"ok", "failed"} -> SUBSET Files]
        /\ \A u \in Threads \ {t} : goal'[u] = goal[u]
        /\ Places'
    BY <2>1, EndsKeeps
  <2>6. References' /\ heap' \in Heaps /\ arc' \in [Threads -> Ids \cup {None}]
    BY <2>1, <2>4, <2>5, LettingGo
  <2>7. TypeOK'
    BY <2>1, <2>5, <2>6 DEF TypeOK, Heaps
  <2>. QED BY <2>5, <2>6, <2>7
<1>6. CASE RecordPrefix(t)
  <2>1. /\ UNCHANGED <<setup, open, lru, lock, disk, ledgerSaved, victim, evicted,
                       tried, ledger, main, todo, collected, session>>
        /\ pc[t] = "record" /\ heap' = Closed(heap, Live(open', arc', evicted'))
        /\ Ends(t, "ok") \/ Ends(t, "failed")
        /\ arc' = [arc EXCEPT ![t] = None]
        /\ records' = WithPrefix(goal[t], file[t])
        /\ saved' = records' \/ saved' = saved
    BY <1>6 DEF RecordPrefix, saving, Ends
  <2>2. /\ pc' \in [Threads -> PCs] /\ file' \in [Threads -> Files \cup {None}]
        /\ goal' \in [Threads -> Shards \cup {None}]
        /\ left' \in [Threads -> SUBSET Shards]
        /\ results' \in [{"ok", "failed"} -> SUBSET Files]
        /\ \A u \in Threads \ {t} : goal'[u] = goal[u]
        /\ Places'
    BY <2>1, EndsKeeps
  <2>3. References' /\ heap' \in Heaps /\ arc' \in [Threads -> Ids \cup {None}]
    BY <1>1, <2>1, <2>2, LettingGo
  <2>4. records' \in [Shards -> (SUBSET Files) \cup {None}]
    <3>1. file[t] \in Files /\ goal[t] \in Shards
      BY <2>1 DEF Places, TypeOK
    <3>. QED BY <2>1, <3>1 DEF WithPrefix, TypeOK
  <2>5. TypeOK'
    BY <2>1, <2>2, <2>3, <2>4 DEF TypeOK, Heaps
  <2>. QED BY <2>2, <2>3, <2>5
<1>7. CASE FailFile(t)
  <2>1. /\ UNCHANGED <<setup, open, lru, lock, disk, saved, ledgerSaved, records,
                       victim, evicted, tried, ledger, main, todo, collected, session>>
        /\ pc[t] = "have" /\ heap' = Closed(heap, Live(open', arc', evicted'))
        /\ arc' = [arc EXCEPT ![t] = None]
        /\ \/ Ends(t, "failed")
           \/ /\ pc' = [pc EXCEPT ![t] = "want"] /\ Ask(t, file[t])
              /\ UNCHANGED <<file, results>>
    BY <1>7 DEF FailFile, durable, saving, Ends
  <2>2. /\ file[t] \in Files /\ evicted[t] = None /\ t \in setup.workers
    BY <2>1 DEF Places, TypeOK
  <2>3. /\ pc' \in [Threads -> PCs] /\ file' \in [Threads -> Files \cup {None}]
        /\ goal' \in [Threads -> Shards \cup {None}]
        /\ left' \in [Threads -> SUBSET Shards]
        /\ results' \in [{"ok", "failed"} -> SUBSET Files]
        /\ \A u \in Threads \ {t} : goal'[u] = goal[u]
        /\ Places'
    <3>1. CASE Ends(t, "failed")
      BY <2>1, <3>1, EndsKeeps
    <3>2. CASE ~ Ends(t, "failed")
      <4>1. /\ pc' = [pc EXCEPT ![t] = "want"] /\ Ask(t, file[t])
            /\ UNCHANGED <<file, results>>
        BY <2>1, <3>2
      <4>2. /\ goal' \in [Threads -> Shards \cup {None}]
            /\ left' \in [Threads -> SUBSET Shards] /\ goal'[t] # None
            /\ \A u \in Threads \ {t} : goal'[u] = goal[u]
        BY <2>2, <4>1, AskKeeps
      <4>3. Places'
        BY <2>1, <2>2, <4>1, <4>2 DEF Places, TypeOK
      <4>4. pc' \in [Threads -> PCs]
        BY <4>1 DEF TypeOK, PCs
      <4>. QED BY <4>1, <4>2, <4>3, <4>4 DEF TypeOK
    <3>. QED BY <3>1, <3>2
  <2>4. References' /\ heap' \in Heaps /\ arc' \in [Threads -> Ids \cup {None}]
    BY <1>1, <2>1, <2>3, LettingGo
  <2>5. TypeOK'
    BY <2>1, <2>3, <2>4 DEF TypeOK, Heaps
  <2>. QED BY <2>3, <2>4, <2>5
<1>. QED BY <1>2, <1>3, <1>4, <1>5, <1>6, <1>7 DEF Worker

\* An order of a set has each of its elements once.
LEMMA Orders ==
    ASSUME NEW S, IsFiniteSet(S), NEW order \in SetToSeqs(S)
    PROVE  /\ order \in Seq(S) /\ Len(order) = Cardinality(S) /\ Cardinality(S) \in Nat
           /\ \A i, j \in 1 .. Len(order) : order[i] = order[j] => i = j
           /\ \A x \in S : \E i \in 1 .. Len(order) : order[i] = x
<1>. DEFINE n == Cardinality(S)
<1>1. n \in Nat
  BY FS_CardinalityType
<1>2. order \in [1 .. n -> S] /\ \A i, j \in 1 .. n : i # j => order[i] # order[j]
  BY DEF SetToSeqs
<1>3. order \in Injection(1 .. n, S)
  BY <1>2 DEF Injection, IsInjective
<1>4. IsFiniteSet(1 .. n) /\ Cardinality(1 .. n) = n
  BY <1>1, FS_Interval
<1>5. order \in Surjection(1 .. n, S)
  BY <1>3, <1>4, FS_Injection
<1>6. \A x \in S : \E i \in 1 .. n : order[i] = x
  BY <1>5 DEF Surjection
<1>7. order \in Seq(S) /\ Len(order) = n
  <2>. HIDE DEF n
  <2>. QED BY <1>1, <1>2
<1>. QED BY <1>1, <1>2, <1>6, <1>7

\* The start of a process opens the shards of the sequence kept, of those in S
\* that it found.
OpensOnly(kept, S, found) ==
    /\ kept \in Seq(S) /\ Len(kept) <= Cardinality(Shards)
    /\ setup.cap > 0 => Len(kept) <= setup.cap
    /\ setup.cap = 0 => \A k \in S : \E i \in 1 .. Len(kept) : kept[i] = k
    /\ \A i, j \in 1 .. Len(kept) : kept[i] = kept[j] => i = j
    /\ open' \in [Shards -> Ids \cup {None}]
    /\ \A k \in Shards : open'[k] # None =>
          open'[k] \in 1 .. Len(kept) /\ kept[open'[k]] = k
    /\ \A i \in 1 .. Len(kept) : open'[kept[i]] = i
    /\ heap' = [i \in Ids |-> heap'[i]]
    /\ \A i \in Ids : heap'[i] = IF i > Len(kept) THEN None
                                  ELSE Loaded(kept[i], found[kept[i]])
    /\ lru' = IF setup.cap = 0 THEN <<>> ELSE kept

LEMMA ReopenedFacts ==
    ASSUME Base, NEW found, NEW S \in SUBSET Shards, NEW order \in SetToSeqs(S),
           Reopened(found, order)
    PROVE  \E kept : OpensOnly(kept, S, found)
<1>. DEFINE kept == IF setup.cap = 0 \/ Len(order) <= setup.cap THEN order
                    ELSE SubSeq(order, Len(order) - setup.cap + 1, Len(order))
            IdOf(k) == CHOOSE i \in 1 .. Len(kept) : kept[i] = k
<1>1. IsFiniteSet(S) /\ Cardinality(S) <= Cardinality(Shards)
  BY FinitelyMany, FS_Subset
<1>2. /\ order \in Seq(S) /\ Len(order) = Cardinality(S) /\ Cardinality(S) \in Nat
      /\ \A i, j \in 1 .. Len(order) : order[i] = order[j] => i = j
      /\ \A x \in S : \E i \in 1 .. Len(order) : order[i] = x
  BY <1>1, Orders
<1>3. setup.cap \in Nat /\ Cardinality(Shards) \in Nat /\ Cardinality(Threads) \in Nat
  BY SetupFacts, FinitelyMany, FS_CardinalityType DEF Base
<1>4. /\ kept \in Seq(S) /\ Len(kept) <= Len(order) /\ Len(kept) \in Nat
      /\ setup.cap > 0 => Len(kept) <= setup.cap
      /\ setup.cap = 0 => kept = order
      /\ \A i, j \in 1 .. Len(kept) : kept[i] = kept[j] => i = j
  <2>1. CASE setup.cap = 0 \/ Len(order) <= setup.cap
    <3>1. kept = order
      BY <2>1
    <3>. HIDE DEF kept
    <3>. QED BY <1>2, <1>3, <2>1, <3>1
  <2>2. CASE setup.cap > 0 /\ Len(order) > setup.cap
    <3>. DEFINE m == Len(order) - setup.cap + 1
                n == Len(order)
    <3>1. m \in Int /\ n \in Int /\ m \in 1 .. n
      BY <1>2, <1>3, <2>2
    <3>2. \A i \in m .. n : order[i] \in S
      BY <1>2, <3>1, ElementOfSeq
    <3>3. kept = SubSeq(order, m, n)
      <4>1. ~ (setup.cap = 0 \/ Len(order) <= setup.cap)
        BY <1>2, <1>3, <2>2
      <4>. QED BY <4>1
    <3>. HIDE DEF kept, m, n
    <3>4. /\ kept \in Seq(S) /\ Len(kept) = n - m + 1
          /\ \A i \in 1 .. n - m + 1 : kept[i] = order[m + i - 1]
      BY <3>1, <3>2, <3>3, SubSeqProperties
    <3>5. \A i, j \in 1 .. n - m + 1 : kept[i] = kept[j] => i = j
      <4>. SUFFICES ASSUME NEW i \in 1 .. n - m + 1, NEW j \in 1 .. n - m + 1,
                           kept[i] = kept[j]
                    PROVE  i = j
        OBVIOUS
      <4>1. m + i - 1 \in 1 .. n /\ m + j - 1 \in 1 .. n
        BY <3>1
      <4>2. order[m + i - 1] = order[m + j - 1]
        BY <3>4
      <4>3. m + i - 1 = m + j - 1
        BY <1>2, <4>1, <4>2 DEF n
      <4>. QED BY <3>1, <4>3
    <3>6. n - m + 1 = setup.cap
      BY <1>2, <1>3 DEF m, n
    <3>7. Len(kept) = setup.cap
      BY <3>4, <3>6
    <3>. QED BY <1>2, <1>3, <2>2, <3>4, <3>5, <3>6, <3>7
  <2>. HIDE DEF kept
  <2>. QED BY <1>2, <1>3, <2>1, <2>2
<1>5. /\ open' = [k \in Shards |-> IF Contains(kept, k) THEN IdOf(k) ELSE None]
      /\ heap' = [i \in Ids |-> IF i > Len(kept) THEN None
                                ELSE Loaded(kept[i], found[kept[i]])]
      /\ lru' = IF setup.cap = 0 THEN <<>> ELSE kept
  BY DEF Reopened
<1>6. \A k \in Shards : Contains(kept, k) =>
         IdOf(k) \in 1 .. Len(kept) /\ kept[IdOf(k)] = k
  BY DEF Contains
<1>. HIDE DEF kept, IdOf
<1>7. \A i \in 1 .. Len(kept) : kept[i] \in Shards /\ Contains(kept, kept[i])
  BY <1>4 DEF Contains
<1>8. 1 .. Len(kept) \subseteq Ids
  BY <1>1, <1>2, <1>3, <1>4 DEF Ids
<1>9. /\ open' \in [Shards -> Ids \cup {None}]
      /\ \A k \in Shards : open'[k] # None =>
            open'[k] \in 1 .. Len(kept) /\ kept[open'[k]] = k
  BY <1>5, <1>6, <1>8
<1>10. \A i \in 1 .. Len(kept) : open'[kept[i]] = i
  <2>. SUFFICES ASSUME NEW i \in 1 .. Len(kept) PROVE open'[kept[i]] = i
    OBVIOUS
  <2>1. open'[kept[i]] = IdOf(kept[i])
    BY <1>5, <1>7
  <2>. QED BY <1>4, <1>6, <1>7, <2>1
<1>11. Len(kept) <= Cardinality(Shards)
  BY <1>1, <1>2, <1>3, <1>4
<1>12. setup.cap = 0 => \A k \in S : \E i \in 1 .. Len(kept) : kept[i] = k
  BY <1>2, <1>4
<1>13. /\ heap' = [i \in Ids |-> heap'[i]]
       /\ \A i \in Ids : heap'[i] = IF i > Len(kept) THEN None
                                     ELSE Loaded(kept[i], found[kept[i]])
  BY <1>5
<1>14. lru' = IF setup.cap = 0 THEN <<>> ELSE kept
  BY <1>5
<1>. QED BY <1>4, <1>9, <1>10, <1>11, <1>12, <1>13, <1>14 DEF OpensOnly

\* The steps of the main task.
LEMMA MainKeepsBase ==
    ASSUME Base, MainTask
    PROVE  Base'
<1>. USE NoneFacts DEF Base
<1>1. heap \in Heaps /\ \A i \in Ids : i \notin Live(open, arc, evicted) => heap[i] = None
  BY DEF TypeOK, Heaps, References
<1>2. ASSUME NEW f \in Files, MarkCompleted(f) PROVE Base'
  <2>. DEFINE k == KeyOf[f]
              n == [heap[open[k]] EXCEPT !.done = @ \cup {f}]
              h == [heap EXCEPT ![open[k]] = n]
  <2>1. /\ UNCHANGED <<setup, open, lru, lock, ledgerSaved, pc, file, goal, left, arc,
                       victim, evicted, tried, main, todo, collected, session>>
        /\ results' = [results EXCEPT !.ok = @ \ {f}]
        /\ ledger' = [ledger EXCEPT ![f] = "Completed"]
        /\ heap' = IF open[k] # None THEN h ELSE heap
        /\ disk' = disk \/ (open[k] # None /\ disk' = [disk EXCEPT ![k] = Logged(n)])
        /\ records' = records \/ records' = WithPrefix(k, f)
        /\ saved' = saved \/ saved' = records'
    BY <1>2 DEF MarkCompleted, work, saving, IsOpen
  <2>2. k \in Shards
    BY FilesHaveKeys
  <2>3. open[k] # None => /\ n \in Handles /\ n.key = heap[open[k]].key /\ n.key = k
                          /\ Logged(n) \in Images
    <3>. SUFFICES ASSUME open[k] # None
                  PROVE  /\ n \in Handles /\ n.key = heap[open[k]].key /\ n.key = k
                         /\ Logged(n) \in Images
      OBVIOUS
    <3>. HIDE DEF k
    <3>0. heap[open[k]] \in Handles /\ heap[open[k]].key = k
      BY <2>2, OpenHandle
    <3>1. n \in Handles /\ n.key = heap[open[k]].key /\ n.key = k
      BY <3>0, Written
    <3>. HIDE DEF n
    <3>. QED BY <2>2, <3>1, OpenHandle, MadeOfOthers
  <2>. HIDE DEF n
  <2>4. open[k] # None =>
           /\ h \in Heaps
           /\ \A i \in Ids : heap[i] # None => h[i] # None /\ h[i].key = heap[i].key
           /\ \A i \in Ids : i \notin Live(open, arc, evicted) => h[i] = None
    BY <2>2, <2>3, OpenHandle, WritingKeeps
  <2>. HIDE DEF h, k
  <2>5. /\ heap' \in Heaps
        /\ \A i \in Ids : heap[i] # None => heap'[i] # None /\ heap'[i].key = heap[i].key
        /\ \A i \in Ids : i \notin Live(open, arc, evicted) => heap'[i] = None
    BY <1>1, <2>1, <2>4
  <2>6. /\ disk' \in [Shards -> Images \cup {None}]
        /\ \A j \in Shards : disk[j] # None => disk'[j] # None
    BY <2>1, <2>3 DEF TypeOK
  <2>7. References'
    BY <2>1, <2>5, <2>6, StayingPut
  <2>8. /\ records' \in [Shards -> (SUBSET Files) \cup {None}]
        /\ saved' \in [Shards -> (SUBSET Files) \cup {None}] \cup {None}
    <3>1. records' \in [Shards -> (SUBSET Files) \cup {None}]
      BY <2>1, <2>2 DEF WithPrefix, TypeOK
    <3>2. saved \in [Shards -> (SUBSET Files) \cup {None}] \cup {None}
      BY DEF TypeOK
    <3>. QED BY <2>1, <3>1, <3>2
  <2>9. /\ results' \in [{"ok", "failed"} -> SUBSET Files]
        /\ ledger' \in [Files -> {"none", "Completed", "Failed"}]
    BY <2>1 DEF TypeOK
  <2>10. TypeOK'
    BY <2>1, <2>5, <2>6, <2>8, <2>9 DEF TypeOK, Heaps
  <2>11. Places'
    BY <2>1 DEF Places
  <2>. QED BY <2>7, <2>10, <2>11
<1>3. ASSUME NEW f \in Files, MarkFailed(f) PROVE Base'
  <2>1. /\ UNCHANGED <<setup, open, heap, lru, lock, disk, saved, ledgerSaved, records,
                       pc, file, goal, left, arc, victim, evicted, tried, main, todo,
                       collected, session>>
        /\ results' = [results EXCEPT !.failed = @ \ {f}]
        /\ ledger' = [ledger EXCEPT ![f] = "Failed"]
    BY <1>3 DEF MarkFailed, cache, durable, work, saving
  <2>2. /\ results' \in [{"ok", "failed"} -> SUBSET Files]
        /\ ledger' \in [Files -> {"none", "Completed", "Failed"}]
    BY <2>1 DEF TypeOK
  <2>3. TypeOK'
    BY <2>1, <2>2 DEF TypeOK
  <2>. QED BY <2>1, <2>3 DEF References, Places
<1>4. ASSUME NEW k \in Shards, FlushShard(k) \/ VisitShard(k) PROVE Base'
  <2>1. /\ UNCHANGED <<setup, open, heap, lru, lock, saved, ledgerSaved, records,
                       pc, file, goal, left, arc, victim, evicted, tried, results,
                       ledger, main, session>>
        /\ open[k] # None
        /\ \/ disk' = disk
           \/ disk' = [disk EXCEPT ![k].cnt = heap[open[k]].cnt]
           \/ disk' = [disk EXCEPT ![k] = Image(heap[open[k]])]
        /\ todo' = todo \/ todo' = todo \ {k}
        /\ collected' = collected \/ collected' = [collected EXCEPT ![k] = heap[open[k]].done]
    BY <1>4 DEF FlushShard, VisitShard, Visited, cache, work, import, saving, IsOpen
  <2>2. heap[open[k]] \in Handles /\ disk[k] \in Images
    BY <2>1, OpenHandle
  <2>3. /\ Image(heap[open[k]]) \in Images
        /\ [disk[k] EXCEPT !.cnt = heap[open[k]].cnt] \in Images
        /\ heap[open[k]].done \in SUBSET Files
    BY <2>2 DEF Images, Handles, Image
  <2>4. disk' = disk \/ \E image \in Images : disk' = [disk EXCEPT ![k] = image]
    BY <2>1, <2>3
  <2>5. /\ disk' \in [Shards -> Images \cup {None}]
        /\ \A j \in Shards : disk[j] # None => disk'[j] # None
    BY <2>4 DEF TypeOK
  <2>6. References'
    BY <2>1, <2>5, <1>1, StayingPut
  <2>7. todo' \subseteq Shards /\ collected' \in [Shards -> (SUBSET Files) \cup {None}]
    BY <2>1, <2>3 DEF TypeOK
  <2>8. TypeOK'
    BY <2>1, <2>5, <2>7 DEF TypeOK
  <2>9. Places'
    BY <2>1 DEF Places
  <2>. QED BY <2>6, <2>8, <2>9
<1>5. CASE (\E k \in Shards : SkipShard(k) \/ VisitFails(k)) \/ StartCheckpoint
            \/ SaveLedger \/ Publish
  <2>1. /\ UNCHANGED <<setup, open, heap, lru, lock, disk, pc, file, goal, left, arc,
                       victim, evicted, tried, results, ledger, session>>
        /\ todo' \subseteq Shards
        /\ main' \in {"idle", "visit", "visitErr", "ledger"}
        /\ ledgerSaved' = ledgerSaved \/ ledgerSaved' = ledger
    BY <1>5 DEF SkipShard, VisitFails, Visited, StartCheckpoint, SaveLedger, Publish,
       cache, durable, work, import, OpenKeys, TypeOK
  <2>2. \/ UNCHANGED <<collected, records, saved>>
        \/ /\ collected' = [k \in Shards |-> None]
           /\ records' = [k \in Shards |-> IF collected[k] = None THEN records[k]
                                           ELSE collected[k]]
           /\ saved' = records'
    BY <1>5 DEF SkipShard, VisitFails, StartCheckpoint, SaveLedger, Publish, durable
  <2>3. /\ collected' \in [Shards -> (SUBSET Files) \cup {None}]
        /\ records' \in [Shards -> (SUBSET Files) \cup {None}]
        /\ saved' \in [Shards -> (SUBSET Files) \cup {None}] \cup {None}
    <3>1. /\ collected \in [Shards -> (SUBSET Files) \cup {None}]
          /\ records \in [Shards -> (SUBSET Files) \cup {None}]
          /\ saved \in [Shards -> (SUBSET Files) \cup {None}] \cup {None}
      BY DEF TypeOK
    <3>2. /\ collected' \in [Shards -> (SUBSET Files) \cup {None}]
          /\ records' \in [Shards -> (SUBSET Files) \cup {None}]
      BY <2>2, <3>1
    <3>. QED BY <2>2, <3>1, <3>2
  <2>4. TypeOK'
    BY <2>1, <2>3 DEF TypeOK
  <2>5. References'
    BY <2>1 DEF References
  <2>6. Places'
    BY <2>1 DEF Places
  <2>. QED BY <2>4, <2>5, <2>6
<1>. QED BY <1>2, <1>3, <1>4, <1>5, MainTask DEF MainTask

\* What survives of a shard file.
LEMMA SurvivorsFacts ==
    ASSUME Base, NEW k \in Shards, NEW image \in Survivors(k)
    PROVE  /\ image \in Images \cup {None}
           /\ \/ image = disk[k]
              \/ \E i \in Ids : /\ heap[i] \in Handles /\ heap[i].key = k /\ heap[i] # None
                                /\ disk[k] \in Images
                                /\ \/ image = Logged(heap[i])
                                   \/ image = [Logged(heap[i]) EXCEPT !.done = disk[k].done]
<1>1. CASE image = disk[k]
  BY <1>1 DEF Base, TypeOK
<1>2. CASE image # disk[k]
  <2>1. PICK i \in Ids : /\ heap[i] # None /\ heap[i].key = k
                         /\ \/ image = Logged(heap[i])
                            \/ image = [Logged(heap[i]) EXCEPT !.done = disk[k].done]
    BY <1>2 DEF Survivors
  <2>2. heap[i] \in Handles /\ disk[k] \in Images
    BY <2>1 DEF Base, TypeOK, References
  <2>3. Logged(heap[i]) \in Images /\ [Logged(heap[i]) EXCEPT !.done = disk[k].done] \in Images
    BY <2>1, <2>2, MadeOfOthers DEF Images
  <2>. QED BY <2>1, <2>2, <2>3
<1>. QED BY <1>1, <1>2

\* The start of a process.
LEMMA RestartKeepsBase ==
    ASSUME Base, Restart
    PROVE  Base'
<1>. USE NoneFacts DEF Base
<1>1. PICK found \in [Shards -> UNION {Survivors(k) : k \in Shards}] :
         /\ \A k \in Shards : found[k] \in Survivors(k)
         /\ disk' = found
         /\ records' = Recovered(found)
         /\ saved' = IF \A k \in Shards : found[k] = None THEN saved ELSE records'
         /\ \E order \in SetToSeqs({k \in Shards : found[k] # None}) :
               Reopened(found, order)
  BY DEF Restart
<1>2. found \in [Shards -> Images \cup {None}]
  BY <1>1, SurvivorsFacts
<1>. DEFINE S == {k \in Shards : found[k] # None}
<1>3. S \in SUBSET Shards /\ \A k \in Shards : k \in S <=> found[k] # None
  OBVIOUS
<1>4. \E order \in SetToSeqs(S) : Reopened(found, order)
  BY <1>1
<1>. HIDE DEF S
<1>5. PICK kept : OpensOnly(kept, S, found)
  BY <1>3, <1>4, ReopenedFacts
<1>. USE <1>5 DEF OpensOnly
<1>6. /\ UNCHANGED <<setup, ledgerSaved>> /\ session' = session + 1
      /\ ledger' = [f \in Files |-> Reconciled(f)]
      /\ lock' = [k \in Shards |-> None]
      /\ pc' = [t \in Threads |-> "idle"] /\ left' = [t \in Threads |-> {}]
      /\ file' = [t \in Threads |-> None] /\ goal' = [t \in Threads |-> None]
      /\ arc' = [t \in Threads |-> None] /\ victim' = [t \in Threads |-> None]
      /\ evicted' = [t \in Threads |-> None]
      /\ tried' = {} /\ results' = [ok |-> {}, failed |-> {}]
      /\ main' = "idle" /\ todo' = {} /\ collected' = [k \in Shards |-> None]
  BY DEF Restart
<1>7. \A i \in 1 .. Len(kept) :
         /\ i \in Ids /\ kept[i] \in Shards /\ found[kept[i]] \in Images
         /\ heap'[i] = Loaded(kept[i], found[kept[i]])
         /\ heap'[i] \in Handles /\ heap'[i].key = kept[i]
  <2>. SUFFICES ASSUME NEW i \in 1 .. Len(kept)
                PROVE  /\ i \in Ids /\ kept[i] \in Shards /\ found[kept[i]] \in Images
                       /\ heap'[i] = Loaded(kept[i], found[kept[i]])
                       /\ heap'[i] \in Handles /\ heap'[i].key = kept[i]
    OBVIOUS
  <2>1. /\ Cardinality(Shards) \in Nat /\ Cardinality(Threads) \in Nat /\ Len(kept) \in Nat
    BY FinitelyMany, FS_CardinalityType
  <2>2. i \in Ids
    BY <1>5, <2>1 DEF Ids
  <2>3. kept[i] \in S
    BY ElementOfSeq
  <2>4. kept[i] \in Shards /\ found[kept[i]] \in Images
    BY <1>2, <1>3, <2>3
  <2>5. ~ (i > Len(kept))
    BY <2>1
  <2>6. heap'[i] = Loaded(kept[i], found[kept[i]])
    BY <1>5, <2>2, <2>5
  <2>7. \A k \in Shards, image \in Images :
            Loaded(k, image) \in Handles /\ Loaded(k, image).key = k
    BY MadeOfOthers
  <2>. QED BY <2>2, <2>4, <2>6, <2>7
<1>8. \A i \in Ids : i \notin 1 .. Len(kept) => heap'[i] = None
  <2>1. \A i \in Ids : i \notin 1 .. Len(kept) => i > Len(kept)
    <3>1. Cardinality(Shards) \in Nat /\ Cardinality(Threads) \in Nat /\ Len(kept) \in Nat
      BY FinitelyMany, FS_CardinalityType
    <3>. QED BY <3>1 DEF Ids
  <2>. QED BY <1>5, <2>1
<1>9. heap' \in [Ids -> Handles \cup {None}]
  <2>1. \A i \in Ids : heap'[i] \in Handles \cup {None}
    BY <1>7, <1>8
  <2>2. heap' = [i \in Ids |-> heap'[i]]
    BY <1>5
  <2>. QED BY <2>1, <2>2
<1>10. lru' \in Seq(Shards)
  <2>1. kept \in Seq(Shards)
    BY <1>3, SeqMonotonic
  <2>. QED BY <1>5, <2>1
<1>11. /\ disk' \in [Shards -> Images \cup {None}]
       /\ records' \in [Shards -> (SUBSET Files) \cup {None}]
       /\ saved' \in [Shards -> (SUBSET Files) \cup {None}] \cup {None}
  <2>1. \A k \in Shards : found[k] # None => found[k].done \in SUBSET Files
    BY <1>2 DEF Images
  <2>2. \A k \in Shards : (IF saved = None THEN None ELSE saved[k]) \in (SUBSET Files) \cup {None}
    <3>1. saved = None \/ saved \in [Shards -> (SUBSET Files) \cup {None}]
      BY DEF TypeOK
    <3>. QED BY <3>1
  <2>3. Recovered(found) \in [Shards -> (SUBSET Files) \cup {None}]
    BY <2>1, <2>2 DEF Recovered
  <2>4. saved \in [Shards -> (SUBSET Files) \cup {None}] \cup {None}
    BY DEF TypeOK
  <2>. QED BY <1>1, <1>2, <2>3, <2>4
<1>12. ledger' \in [Files -> {"none", "Completed", "Failed"}]
  BY <1>6 DEF Reconciled, TypeOK
<1>13. /\ lock' \in [Shards -> Threads \cup {None}] /\ pc' \in [Threads -> PCs]
       /\ left' \in [Threads -> SUBSET Shards]
       /\ file' \in [Threads -> Files \cup {None}] /\ goal' \in [Threads -> Shards \cup {None}]
       /\ arc' \in [Threads -> Ids \cup {None}] /\ victim' \in [Threads -> Shards \cup {None}]
       /\ evicted' \in [Threads -> Ids \cup {None}]
       /\ collected' \in [Shards -> (SUBSET Files) \cup {None}]
       /\ results' \in [{"ok", "failed"} -> SUBSET Files]
       /\ session' \in Nat
  <2>1. {} \in SUBSET Shards /\ {} \in SUBSET Files /\ "idle" \in PCs /\ session + 1 \in Nat
    BY DEF PCs, TypeOK
  <2>2. results' \in [{"ok", "failed"} -> SUBSET Files]
    BY <1>6
  <2>3. /\ lock' \in [Shards -> Threads \cup {None}] /\ pc' \in [Threads -> PCs]
        /\ left' \in [Threads -> SUBSET Shards]
        /\ file' \in [Threads -> Files \cup {None}]
        /\ goal' \in [Threads -> Shards \cup {None}]
    BY <1>6, <2>1
  <2>4. /\ arc' \in [Threads -> Ids \cup {None}] /\ victim' \in [Threads -> Shards \cup {None}]
        /\ evicted' \in [Threads -> Ids \cup {None}]
        /\ collected' \in [Shards -> (SUBSET Files) \cup {None}]
        /\ session' \in Nat
    BY <1>6, <2>1
  <2>. QED BY <2>2, <2>3, <2>4
<1>14. TypeOK'
  BY <1>5, <1>6, <1>9, <1>10, <1>11, <1>12, <1>13 DEF TypeOK
<1>15. References'
  <2>1. \A i : i \in Live(open', arc', evicted') <=> i \in 1 .. Len(kept)
    <3>1. \A i \in Live(open', arc', evicted') : \E k \in Shards : open'[k] = i /\ i # None
      BY <1>6 DEF Live
    <3>2. \A i \in 1 .. Len(kept) : i \in Live(open', arc', evicted')
      <4>1. \A i \in 1 .. Len(kept) : kept[i] \in Shards /\ i # None
        BY <1>7
      <4>2. \A i \in 1 .. Len(kept) : open'[kept[i]] = i
        BY <1>5
      <4>. QED BY <4>1, <4>2 DEF Live
    <3>. QED BY <1>5, <3>1, <3>2
  <2>2. \A i \in Ids : heap'[i] # None => i \in 1 .. Len(kept)
    BY <1>8
  <2>3. \A i \in 1 .. Len(kept) : heap'[i] # None /\ disk'[heap'[i].key] # None
    BY <1>1, <1>7
  <2>. QED BY <1>5, <1>6, <1>7, <2>1, <2>2, <2>3 DEF References
<1>16. Places'
  BY <1>6 DEF Places
<1>. QED BY <1>14, <1>15, <1>16

LEMMA InitBase ==
    ASSUME Init PROVE Base
<1>1. setup \in Setups
  BY DEF Init
<1>2. TypeOK
  <2>1. {} \in SUBSET Shards /\ "idle" \in PCs
    BY DEF PCs
  <2>2. /\ lru \in Seq(Shards) /\ 1 \in Nat /\ session \in Nat
        /\ results \in [{"ok", "failed"} -> SUBSET Files]
    BY EmptySeq DEF Init
  <2>3. /\ open \in [Shards -> Ids \cup {None}]
        /\ heap \in [Ids -> Handles \cup {None}]
        /\ lock \in [Shards -> Threads \cup {None}]
        /\ disk \in [Shards -> Images \cup {None}]
        /\ records \in [Shards -> (SUBSET Files) \cup {None}]
        /\ saved \in [Shards -> (SUBSET Files) \cup {None}] \cup {None}
        /\ pc \in [Threads -> PCs]
    BY <2>1 DEF Init
  <2>4. /\ file \in [Threads -> Files \cup {None}]
        /\ goal \in [Threads -> Shards \cup {None}]
        /\ left \in [Threads -> SUBSET Shards]
        /\ arc \in [Threads -> Ids \cup {None}]
        /\ victim \in [Threads -> Shards \cup {None}]
        /\ evicted \in [Threads -> Ids \cup {None}]
        /\ tried \subseteq Files
    BY <2>1 DEF Init
  <2>5. /\ ledger \in [Files -> {"none", "Completed", "Failed"}]
        /\ ledgerSaved \in [Files -> {"none", "Completed", "Failed"}]
        /\ main \in {"idle", "visit", "visitErr", "ledger"}
        /\ todo \subseteq Shards
        /\ collected \in [Shards -> (SUBSET Files) \cup {None}]
    BY DEF Init
  <2>. QED BY <1>1, <2>2, <2>3, <2>4, <2>5 DEF TypeOK
<1>3. References
  BY NoneFacts DEF Init, References, Live
<1>4. Places
  BY DEF Init, Places
<1>. QED BY <1>2, <1>3, <1>4 DEF Base

LEMMA NextBase ==
    ASSUME Base, [Next]_vars PROVE Base'
<1>1. CASE UNCHANGED vars
  <2>1. TypeOK'
    BY <1>1 DEF vars, cache, durable, work, import, saving, Base, TypeOK
  <2>2. References'
    BY <1>1 DEF vars, cache, durable, work, import, saving, Base, References
  <2>3. Places'
    BY <1>1 DEF vars, cache, durable, work, import, saving, Base, Places
  <2>. QED BY <2>1, <2>2, <2>3 DEF Base
<1>2. ASSUME NEW t \in Threads, Worker(t) PROVE Base'
  BY <1>2, LookingKeepsBase, WorkingKeepsBase
<1>. QED BY <1>1, <1>2, MainKeepsBase, RestartKeepsBase DEF Next

\* Every variable keeps its type; a handle is open exactly while something
\* references it, and an identifier is free whenever a shard is opened.
THEOREM Typing == Spec => [](TypeOK /\ References /\ Places)
<1>1. Init => Base
  BY InitBase
<1>2. Base /\ [Next]_vars => Base'
  BY NextBase
<1>. QED BY <1>1, <1>2, PTL DEF Spec, Base

---------------------------------------------------------------------------
(* A shard file is open once. *)

\* A thread that creates a shard has its lock, and the shard is not in the map
\* until it is inserted; what a thread holds otherwise is what the map has.
CreatesAlone ==
    \A t \in Threads :
       /\ pc[t] \in Creating => lock[goal[t]] = t
       /\ pc[t] \in Creating \ {"touch"} => open[goal[t]] = None

HoldsWhatIsOpen ==
    \A t \in Threads :
       /\ pc[t] = "save" => open[victim[t]] = None
       /\ pc[t] \in {"lock", "evict", "remove", "save", "pop", "open"} => arc[t] = None
       /\ arc[t] # None => open[goal[t]] = arc[t] \/ pc[t] = "insert"

OneInv == CreatesAlone /\ (EvictsAlone(setup) => HoldsWhatIsOpen)

\* What the steps of a worker that are not those of get_or_create_shard move.
LEMMA WorkingMoves ==
    ASSUME Base, NEW t \in Threads, Worker(t), ~ GetOrCreate(t)
    PROVE  /\ UNCHANGED <<setup, open, lock, lru, victim, evicted, session>>
           /\ \A u \in Threads \ {t} :
                 pc'[u] = pc[u] /\ goal'[u] = goal[u] /\ arc'[u] = arc[u]
                 /\ file'[u] = file[u] /\ left'[u] = left[u]
           /\ pc[t] \in {"idle", "have", "record"}
           /\ pc'[t] \in {"idle", "want", "record"}
           /\ \/ arc'[t] = None
              \/ arc'[t] = arc[t] /\ goal'[t] = goal[t] /\ pc[t] = "have"
<1>. USE DEF Base
<1>1. ASSUME NEW f \in Files, StartFile(t, f) PROVE ~ (pc[t] # "idle") /\ arc[t] = None
  BY <1>1 DEF StartFile, Goto, Places
<1>2. \A f \in Files : StartFile(t, f) => arc[t] = None
  BY <1>1
<1>3. UNCHANGED <<setup, open, lock, lru, victim, evicted, session>>
  BY DEF Worker, StartFile, Increment, CommitChunk, CommitPrefix,
     CommitPrefixPersistFails, RecordPrefix, FailFile, cache
<1>4. \A u \in Threads \ {t} :
         pc'[u] = pc[u] /\ goal'[u] = goal[u] /\ arc'[u] = arc[u]
         /\ file'[u] = file[u] /\ left'[u] = left[u]
  BY DEF Worker, StartFile, Increment, CommitChunk, CommitPrefix, Goto, Ask,
     CommitPrefixPersistFails, RecordPrefix, FailFile, Ends, TypeOK
<1>5. /\ pc[t] \in {"idle", "have", "record"}
      /\ pc'[t] \in {"idle", "want", "record"}
  BY DEF Worker, StartFile, Increment, CommitChunk, CommitPrefix, Goto,
     CommitPrefixPersistFails, RecordPrefix, FailFile, Ends, TypeOK
<1>6. \/ arc'[t] = None
      \/ arc'[t] = arc[t] /\ goal'[t] = goal[t] /\ pc[t] = "have"
  BY <1>2 DEF Worker, StartFile, Increment, CommitChunk, CommitPrefix, Goto,
     CommitPrefixPersistFails, RecordPrefix, FailFile, Ends, TypeOK
<1>. QED BY <1>3, <1>4, <1>5, <1>6

\* What the main task leaves alone.
LEMMA MainMoves ==
    ASSUME MainTask
    PROVE  UNCHANGED <<setup, open, lock, lru, pc, file, goal, left, arc, victim,
                       evicted, tried, session>>
BY DEF MainTask, MarkCompleted, MarkFailed, FlushShard, SkipShard, VisitShard,
   VisitFails, StartCheckpoint, Publish, SaveLedger, cache, work, import

\* What the steps of get_or_create_shard leave alone.
LEMMA LookingMoves ==
    ASSUME Base, NEW t \in Threads, GetOrCreate(t)
    PROVE  /\ UNCHANGED <<setup, saved, ledgerSaved, records, file, goal, left, tried,
                          results, ledger, main, todo, collected, session>>
           /\ goal[t] \in Shards
           /\ \A u \in Threads \ {t} :
                 pc'[u] = pc[u] /\ arc'[u] = arc[u] /\ victim'[u] = victim[u]
                 /\ evicted'[u] = evicted[u]
<1>1. /\ UNCHANGED <<setup, saved, ledgerSaved, records, file, goal, left, tried,
                     results, ledger, main, todo, collected, session>>
      /\ pc[t] # "idle"
  BY DEF GetOrCreate, import, saving, FastPath, SlowPath, FoundAfterAll,
     StartCreating, NoEviction, PeekLru, RemoveVictim, SaveVictim, PopLru,
     OpenOrCreate, InsertShard, TouchNew, Goto
<1>2. goal[t] \in Shards
  BY <1>1 DEF Base, Places, TypeOK
<1>3. \A u \in Threads \ {t} : pc'[u] = pc[u]
  BY DEF GetOrCreate, FastPath, SlowPath, FoundAfterAll,
     StartCreating, NoEviction, PeekLru, RemoveVictim, SaveVictim, PopLru,
     OpenOrCreate, InsertShard, TouchNew, Goto, Base, TypeOK
<1>4. \A u \in Threads \ {t} :
         arc'[u] = arc[u] /\ victim'[u] = victim[u] /\ evicted'[u] = evicted[u]
  BY DEF GetOrCreate, FastPath, SlowPath, FoundAfterAll, TakeArc,
     StartCreating, NoEviction, PeekLru, RemoveVictim, SaveVictim, PopLru,
     OpenOrCreate, InsertShard, TouchNew, Base, TypeOK
<1>. QED BY <1>1, <1>2, <1>3, <1>4

LEMMA SetupStays ==
    ASSUME Base, [Next]_vars
    PROVE  setup' = setup
<1>1. CASE UNCHANGED vars
  BY <1>1 DEF vars
<1>2. CASE MainTask
  BY <1>2, MainMoves
<1>3. CASE Restart
  BY <1>3 DEF Restart
<1>4. ASSUME NEW t \in Threads, Worker(t) PROVE setup' = setup
  BY <1>4, WorkingMoves, LookingMoves
<1>. QED BY <1>1, <1>2, <1>3, <1>4 DEF Next

LEMMA OneStep ==
    ASSUME Base, OneInv, [Next]_vars
    PROVE  OneInv'
<1>. USE NoneFacts DEF Base
<1>1. CASE UNCHANGED vars
  BY <1>1 DEF vars, cache, work, OneInv, CreatesAlone, HoldsWhatIsOpen
<1>2. CASE MainTask
  BY <1>2, MainMoves DEF OneInv, CreatesAlone, HoldsWhatIsOpen
<1>3. CASE Restart
  <2>1. \A t \in Threads : pc'[t] = "idle" /\ arc'[t] = None
    BY <1>3 DEF Restart
  <2>. QED BY <2>1 DEF OneInv, CreatesAlone, HoldsWhatIsOpen, Creating
<1>4. ASSUME NEW t \in Threads, Worker(t), ~ GetOrCreate(t) PROVE OneInv'
  <2>1. /\ UNCHANGED <<setup, open, lock, lru, victim, evicted, session>>
        /\ \A u \in Threads \ {t} :
              pc'[u] = pc[u] /\ goal'[u] = goal[u] /\ arc'[u] = arc[u]
        /\ pc'[t] \in {"idle", "want", "record"}
        /\ \/ arc'[t] = None
           \/ arc'[t] = arc[t] /\ goal'[t] = goal[t] /\ pc[t] = "have"
    BY <1>4, WorkingMoves
  <2>2. CreatesAlone'
    BY <2>1 DEF OneInv, CreatesAlone, Creating
  <2>3. EvictsAlone(setup) => HoldsWhatIsOpen'
    BY <2>1 DEF OneInv, HoldsWhatIsOpen
  <2>. QED BY <2>1, <2>2, <2>3 DEF OneInv
<1>5. ASSUME NEW t \in Threads, GetOrCreate(t) PROVE OneInv'
  <2>1. /\ UNCHANGED <<setup, goal>>
        /\ goal[t] \in Shards /\ pc \in [Threads -> PCs]
        /\ \A u \in Threads : pc[u] # "idle" => u \in setup.workers
        /\ \A u \in Threads \ {t} :
              pc'[u] = pc[u] /\ arc'[u] = arc[u] /\ victim'[u] = victim[u]
              /\ evicted'[u] = evicted[u]
    BY <1>5, LookingMoves DEF TypeOK, Places
  <2>2. CASE FastPath(t) \/ FoundAfterAll(t)
    <3>1. /\ UNCHANGED <<open, lock, victim>> /\ pc'[t] = "have"
          /\ arc'[t] = open[goal[t]]
      BY <2>2 DEF FastPath, FoundAfterAll, TakeArc, Goto, TypeOK
    <3>2. CreatesAlone'
      BY <2>1, <3>1 DEF OneInv, CreatesAlone, Creating
    <3>3. EvictsAlone(setup) => HoldsWhatIsOpen'
      BY <2>1, <3>1 DEF OneInv, HoldsWhatIsOpen
    <3>. QED BY <2>1, <3>2, <3>3 DEF OneInv
  <2>3. CASE SlowPath(t)
    <3>1. /\ UNCHANGED <<open, lock, victim, arc>> /\ pc'[t] = "lock" /\ pc[t] = "want"
          /\ open[goal[t]] = None
      BY <2>3 DEF SlowPath, Goto, TypeOK, cache, IsOpen
    <3>2. CreatesAlone'
      BY <2>1, <3>1 DEF OneInv, CreatesAlone, Creating
    <3>3. EvictsAlone(setup) => HoldsWhatIsOpen'
      BY <2>1, <3>1 DEF OneInv, HoldsWhatIsOpen
    <3>. QED BY <2>1, <3>2, <3>3 DEF OneInv
  <2>4. CASE StartCreating(t)
    <3>1. /\ UNCHANGED <<open, victim, arc>> /\ pc'[t] = "evict" /\ pc[t] = "lock"
          /\ open[goal[t]] = None /\ lock[goal[t]] = None
          /\ lock' = [lock EXCEPT ![goal[t]] = t]
      BY <2>4 DEF StartCreating, Goto, TypeOK, IsOpen
    <3>2. CreatesAlone'
      BY <2>1, <3>1 DEF OneInv, CreatesAlone, Creating, TypeOK
    <3>3. EvictsAlone(setup) => HoldsWhatIsOpen'
      BY <2>1, <3>1 DEF OneInv, HoldsWhatIsOpen
    <3>. QED BY <2>1, <3>2, <3>3 DEF OneInv
  <2>5. CASE NoEviction(t) \/ PeekLru(t) \/ PopLru(t)
    <3>1. /\ UNCHANGED <<open, lock, arc>>
          /\ pc'[t] \in {"open", "remove"} /\ pc[t] \in {"evict", "pop"}
      BY <2>5 DEF NoEviction, PeekLru, PopLru, Goto, TypeOK, cache
    <3>2. CreatesAlone'
      BY <2>1, <3>1 DEF OneInv, CreatesAlone, Creating
    <3>3. EvictsAlone(setup) => HoldsWhatIsOpen'
      BY <2>1, <3>1 DEF OneInv, HoldsWhatIsOpen
    <3>. QED BY <2>1, <3>2, <3>3 DEF OneInv
  <2>6. CASE RemoveVictim(t)
    <3>1. /\ UNCHANGED <<lock, arc, victim>> /\ pc'[t] \in {"save", "pop"}
          /\ pc[t] = "remove" /\ open' = [open EXCEPT ![victim[t]] = None]
          /\ victim[t] \in Shards /\ setup.cap > 0
      BY <2>6 DEF RemoveVictim, Goto, TypeOK, Places
    <3>2. \A k \in Shards : open'[k] = open[k] \/ open'[k] = None
      BY <3>1 DEF TypeOK
    <3>3. \A u \in Threads : pc[u] # "idle" => goal[u] \in Shards
      BY DEF Places, TypeOK
    <3>4. CreatesAlone'
      BY <2>1, <3>1, <3>2, <3>3 DEF OneInv, CreatesAlone, Creating
    <3>5. ASSUME EvictsAlone(setup) PROVE HoldsWhatIsOpen'
      <4>1. setup.cap # 0
        BY <3>1, SetupFacts
      <4>2. \A u \in Threads \ {t} : pc[u] = "idle" /\ arc[u] = None
        BY <2>1, <3>1, <3>5, <4>1 DEF EvictsAlone, Places
      <4>3. arc[t] = None /\ open'[victim[t]] = None
        BY <3>1, <3>5 DEF OneInv, HoldsWhatIsOpen, TypeOK
      <4>. QED BY <2>1, <3>1, <4>2, <4>3 DEF HoldsWhatIsOpen
    <3>. QED BY <2>1, <3>4, <3>5 DEF OneInv
  <2>7. CASE SaveVictim(t)
    <3>1. /\ UNCHANGED <<open, lock, arc, victim>> /\ pc'[t] = "pop" /\ pc[t] = "save"
      BY <2>7 DEF SaveVictim, Goto, TypeOK
    <3>2. CreatesAlone'
      BY <2>1, <3>1 DEF OneInv, CreatesAlone, Creating
    <3>3. EvictsAlone(setup) => HoldsWhatIsOpen'
      BY <2>1, <3>1 DEF OneInv, HoldsWhatIsOpen
    <3>. QED BY <2>1, <3>2, <3>3 DEF OneInv
  <2>8. CASE OpenOrCreate(t)
    <3>1. /\ UNCHANGED <<open, lock, victim>> /\ pc'[t] = "insert" /\ pc[t] = "open"
      BY <2>8 DEF OpenOrCreate, Goto, TypeOK
    <3>2. CreatesAlone'
      BY <2>1, <3>1 DEF OneInv, CreatesAlone, Creating
    <3>3. EvictsAlone(setup) => HoldsWhatIsOpen'
      BY <2>1, <3>1 DEF OneInv, HoldsWhatIsOpen
    <3>. QED BY <2>1, <3>2, <3>3 DEF OneInv
  <2>9. CASE InsertShard(t)
    <3>1. /\ UNCHANGED <<lock, victim, arc>> /\ pc'[t] = "touch" /\ pc[t] = "insert"
          /\ open' = [open EXCEPT ![goal[t]] = arc[t]]
      BY <2>9 DEF InsertShard, Goto, TypeOK
    <3>2. /\ lock[goal[t]] = t /\ open[goal[t]] = None
          /\ \A u \in Threads \ {t} : pc[u] \in Creating => goal[u] # goal[t]
      BY <3>1 DEF OneInv, CreatesAlone, Creating
    <3>3. /\ open'[goal[t]] = arc[t]
          /\ \A k \in Shards \ {goal[t]} : open'[k] = open[k]
      BY <2>1, <3>1 DEF TypeOK
    <3>4. \A u \in Threads : pc[u] # "idle" => goal[u] \in Shards
      BY DEF Places, TypeOK
    <3>5. CreatesAlone'
      BY <2>1, <3>1, <3>2, <3>3, <3>4 DEF OneInv, CreatesAlone, Creating
    <3>6. ASSUME EvictsAlone(setup) PROVE HoldsWhatIsOpen'
      <4>1. HoldsWhatIsOpen
        BY <3>6 DEF OneInv
      <4>2. \A u \in Threads : pc'[u] # "save"
        <5>1. \A u \in Threads \ {t} : pc[u] # "save"
          <6>. SUFFICES ASSUME NEW u \in Threads \ {t}, pc[u] = "save" PROVE FALSE
            OBVIOUS
          <6>1. setup.cap > 0 /\ setup.cap \in Nat
            BY SetupFacts DEF Places
          <6>2. t = u
            BY <2>1, <3>1, <3>6, <6>1 DEF EvictsAlone
          <6>. QED BY <6>2
        <5>. QED BY <2>1, <3>1, <5>1
      <4>3. \A u \in Threads \ {t} : arc[u] # None /\ pc[u] # "insert" =>
               open'[goal[u]] = arc[u]
        <5>. SUFFICES ASSUME NEW u \in Threads \ {t}, arc[u] # None, pc[u] # "insert"
                      PROVE  open'[goal[u]] = arc[u]
          OBVIOUS
        <5>1. open[goal[u]] = arc[u] /\ goal[u] \in Shards
          BY <3>4, <4>1 DEF HoldsWhatIsOpen, Places
        <5>2. goal[u] # goal[t]
          BY <3>2, <5>1
        <5>. QED BY <3>3, <5>1, <5>2
      <4>. QED BY <2>1, <3>1, <3>3, <4>1, <4>2, <4>3 DEF HoldsWhatIsOpen
    <3>. QED BY <2>1, <3>5, <3>6 DEF OneInv
  <2>10. CASE TouchNew(t)
    <3>1. /\ UNCHANGED <<open, victim, arc>> /\ pc'[t] = "have" /\ pc[t] = "touch"
          /\ lock' = [lock EXCEPT ![goal[t]] = None]
      BY <2>10 DEF TouchNew, Goto, TypeOK
    <3>2. /\ lock[goal[t]] = t
          /\ \A u \in Threads \ {t} : pc[u] \in Creating => goal[u] # goal[t]
      BY <3>1 DEF OneInv, CreatesAlone, Creating
    <3>3. \A k \in Shards \ {goal[t]} : lock'[k] = lock[k]
      BY <2>1, <3>1 DEF TypeOK
    <3>4. \A u \in Threads : pc[u] \in Creating => goal[u] \in Shards
      BY DEF Places, TypeOK, Creating
    <3>5. CreatesAlone'
      BY <2>1, <3>1, <3>2, <3>3, <3>4 DEF OneInv, CreatesAlone, Creating
    <3>6. EvictsAlone(setup) => HoldsWhatIsOpen'
      BY <2>1, <3>1 DEF OneInv, HoldsWhatIsOpen
    <3>. QED BY <2>1, <3>5, <3>6 DEF OneInv
  <2>. QED BY <1>5, <2>2, <2>3, <2>4, <2>5, <2>6, <2>7, <2>8, <2>9, <2>10 DEF GetOrCreate
<1>. QED BY <1>1, <1>2, <1>3, <1>4, <1>5 DEF Next

\* Then no file is open twice.
LEMMA OneInvMeans ==
    ASSUME Base, OneInv, EvictsAlone(setup)
    PROVE  OneHandleEach
<1>. USE NoneFacts DEF Base
<1>. SUFFICES ASSUME NEW i \in Ids, NEW j \in Ids, heap[i] # None, heap[j] # None,
                     heap[i].key = heap[j].key
              PROVE  i = j
  BY DEF OneHandleEach
<1>. DEFINE k == heap[i].key
            Inserts(t) == pc[t] = "insert" /\ goal[t] = k
            Evicts(t) == pc[t] = "save" /\ victim[t] = k /\ open[k] = None
<1>1. \A l \in Ids : heap[l] # None /\ heap[l].key = k =>
         \/ open[k] = l
         \/ \E t \in Threads : arc[t] = l /\ Inserts(t)
         \/ \E t \in Threads : evicted[t] = l /\ Evicts(t)
  <2>. SUFFICES ASSUME NEW l \in Ids, heap[l] # None, heap[l].key = k
                PROVE  \/ open[k] = l
                       \/ \E t \in Threads : arc[t] = l /\ Inserts(t)
                       \/ \E t \in Threads : evicted[t] = l /\ Evicts(t)
    OBVIOUS
  <2>1. l # None /\ (\/ \E m \in Shards : open[m] = l
                     \/ \E t \in Threads : arc[t] = l \/ evicted[t] = l)
    BY DEF References, Live
  <2>2. \A m \in Shards : open[m] = l => m = k
    BY <2>1 DEF References
  <2>3. \A t \in Threads : arc[t] = l => open[k] = l \/ Inserts(t)
    BY <2>1 DEF References, OneInv, HoldsWhatIsOpen
  <2>4. \A t \in Threads : evicted[t] = l => Evicts(t)
    BY <2>1 DEF References, Places, OneInv, HoldsWhatIsOpen
  <2>. QED BY <2>1, <2>2, <2>3, <2>4
<1>2. \A t \in Threads : Inserts(t) => open[k] = None /\ lock[k] = t
  BY DEF OneInv, CreatesAlone, Creating
<1>3. \A t, u \in Threads : Evicts(t) /\ (Evicts(u) \/ Inserts(u)) => t = u
  <2>. SUFFICES ASSUME NEW t \in Threads, NEW u \in Threads,
                       pc[t] = "save", pc[u] # "idle"
                PROVE  t = u
    BY DEF Evicts, Inserts
  <2>1. setup.cap > 0 /\ setup.cap \in Nat /\ t \in setup.workers /\ u \in setup.workers
    BY SetupFacts DEF Places
  <2>. QED BY <2>1 DEF EvictsAlone
<1>4. \A t \in Threads : ~ (Evicts(t) /\ Inserts(t))
  OBVIOUS
<1>5. /\ open[k] # None => \A t \in Threads : ~ Inserts(t) /\ ~ Evicts(t)
      /\ i # None /\ j # None
  BY <1>2
<1>. HIDE DEF Inserts, Evicts
<1>6. /\ \/ open[k] = i
         \/ \E t \in Threads : arc[t] = i /\ Inserts(t)
         \/ \E t \in Threads : evicted[t] = i /\ Evicts(t)
      /\ \/ open[k] = j
         \/ \E t \in Threads : arc[t] = j /\ Inserts(t)
         \/ \E t \in Threads : evicted[t] = j /\ Evicts(t)
  BY <1>1
<1>. HIDE DEF k
<1>. QED BY <1>2, <1>3, <1>4, <1>5, <1>6

LEMMA InitOne ==
    ASSUME Init PROVE OneInv
BY DEF Init, OneInv, CreatesAlone, HoldsWhatIsOpen, Creating

\* A shard file is never open through two handles, if no shard is evicted or
\* a single worker works.
THEOREM OneHandle == Spec => []OneHandlePerFile
<1>1. Init => Base /\ OneInv
  BY InitBase, InitOne
<1>2. Base /\ OneInv /\ [Next]_vars => (Base /\ OneInv)'
  BY NextBase, OneStep
<1>3. Base /\ OneInv => OneHandlePerFile
  BY OneInvMeans DEF OneHandlePerFile
<1>. QED BY <1>1, <1>2, <1>3, PTL DEF Spec

---------------------------------------------------------------------------
(* The limit on open shards. *)

\* A sequence has nothing twice.
Once(s) == \A i, j \in 1 .. Len(s) : s[i] = s[j] => i = j

\* A touch of k makes the tracker forget no other key.
HasRoom(k) == k \in ToSet(lru) \/ Len(lru) < setup.cap

\* The tracker holds the open shards, but for the one that is being evicted or
\* created, which another thread may have touched already.
TrackerFollows ==
    /\ Once(lru) /\ Len(lru) <= setup.cap
    /\ (\A t \in Threads : pc[t] \notin {"save", "pop", "touch"}) =>
          ToSet(lru) = OpenKeys
    /\ \A t \in Threads :
          /\ pc[t] \in {"remove", "save", "pop"} => lru # <<>> /\ victim[t] = Head(lru)
          /\ pc[t] \in {"save", "pop"} => OpenKeys = ToSet(lru) \ {victim[t]}
          /\ pc[t] \in {"open", "insert"} => Len(lru) < setup.cap
          /\ pc[t] = "touch" => OpenKeys = ToSet(lru) \cup {goal[t]} /\ HasRoom(goal[t])

LruInv == setup.cap > 0 => TrackerFollows

LEMMA ElementsOf ==
    ASSUME NEW S, NEW s \in Seq(S)
    PROVE  /\ ToSet(s) = {s[i] : i \in 1 .. Len(s)} /\ ToSet(s) \subseteq S
           /\ IsFiniteSet(ToSet(s)) /\ Cardinality(ToSet(s)) <= Len(s)
           /\ Cardinality(ToSet(s)) \in Nat /\ Len(s) \in Nat
<1>1. DOMAIN s = 1 .. Len(s) /\ Len(s) \in Nat
  OBVIOUS
<1>2. ToSet(s) = {s[i] : i \in 1 .. Len(s)}
  BY <1>1 DEF ToSet
<1>3. ToSet(s) \subseteq S
  BY <1>2
<1>4. IsFiniteSet(1 .. Len(s)) /\ Cardinality(1 .. Len(s)) = Len(s)
  BY <1>1, FS_Interval
<1>. DEFINE V == ToSet(s)
<1>5. V = {s[i] : i \in 1 .. Len(s)}
  BY <1>2
<1>. HIDE DEF V
<1>6. IsFiniteSet(V) /\ Cardinality(V) <= Cardinality(1 .. Len(s)) /\ Cardinality(V) \in Nat
  BY <1>4, <1>5, ValuesAreFew
<1>. QED BY <1>1, <1>2, <1>3, <1>4, <1>6 DEF V

\* What is appended, and what is taken from the front.
LEMMA AppendOnce ==
    ASSUME NEW S, NEW s \in Seq(S), Once(s), NEW x \in S, x \notin ToSet(s)
    PROVE  /\ Append(s, x) \in Seq(S) /\ Once(Append(s, x))
           /\ ToSet(Append(s, x)) = ToSet(s) \cup {x}
           /\ Len(Append(s, x)) = Len(s) + 1
<1>. DEFINE r == Append(s, x)
<1>1. /\ r \in Seq(S) /\ Len(r) = Len(s) + 1 /\ Len(s) \in Nat
      /\ \A i \in 1 .. Len(s) : r[i] = s[i]
      /\ r[Len(s) + 1] = x
  BY AppendProperties
<1>2. ToSet(s) = {s[i] : i \in 1 .. Len(s)} /\ ToSet(r) = {r[i] : i \in 1 .. Len(r)}
  BY <1>1, ElementsOf
<1>. HIDE DEF r
<1>3. \A i \in 1 .. Len(r) : i \in 1 .. Len(s) \/ i = Len(s) + 1
  BY <1>1
<1>4. 1 .. Len(s) \subseteq 1 .. Len(r) /\ Len(s) + 1 \in 1 .. Len(r)
  BY <1>1
<1>5. Once(r)
  BY <1>1, <1>2, <1>3 DEF Once
<1>6. ToSet(r) = ToSet(s) \cup {x}
  BY <1>1, <1>2, <1>3, <1>4
<1>. QED BY <1>1, <1>5, <1>6 DEF r

LEMMA TailOnce ==
    ASSUME NEW S, NEW s \in Seq(S), Once(s), s # <<>>
    PROVE  /\ Tail(s) \in Seq(S) /\ Once(Tail(s)) /\ Head(s) \in S
           /\ ToSet(Tail(s)) = ToSet(s) \ {Head(s)}
           /\ Len(Tail(s)) = Len(s) - 1
<1>. DEFINE r == Tail(s)
<1>1. /\ r \in Seq(S) /\ Len(r) = Len(s) - 1 /\ Head(s) \in S
      /\ \A i \in 1 .. Len(r) : r[i] = s[i + 1]
  BY HeadTailProperties
<1>2. Len(s) \in Nat /\ Len(s) >= 1 /\ Head(s) = s[1]
  BY EmptySeq
<1>3. ToSet(s) = {s[i] : i \in 1 .. Len(s)} /\ ToSet(r) = {r[i] : i \in 1 .. Len(r)}
  BY <1>1, ElementsOf
<1>. HIDE DEF r
<1>4. \A i \in 1 .. Len(r) : i + 1 \in 1 .. Len(s) /\ i + 1 # 1
  BY <1>1, <1>2
<1>5. \A i \in 1 .. Len(s) : i # 1 => i - 1 \in 1 .. Len(r) /\ (i - 1) + 1 = i
  BY <1>1, <1>2
<1>6. 1 \in 1 .. Len(s)
  BY <1>2
<1>7. Once(r)
  BY <1>1, <1>2, <1>4 DEF Once
<1>8. ToSet(r) \subseteq ToSet(s) \ {Head(s)}
  BY <1>1, <1>2, <1>3, <1>4, <1>6 DEF Once
<1>9. ToSet(s) \ {Head(s)} \subseteq ToSet(r)
  <2>. SUFFICES ASSUME NEW i \in 1 .. Len(s), s[i] # Head(s)
                PROVE  \E j \in 1 .. Len(r) : r[j] = s[i]
    BY <1>3
  <2>1. i # 1
    BY <1>2
  <2>2. i - 1 \in 1 .. Len(r) /\ (i - 1) + 1 = i
    BY <1>5, <2>1
  <2>. QED BY <1>1, <2>2
<1>. QED BY <1>1, <1>7, <1>8, <1>9 DEF r

LEMMA RemoveOnce ==
    ASSUME NEW S, NEW s \in Seq(S), Once(s), NEW n \in 1 .. Len(s)
    PROVE  /\ RemoveAt(s, n) \in Seq(S) /\ Once(RemoveAt(s, n))
           /\ ToSet(RemoveAt(s, n)) = ToSet(s) \ {s[n]}
           /\ Len(RemoveAt(s, n)) = Len(s) - 1
<1>. DEFINE a == SubSeq(s, 1, n - 1)
            b == SubSeq(s, n + 1, Len(s))
            r == RemoveAt(s, n)
<1>1. Len(s) \in Nat /\ n \in Nat /\ 1 <= n /\ n <= Len(s)
  OBVIOUS
<1>2. /\ a \in Seq(S) /\ Len(a) = n - 1
      /\ \A i \in 1 .. n - 1 : a[i] = s[i]
  <2>1. \A i \in 1 .. n - 1 : s[i] \in S
    BY <1>1, ElementOfSeq
  <2>2. 1 \in Int /\ n - 1 \in Int
    BY <1>1
  <2>3. /\ a \in Seq(S) /\ Len(a) = IF 1 <= n - 1 THEN (n - 1) - 1 + 1 ELSE 0
        /\ \A i \in 1 .. (n - 1) - 1 + 1 : a[i] = s[1 + i - 1]
    BY <2>1, <2>2, SubSeqProperties
  <2>. HIDE DEF a
  <2>. QED BY <1>1, <2>3
<1>3. /\ b \in Seq(S) /\ Len(b) = Len(s) - n
      /\ \A i \in 1 .. Len(s) - n : b[i] = s[n + i]
  <2>1. \A i \in n + 1 .. Len(s) : s[i] \in S
    BY <1>1, ElementOfSeq
  <2>2. n + 1 \in Int /\ Len(s) \in Int
    BY <1>1
  <2>3. /\ b \in Seq(S)
        /\ Len(b) = IF n + 1 <= Len(s) THEN Len(s) - (n + 1) + 1 ELSE 0
        /\ \A i \in 1 .. Len(s) - (n + 1) + 1 : b[i] = s[(n + 1) + i - 1]
    BY <2>1, <2>2, SubSeqProperties
  <2>. HIDE DEF b
  <2>. QED BY <1>1, <2>3
<1>4. r = a \o b
  BY DEF RemoveAt
<1>. HIDE DEF a, b, r
<1>5. /\ r \in Seq(S) /\ Len(r) = Len(s) - 1
      /\ \A i \in 1 .. Len(r) : r[i] = IF i < n THEN s[i] ELSE s[i + 1]
  <2>1. r \in Seq(S) /\ Len(r) = Len(a) + Len(b)
    BY <1>2, <1>3, <1>4, ConcatProperties
  <2>2. \A i \in 1 .. Len(r) : r[i] = IF i <= Len(a) THEN a[i] ELSE b[i - Len(a)]
    BY <1>2, <1>3, <1>4, <2>1, ConcatProperties
  <2>3. Len(r) = Len(s) - 1
    BY <1>1, <1>2, <1>3, <2>1
  <2>4. ASSUME NEW i \in 1 .. Len(r)
        PROVE  r[i] = IF i < n THEN s[i] ELSE s[i + 1]
    <3>1. CASE i < n
      <4>1. i <= Len(a) /\ i \in 1 .. n - 1
        BY <1>1, <1>2, <2>3, <3>1
      <4>. QED BY <1>2, <2>2, <3>1, <4>1
    <3>2. CASE ~ (i < n)
      <4>1. ~ (i <= Len(a)) /\ i - Len(a) \in 1 .. Len(s) - n /\ n + (i - Len(a)) = i + 1
        BY <1>1, <1>2, <2>3, <3>2
      <4>2. r[i] = b[i - Len(a)] /\ b[i - Len(a)] = s[n + (i - Len(a))]
        BY <1>3, <2>2, <4>1
      <4>. QED BY <3>2, <4>1, <4>2
    <3>. QED BY <3>1, <3>2
  <2>. QED BY <2>1, <2>3, <2>4
<1>. DEFINE At(i) == IF i < n THEN i ELSE i + 1
<1>6. \A i \in 1 .. Len(r) : At(i) \in 1 .. Len(s) /\ At(i) # n /\ r[i] = s[At(i)]
  BY <1>1, <1>5
<1>7. \A i, j \in 1 .. Len(r) : At(i) = At(j) => i = j
  BY <1>1, <1>5
<1>8. \A j \in 1 .. Len(s) : j # n => \E i \in 1 .. Len(r) : At(i) = j
  <2>. SUFFICES ASSUME NEW j \in 1 .. Len(s), j # n
                PROVE  \E i \in 1 .. Len(r) : At(i) = j
    OBVIOUS
  <2>1. CASE j < n
    <3>1. j \in 1 .. Len(r) /\ At(j) = j
      BY <1>1, <1>5, <2>1
    <3>. QED BY <3>1
  <2>2. CASE j > n
    <3>1. j - 1 \in 1 .. Len(r) /\ At(j - 1) = j
      BY <1>1, <1>5, <2>2
    <3>. QED BY <3>1
  <2>. QED BY <1>1, <2>1, <2>2
<1>9. ToSet(s) = {s[i] : i \in 1 .. Len(s)} /\ ToSet(r) = {r[i] : i \in 1 .. Len(r)}
  BY <1>5, ElementsOf
<1>. HIDE DEF At
<1>10. Once(r)
  BY <1>6, <1>7 DEF Once
<1>11. ToSet(r) \subseteq ToSet(s) \ {s[n]}
  BY <1>6, <1>9 DEF Once
<1>12. ToSet(s) \ {s[n]} \subseteq ToSet(r)
  BY <1>6, <1>8, <1>9
<1>. QED BY <1>5, <1>10, <1>11, <1>12 DEF r

\* A key that is touched is tracked, and no other is forgotten while there is
\* room.
LEMMA TouchedOnce ==
    ASSUME lru \in Seq(Shards), setup.cap \in Nat, setup.cap > 0, NEW k \in Shards,
           Once(lru), Len(lru) <= setup.cap, HasRoom(k)
    PROVE  /\ Once(Touched(k)) /\ Len(Touched(k)) <= setup.cap
           /\ ToSet(Touched(k)) = ToSet(lru) \cup {k}
           /\ k \in ToSet(lru) => Len(Touched(k)) = Len(lru)
<1>0. ToSet(lru) = {lru[i] : i \in 1 .. Len(lru)} /\ Len(lru) \in Nat
      /\ DOMAIN lru = 1 .. Len(lru)
  BY ElementsOf
<1>1. CASE Contains(lru, k)
  <2>. DEFINE i == CHOOSE i \in DOMAIN lru : lru[i] = k
              r == RemoveAt(lru, i)
  <2>1. i \in 1 .. Len(lru) /\ lru[i] = k
    BY <1>0, <1>1 DEF Contains
  <2>2. Touched(k) = Append(r, k)
    BY <1>1 DEF Touched
  <2>. HIDE DEF i
  <2>3. /\ r \in Seq(Shards) /\ Once(r) /\ ToSet(r) = ToSet(lru) \ {k}
        /\ Len(r) = Len(lru) - 1
    BY <2>1, RemoveOnce
  <2>. HIDE DEF r
  <2>4. /\ Once(Append(r, k)) /\ ToSet(Append(r, k)) = ToSet(r) \cup {k}
        /\ Len(Append(r, k)) = Len(r) + 1
    BY <2>3, AppendOnce
  <2>. QED BY <1>0, <2>1, <2>2, <2>3, <2>4
<1>2. CASE ~ Contains(lru, k)
  <2>1. k \notin ToSet(lru)
    BY <1>0, <1>2 DEF Contains
  <2>2. Touched(k) = Append(lru, k)
    <3>1. ~ (Len(lru) >= setup.cap) /\ setup.cap # 0
      BY <1>0, <2>1 DEF HasRoom
    <3>. QED BY <1>2, <3>1 DEF Touched
  <2>3. /\ Once(Append(lru, k)) /\ ToSet(Append(lru, k)) = ToSet(lru) \cup {k}
        /\ Len(Append(lru, k)) = Len(lru) + 1
    BY <2>1, AppendOnce
  <2>4. Len(lru) < setup.cap
    BY <2>1 DEF HasRoom
  <2>. DEFINE r == Append(lru, k)
  <2>. HIDE DEF r
  <2>5. Touched(k) = r /\ Once(r) /\ ToSet(r) = ToSet(lru) \cup {k} /\ Len(r) = Len(lru) + 1
    BY <2>2, <2>3 DEF r
  <2>6. Len(r) <= setup.cap
    BY <1>0, <2>4, <2>5
  <2>. QED BY <2>1, <2>5, <2>6
<1>. QED BY <1>1, <1>2

LEMMA LruStep ==
    ASSUME Base, LruInv, [Next]_vars, OneCreates, OneCreates', [TrackerRests]_vars
    PROVE  LruInv'
<1>. USE NoneFacts DEF Base
<1>0. SUFFICES ASSUME setup.cap > 0, setup' = setup
               PROVE  TrackerFollows'
  <2>1. setup' = setup
    BY SetupStays
  <2>. QED BY <2>1 DEF LruInv
<1>1. TrackerFollows /\ setup.cap \in Nat /\ setup.cap # 0 /\ lru \in Seq(Shards)
  BY <1>0, SetupFacts DEF LruInv, TypeOK
<1>2. CASE UNCHANGED vars
  BY <1>1, <1>2 DEF vars, cache, work, TrackerFollows, HasRoom, OpenKeys, IsOpen
<1>3. CASE MainTask
  BY <1>1, <1>3, MainMoves DEF TrackerFollows, HasRoom, OpenKeys, IsOpen
<1>4. ASSUME NEW t \in Threads, Worker(t), ~ GetOrCreate(t) PROVE TrackerFollows'
  <2>1. /\ UNCHANGED <<setup, open, lru, victim>>
        /\ \A u \in Threads \ {t} : pc'[u] = pc[u] /\ goal'[u] = goal[u]
        /\ pc[t] \in {"idle", "have", "record"}
        /\ pc'[t] \in {"idle", "want", "record"}
    BY <1>4, WorkingMoves
  <2>2. OpenKeys' = OpenKeys
    BY <2>1 DEF OpenKeys, IsOpen
  <2>. QED BY <1>1, <2>1, <2>2 DEF TrackerFollows, HasRoom
<1>5. CASE Restart
  <2>1. PICK found \in [Shards -> UNION {Survivors(k) : k \in Shards}] :
           \E order \in SetToSeqs({k \in Shards : found[k] # None}) : Reopened(found, order)
    BY <1>5 DEF Restart
  <2>. DEFINE S == {k \in Shards : found[k] # None}
  <2>2. S \in SUBSET Shards /\ \E order \in SetToSeqs(S) : Reopened(found, order)
    BY <2>1
  <2>. HIDE DEF S
  <2>3. PICK kept : OpensOnly(kept, S, found)
    BY <2>2, ReopenedFacts
  <2>4. /\ kept \in Seq(Shards) /\ lru' = kept /\ Len(lru') <= setup'.cap /\ Once(lru')
        /\ \A k \in Shards : open'[k] # None =>
              open'[k] \in 1 .. Len(kept) /\ kept[open'[k]] = k
        /\ \A i \in 1 .. Len(kept) : open'[kept[i]] = i
    <3>1. kept \in Seq(Shards)
      BY <2>2, <2>3, SeqMonotonic DEF OpensOnly
    <3>. QED BY <1>0, <1>1, <2>3, <3>1 DEF OpensOnly, Once
  <2>5. ToSet(lru') = {kept[i] : i \in 1 .. Len(kept)} /\ ToSet(lru') \subseteq Shards
    BY <2>4, ElementsOf
  <2>6. ToSet(lru') = OpenKeys'
    <3>1. \A i \in 1 .. Len(kept) : i # None
      <4>1. \A i \in 1 .. Len(kept) : i \in Nat
        BY <2>4
      <4>. QED BY <4>1, NoneIsNothing
    <3>. QED BY <2>4, <2>5, <3>1 DEF OpenKeys, IsOpen
  <2>7. \A t \in Threads : pc'[t] = "idle"
    BY <1>5 DEF Restart
  <2>. QED BY <2>4, <2>6, <2>7 DEF TrackerFollows
<1>6. ASSUME NEW t \in Threads, GetOrCreate(t), FastPath(t) \/ FoundAfterAll(t)
      PROVE  TrackerFollows'
  <2>1. /\ UNCHANGED <<open, goal, victim>> /\ goal[t] \in Shards
        /\ open[goal[t]] # None /\ lru' = Touched(goal[t])
        /\ pc[t] \in {"want", "lock"} /\ pc'[t] = "have"
        /\ \A u \in Threads \ {t} : pc'[u] = pc[u]
    <3>1. pc \in [Threads -> PCs]
      BY DEF TypeOK
    <3>2. goal' = goal /\ goal[t] \in Shards
      BY <1>6, LookingMoves
    <3>3. open \in [Shards -> Ids \cup {None}]
      BY DEF TypeOK
    <3>. QED BY <1>6, <3>1, <3>2, <3>3 DEF FastPath, FoundAfterAll, TakeArc, Goto, IsOpen
  <2>2. OpenKeys' = OpenKeys /\ goal[t] \in OpenKeys
    BY <2>1 DEF OpenKeys, IsOpen
  <2>3. CASE Evicting
    <3>1. Evicting'
      BY <2>1, <2>3 DEF Evicting
    <3>2. lru' = lru
      BY <2>3, <3>1 DEF TrackerRests, vars, cache
    <3>. QED BY <1>0, <1>1, <2>1, <2>2, <3>2 DEF TrackerFollows, HasRoom
  <2>4. CASE ~ Evicting
    <3>1. \A u \in Threads : pc[u] \notin {"remove", "save", "pop"}
      BY <2>4 DEF Evicting
    <3>2. /\ Once(lru) /\ Len(lru) <= setup.cap
          /\ \A u \in Threads : pc[u] = "touch" =>
                OpenKeys = ToSet(lru) \cup {goal[u]} /\ HasRoom(goal[u])
          /\ (\A u \in Threads : pc[u] # "touch") => OpenKeys = ToSet(lru)
      BY <1>1, <3>1 DEF TrackerFollows
    <3>3. HasRoom(goal[t])
      BY <2>2, <3>2 DEF HasRoom
    <3>4. /\ Once(lru') /\ Len(lru') <= setup.cap
          /\ ToSet(lru') = ToSet(lru) \cup {goal[t]}
          /\ goal[t] \in ToSet(lru) => Len(lru') = Len(lru)
      BY <1>0, <1>1, <2>1, <3>2, <3>3, TouchedOnce
    <3>5. ASSUME NEW u \in Threads, pc[u] = "touch"
          PROVE  OpenKeys = ToSet(lru') \cup {goal[u]} /\ HasRoom(goal[u])'
      <4>1. OpenKeys = ToSet(lru) \cup {goal[u]} /\ HasRoom(goal[u])
        BY <3>2, <3>5
      <4>2. goal[t] \in ToSet(lru) \/ goal[t] = goal[u]
        BY <2>2, <4>1
      <4>3. OpenKeys = ToSet(lru') \cup {goal[u]}
        BY <2>2, <3>4, <4>1
      <4>4. goal[u] \in ToSet(lru') \/ Len(lru') < setup.cap
        BY <3>4, <4>1, <4>2 DEF HasRoom
      <4>. QED BY <1>0, <2>1, <4>3, <4>4 DEF HasRoom
    <3>6. ASSUME \A u \in Threads : pc[u] # "touch"
          PROVE  /\ ToSet(lru') = OpenKeys
                 /\ \A u \in Threads : pc[u] \in {"open", "insert"} => Len(lru') < setup.cap
      <4>1. goal[t] \in ToSet(lru) /\ OpenKeys = ToSet(lru)
        BY <2>2, <3>2, <3>6
      <4>2. ToSet(lru') = OpenKeys /\ Len(lru') = Len(lru)
        BY <3>4, <4>1
      <4>. QED BY <1>1, <4>2 DEF TrackerFollows
    <3>7. ASSUME NEW u \in Threads, pc[u] \in {"open", "insert"}
          PROVE  \A v \in Threads : pc[v] # "touch"
      BY <3>7 DEF OneCreates, Creating
    <3>8. \A u \in Threads : pc'[u] # "have" => pc'[u] = pc[u] /\ u # t
      BY <2>1
    <3>9. (\A u \in Threads : pc'[u] \notin {"save", "pop", "touch"}) => ToSet(lru') = OpenKeys'
      BY <2>1, <2>2, <3>6
    <3>10. \A u \in Threads :
             /\ pc'[u] \notin {"remove", "save", "pop"}
             /\ pc'[u] \in {"open", "insert"} => Len(lru') < setup.cap
             /\ pc'[u] = "touch" => OpenKeys' = ToSet(lru') \cup {goal'[u]} /\ HasRoom(goal[u])'
      BY <2>1, <2>2, <3>1, <3>5, <3>6, <3>7, <3>8
    <3>. QED BY <1>0, <2>1, <3>4, <3>9, <3>10 DEF TrackerFollows, HasRoom
  <2>. QED BY <2>3, <2>4
<1>7. ASSUME NEW t \in Threads, GetOrCreate(t), SlowPath(t) PROVE TrackerFollows'
  <2>1. /\ UNCHANGED <<open, lru, victim, goal>>
        /\ pc[t] = "want" /\ pc'[t] = "lock"
        /\ \A u \in Threads \ {t} : pc'[u] = pc[u]
    <3>1. pc \in [Threads -> PCs]
      BY DEF TypeOK
    <3>2. goal' = goal
      BY <1>7, LookingMoves
    <3>. QED BY <1>7, <3>1, <3>2 DEF SlowPath, Goto, cache
  <2>2. OpenKeys' = OpenKeys
    BY <2>1 DEF OpenKeys, IsOpen
  <2>. QED BY <1>0, <1>1, <2>1, <2>2 DEF TrackerFollows, HasRoom
<1>8. ASSUME NEW t \in Threads, GetOrCreate(t), pc[t] \in Creating \/ StartCreating(t)
      PROVE  TrackerFollows'
  <2>1. /\ goal' = goal /\ goal[t] \in Shards /\ pc \in [Threads -> PCs]
        /\ \A u \in Threads \ {t} : pc'[u] = pc[u]
    BY <1>8, LookingMoves DEF TypeOK, GetOrCreate, FastPath, SlowPath, FoundAfterAll,
       StartCreating, NoEviction, PeekLru, RemoveVictim, SaveVictim, PopLru,
       OpenOrCreate, InsertShard, TouchNew, Goto
  <2>2. \A u \in Threads \ {t} : pc[u] \notin Creating /\ pc'[u] \notin Creating
    <3>1. CASE pc[t] \in Creating
      BY <2>1, <3>1 DEF OneCreates
    <3>2. CASE StartCreating(t)
      <4>1. pc'[t] \in Creating
        BY <2>1, <3>2 DEF StartCreating, Goto, Creating
      <4>. QED BY <2>1, <4>1 DEF OneCreates
    <3>. QED BY <1>8, <3>1, <3>2
  \* What is left to show, of the one thread that creates.
  <2>3. SUFFICES
           /\ Once(lru') /\ Len(lru') <= setup.cap
           /\ pc'[t] \notin {"save", "pop", "touch"} => ToSet(lru') = OpenKeys'
           /\ pc'[t] \in {"remove", "save", "pop"} => lru' # <<>> /\ victim'[t] = Head(lru')
           /\ pc'[t] \in {"save", "pop"} => OpenKeys' = ToSet(lru') \ {victim'[t]}
           /\ pc'[t] \in {"open", "insert"} => Len(lru') < setup.cap
           /\ pc'[t] = "touch" =>
                 OpenKeys' = ToSet(lru') \cup {goal[t]} /\ HasRoom(goal[t])'
    <3>1. \A u \in Threads \ {t} :
             pc'[u] \notin {"remove", "save", "pop", "open", "insert", "touch"}
      BY <2>2 DEF Creating
    <3>. QED BY <1>0, <2>1, <3>1 DEF TrackerFollows, HasRoom
  <2>4. /\ Once(lru) /\ Len(lru) <= setup.cap /\ Len(lru) \in Nat
        /\ pc[t] \notin {"save", "pop", "touch"} => ToSet(lru) = OpenKeys
        /\ pc[t] \in {"remove", "save", "pop"} => lru # <<>> /\ victim[t] = Head(lru)
        /\ pc[t] \in {"save", "pop"} => OpenKeys = ToSet(lru) \ {victim[t]}
        /\ pc[t] \in {"open", "insert"} => Len(lru) < setup.cap
        /\ pc[t] = "touch" => OpenKeys = ToSet(lru) \cup {goal[t]} /\ HasRoom(goal[t])
    <3>1. \A u \in Threads \ {t} : pc[u] \notin {"save", "pop", "touch"}
      BY <2>2 DEF Creating
    <3>2. pc[t] \notin {"save", "pop", "touch"} => ToSet(lru) = OpenKeys
      BY <1>1, <3>1 DEF TrackerFollows
    <3>. QED BY <1>1, <3>2 DEF TrackerFollows
  <2>6. CASE StartCreating(t) \/ SaveVictim(t) \/ OpenOrCreate(t)
    <3>1. /\ UNCHANGED <<open, lru, victim>>
          /\ \/ pc[t] = "lock" /\ pc'[t] = "evict"
             \/ pc[t] = "save" /\ pc'[t] = "pop"
             \/ pc[t] = "open" /\ pc'[t] = "insert"
      BY <2>6 DEF StartCreating, SaveVictim, OpenOrCreate, Goto, TypeOK, cache
    <3>2. OpenKeys' = OpenKeys
      BY <3>1 DEF OpenKeys, IsOpen
    <3>. QED BY <2>4, <3>1, <3>2
  <2>7. CASE NoEviction(t)
    <3>1. /\ UNCHANGED <<open, lru, victim>> /\ pc[t] = "evict" /\ pc'[t] = "open"
          /\ ~ (setup.cap > 0 /\ Len(lru) >= setup.cap)
      BY <2>7 DEF NoEviction, MustEvict, Goto, TypeOK, cache
    <3>2. OpenKeys' = OpenKeys
      BY <3>1 DEF OpenKeys, IsOpen
    <3>3. Len(lru) < setup.cap
      BY <1>0, <1>1, <2>4, <3>1
    <3>. QED BY <2>4, <3>1, <3>2, <3>3
  <2>8. CASE PeekLru(t)
    <3>1. /\ UNCHANGED <<open, lru>> /\ pc[t] = "evict" /\ pc'[t] = "remove"
          /\ victim'[t] = Head(lru) /\ Len(lru) >= setup.cap
      BY <2>8 DEF PeekLru, MustEvict, Goto, TypeOK, cache
    <3>2. OpenKeys' = OpenKeys
      BY <3>1 DEF OpenKeys, IsOpen
    <3>3. lru # <<>>
      BY <1>0, <1>1, <3>1, EmptySeq
    <3>. QED BY <2>4, <3>1, <3>2, <3>3
  <2>9. CASE RemoveVictim(t)
    <3>1. /\ UNCHANGED <<lru, victim>> /\ pc[t] = "remove" /\ pc'[t] \in {"save", "pop"}
          /\ open' = [open EXCEPT ![victim[t]] = None] /\ open \in [Shards -> Ids \cup {None}]
      BY <2>9 DEF RemoveVictim, Goto, TypeOK
    <3>2. OpenKeys' = OpenKeys \ {victim[t]}
      BY <3>1 DEF OpenKeys, IsOpen
    <3>. QED BY <2>4, <3>1, <3>2
  <2>10. CASE PopLru(t)
    <3>1. /\ open' = open /\ pc[t] = "pop" /\ pc'[t] = "open"
          /\ lru' = IF lru = <<>> THEN lru ELSE Tail(lru)
      BY <2>10 DEF PopLru, Goto, TypeOK
    <3>2. OpenKeys' = OpenKeys
      BY <3>1 DEF OpenKeys, IsOpen
    <3>3. /\ lru # <<>> /\ victim[t] = Head(lru)
          /\ OpenKeys = ToSet(lru) \ {Head(lru)}
      BY <2>4, <3>1
    <3>4. /\ Once(lru') /\ ToSet(lru') = ToSet(lru) \ {Head(lru)}
          /\ Len(lru') = Len(lru) - 1
      BY <1>1, <2>4, <3>1, <3>3, TailOnce
    <3>5. Len(lru') < setup.cap
      BY <1>1, <2>4, <3>4
    <3>. QED BY <1>1, <2>4, <3>1, <3>2, <3>3, <3>4, <3>5
  <2>11. CASE InsertShard(t)
    <3>1. /\ UNCHANGED <<lru, victim>> /\ pc[t] = "insert" /\ pc'[t] = "touch"
          /\ open' = [open EXCEPT ![goal[t]] = arc[t]] /\ open \in [Shards -> Ids \cup {None}]
          /\ arc[t] # None
      BY <2>11 DEF InsertShard, Goto, TypeOK, Places
    <3>2. OpenKeys' = OpenKeys \cup {goal[t]}
      BY <2>1, <3>1 DEF OpenKeys, IsOpen
    <3>3. HasRoom(goal[t])'
      BY <1>0, <2>1, <2>4, <3>1 DEF HasRoom
    <3>. QED BY <2>4, <3>1, <3>2, <3>3
  <2>12. CASE TouchNew(t)
    <3>1. /\ open' = open /\ pc[t] = "touch" /\ pc'[t] = "have" /\ lru' = Touched(goal[t])
      BY <2>12 DEF TouchNew, Goto, TypeOK
    <3>2. OpenKeys' = OpenKeys
      BY <3>1 DEF OpenKeys, IsOpen
    <3>3. HasRoom(goal[t]) /\ OpenKeys = ToSet(lru) \cup {goal[t]}
      BY <2>4, <3>1
    <3>4. /\ Once(lru') /\ Len(lru') <= setup.cap
          /\ ToSet(lru') = ToSet(lru) \cup {goal[t]}
      BY <1>0, <1>1, <2>1, <2>4, <3>1, <3>3, TouchedOnce
    <3>. QED BY <3>1, <3>2, <3>3, <3>4
  <2>13. ~ (FastPath(t) \/ SlowPath(t) \/ FoundAfterAll(t))
    BY <1>8 DEF FastPath, SlowPath, FoundAfterAll, StartCreating, TakeArc, IsOpen, Goto,
       Creating
  <2>. QED BY <1>8, <2>6, <2>7, <2>8, <2>9, <2>10, <2>11, <2>12, <2>13 DEF GetOrCreate
<1>9. ASSUME NEW t \in Threads, GetOrCreate(t) PROVE TrackerFollows'
  <2>1. \/ FastPath(t) \/ FoundAfterAll(t) \/ SlowPath(t) \/ StartCreating(t)
        \/ pc[t] \in Creating
    BY <1>9 DEF GetOrCreate, NoEviction, PeekLru, RemoveVictim, SaveVictim, PopLru,
       OpenOrCreate, InsertShard, TouchNew, Goto, Creating
  <2>. QED BY <1>6, <1>7, <1>8, <1>9, <2>1
<1>. QED BY <1>2, <1>3, <1>4, <1>5, <1>9 DEF Next

LEMMA LruInvMeans ==
    ASSUME Base, LruInv
    PROVE  EvictionKeepsUp
<1>. SUFFICES ASSUME setup.cap > 0
              PROVE  /\ Cardinality(OpenKeys) <= setup.cap
                     /\ (\A t \in Threads : pc[t] \notin Creating) => ToSet(lru) = OpenKeys
  BY DEF EvictionKeepsUp
<1>1. TrackerFollows /\ setup.cap \in Nat /\ lru \in Seq(Shards)
  BY SetupFacts DEF LruInv, Base, TypeOK
<1>2. (\A t \in Threads : pc[t] \notin Creating) => ToSet(lru) = OpenKeys
  BY <1>1 DEF TrackerFollows, Creating
<1>3. /\ IsFiniteSet(ToSet(lru)) /\ Cardinality(ToSet(lru)) <= Len(lru)
      /\ Cardinality(ToSet(lru)) \in Nat /\ Len(lru) \in Nat
  BY <1>1, ElementsOf
<1>4. CASE OpenKeys \subseteq ToSet(lru)
  <2>1. IsFiniteSet(OpenKeys) /\ Cardinality(OpenKeys) <= Cardinality(ToSet(lru))
    BY <1>3, <1>4, FS_Subset
  <2>2. Cardinality(OpenKeys) \in Nat
    BY <2>1, FS_CardinalityType
  <2>. QED BY <1>1, <1>2, <1>3, <2>1, <2>2 DEF TrackerFollows
<1>5. CASE ~ (OpenKeys \subseteq ToSet(lru))
  <2>1. PICK t \in Threads : pc[t] = "touch"
    BY <1>1, <1>5 DEF TrackerFollows
  <2>. DEFINE T == ToSet(lru)
  <2>2. OpenKeys = T \cup {goal[t]} /\ (goal[t] \in T \/ Len(lru) < setup.cap)
    BY <1>1, <2>1 DEF TrackerFollows, HasRoom
  <2>. HIDE DEF T
  <2>3. IsFiniteSet(T) /\ Cardinality(T) <= Len(lru) /\ Cardinality(T) \in Nat
    BY <1>3 DEF T
  <2>4. /\ Cardinality(OpenKeys) <= Cardinality(T) + 1 /\ Cardinality(OpenKeys) \in Nat
        /\ goal[t] \in T => Cardinality(OpenKeys) = Cardinality(T)
    <3>1. /\ IsFiniteSet(T \cup {goal[t]})
          /\ \/ Cardinality(T \cup {goal[t]}) = Cardinality(T)
             \/ Cardinality(T \cup {goal[t]}) = Cardinality(T) + 1
      BY <2>3, FS_AddElement
    <3>2. goal[t] \in T => T \cup {goal[t]} = T
      OBVIOUS
    <3>3. Cardinality(OpenKeys) = Cardinality(T \cup {goal[t]})
      BY <2>2
    <3>4. goal[t] \in T => Cardinality(OpenKeys) = Cardinality(T)
      BY <3>2, <3>3
    <3>5. Cardinality(OpenKeys) <= Cardinality(T) + 1 /\ Cardinality(OpenKeys) \in Nat
      BY <2>3, <3>1, <3>3
    <3>. QED BY <3>4, <3>5
  <2>. QED BY <1>1, <1>2, <1>3, <2>2, <2>3, <2>4 DEF TrackerFollows
<1>. QED BY <1>4, <1>5

\* Under any limit and with any workers, whatever shards they ask for, hold and
\* write while another evicts them, the open shards stay within the limit and the
\* tracker knows them, in every behaviour in which creations do not overlap and
\* the tracker is left alone between the peek and the pop of an eviction: the two
\* things that the locks of maybe_evict_shard and create_or_open_shard leave open.
THEOREM EvictionWorks ==
    Spec /\ []OneCreates /\ [][TrackerRests]_vars => []EvictionKeepsUp
<1>1. Init => Base /\ LruInv
  <2>1. Init => LruInv
    <3>. SUFFICES ASSUME Init, setup.cap > 0 PROVE TrackerFollows
      BY DEF LruInv
    <3>1. setup.cap \in Nat
      BY InitBase, SetupFacts DEF Base
    <3>2. /\ lru = <<>> /\ Len(lru) = 0 /\ Once(lru) /\ ToSet(lru) = {}
      BY EmptySeq DEF Init, Once, ToSet
    <3>3. OpenKeys = {}
      BY DEF Init, OpenKeys, IsOpen
    <3>4. \A t \in Threads : pc[t] = "idle"
      BY DEF Init
    <3>. QED BY <3>1, <3>2, <3>3, <3>4 DEF TrackerFollows
  <2>. QED BY <2>1, InitBase
<1>2. /\ Base /\ LruInv /\ [Next]_vars
      /\ OneCreates /\ OneCreates' /\ [TrackerRests]_vars
      => (Base /\ LruInv)'
  BY NextBase, LruStep
<1>3. Base /\ LruInv => EvictionKeepsUp
  BY LruInvMeans DEF Base, TypeOK
<1>. QED BY <1>1, <1>2, <1>3, PTL DEF Spec

---------------------------------------------------------------------------
(* Transactions: what is recorded as complete. *)

\* Of a handle or an image: what it records as complete has its n-grams.
Honest(x) == \A f \in x.done : x.cnt[f] = "once"

HonestEverywhere ==
    /\ \A k \in Shards : disk[k] # None => Honest(disk[k])
    /\ \A i \in Ids : heap[i] # None =>
          Honest(heap[i]) /\ disk[heap[i].key].done \subseteq heap[i].done

\* The file of a prefix is recorded on the disk.
Kept(f) == disk[KeyOf[f]] # None /\ f \in disk[KeyOf[f]].done

KeptWhenTold ==
    /\ \A f \in Files :
          f \in results.ok \/ ledger[f] = "Completed" \/ ledgerSaved[f] = "Completed"
            => Kept(f)
    /\ \A t \in Threads :
          /\ pc[t] # "idle" => goal[t] = KeyOf[file[t]]
          /\ pc[t] = "record" => Kept(file[t])

PrefixInv == EvictsAlone(setup) /\ ~ setup.hash => HonestEverywhere /\ KeptWhenTold

\* A step that writes one handle and the file of its shard.
LEMMA HonestWrite ==
    ASSUME Base, HonestEverywhere, NEW j \in Ids, NEW n \in Handles, Honest(n),
           \A i \in Ids : heap'[i] # None =>
              IF i = j THEN heap'[i] = n
              ELSE /\ heap[i] # None /\ heap'[i] = heap[i]
                   /\ disk'[heap[i].key] = disk[heap[i].key],
           \A k \in Shards \ {n.key} : disk'[k] = disk[k],
           disk'[n.key] # None, Honest(disk'[n.key]), disk'[n.key].done \subseteq n.done,
           disk[n.key] # None => disk[n.key].done \subseteq disk'[n.key].done
    PROVE  HonestEverywhere' /\ \A f \in Files : Kept(f) => Kept(f)'
<1>1. n.key \in Shards
  BY MadeOfOthers
<1>2. \A k \in Shards : disk'[k] # None => Honest(disk'[k])
  BY DEF HonestEverywhere
<1>3. \A i \in Ids : heap'[i] # None =>
         Honest(heap'[i]) /\ disk'[heap'[i].key].done \subseteq heap'[i].done
  BY DEF HonestEverywhere
<1>4. HonestEverywhere'
  BY <1>2, <1>3 DEF HonestEverywhere, Honest
<1>5. \A f \in Files : Kept(f) => Kept(f)'
  BY <1>1, FilesHaveKeys DEF Kept
<1>. QED BY <1>4, <1>5

\* A step that writes nothing.
LEMMA HonestQuiet ==
    ASSUME HonestEverywhere, disk' = disk,
           \A i \in Ids : heap'[i] # None => heap'[i] = heap[i]
    PROVE  HonestEverywhere' /\ \A f \in Files : Kept(f) => Kept(f)'
BY DEF HonestEverywhere, Honest, Kept

\* The steps that write nothing.
LEMMA LookingQuiet ==
    ASSUME Base, NEW t \in Threads, GetOrCreate(t), ~ SaveVictim(t), ~ OpenOrCreate(t)
    PROVE  disk' = disk /\ \A i \in Ids : heap'[i] # None => heap'[i] = heap[i]
BY ClosingKeeps DEF GetOrCreate, FastPath, SlowPath, FoundAfterAll, StartCreating,
   NoEviction, PeekLru, RemoveVictim, PopLru, InsertShard, TouchNew, TakeArc, cache,
   Closed

LEMMA WorkingQuiet ==
    ASSUME NEW t \in Threads,
           (\E f \in Files : StartFile(t, f)) \/ RecordPrefix(t) \/ FailFile(t)
    PROVE  disk' = disk /\ \A i \in Ids : heap'[i] # None => heap'[i] = heap[i]
BY DEF StartFile, RecordPrefix, FailFile, cache, durable, Closed

LEMMA MainQuiet ==
    ASSUME \/ \E f \in Files : MarkFailed(f)
           \/ \E k \in Shards : SkipShard(k) \/ VisitFails(k)
           \/ StartCheckpoint \/ Publish \/ SaveLedger
    PROVE  disk' = disk /\ heap' = heap
BY DEF MarkFailed, SkipShard, VisitFails, StartCheckpoint, Publish, SaveLedger,
   cache, durable

\* The steps that write a handle: the one that the worker holds, and none other
\* of its shard.
LEMMA WorkerWrites ==
    ASSUME Base, OneHandleEach, NEW t \in Threads, arc[t] # None, NEW n \in Handles,
           n.key = goal[t], NEW h, h = [heap EXCEPT ![arc[t]] = n],
           heap' = h \/ heap' = Closed(h, Live(open', arc', evicted')),
           \A k \in Shards \ {goal[t]} : disk'[k] = disk[k]
    PROVE  \A i \in Ids : heap'[i] # None =>
              IF i = arc[t] THEN heap'[i] = n
              ELSE /\ heap[i] # None /\ heap'[i] = heap[i]
                   /\ disk'[heap[i].key] = disk[heap[i].key]
<1>1. /\ arc[t] \in Ids /\ heap[arc[t]] # None /\ heap[arc[t]].key = goal[t]
  BY HeldHandle
<1>2. heap \in [Ids -> Handles \cup {None}]
  BY DEF Base, TypeOK
<1>3. h[arc[t]] = n /\ \A i \in Ids \ {arc[t]} : h[i] = heap[i]
  BY <1>1, <1>2
<1>4. \A i \in Ids : heap'[i] # None => heap'[i] = h[i]
  BY DEF Closed
<1>5. \A i \in Ids \ {arc[t]} : heap[i] # None =>
         heap[i].key # goal[t] /\ heap[i].key \in Shards
  <2>1. \A i \in Ids : heap[i] # None => heap[i].key \in Shards
    BY <1>2, MadeOfOthers
  <2>. QED BY <1>1, <2>1 DEF OneHandleEach
<1>. QED BY <1>3, <1>4, <1>5

\* What a step needs to keep for KeptWhenTold.
LEMMA ToldStays ==
    ASSUME Base, KeptWhenTold,
           \A f \in Files : Kept(f) => Kept(f)',
           \A f \in results'.ok : f \in results.ok \/ Kept(f)',
           \A f \in Files : ledger'[f] = "Completed" => ledger[f] = "Completed" \/ Kept(f)',
           \A f \in Files : ledgerSaved'[f] = "Completed" =>
              ledgerSaved[f] = "Completed" \/ ledger[f] = "Completed",
           \A u \in Threads :
              \/ pc'[u] = pc[u] /\ goal'[u] = goal[u] /\ file'[u] = file[u]
              \/ pc'[u] = "idle"
              \/ goal'[u] = KeyOf[file'[u]] /\ (pc'[u] = "record" => Kept(file[u])')
    PROVE  KeptWhenTold'
<1>1. \A f \in Files :
         f \in results'.ok \/ ledger'[f] = "Completed" \/ ledgerSaved'[f] = "Completed"
            => Kept(f)'
  BY DEF KeptWhenTold
<1>2. \A u \in Threads :
         /\ pc'[u] # "idle" => goal'[u] = KeyOf[file'[u]]
         /\ pc'[u] = "record" => Kept(file[u])'
  <2>. SUFFICES ASSUME NEW u \in Threads
                PROVE  /\ pc'[u] # "idle" => goal'[u] = KeyOf[file'[u]]
                       /\ pc'[u] = "record" => Kept(file[u])'
    OBVIOUS
  <2>1. CASE pc'[u] = pc[u] /\ goal'[u] = goal[u] /\ file'[u] = file[u]
    <3>1. pc[u] # "idle" => file[u] \in Files
      BY DEF Base, Places, TypeOK
    <3>2. pc[u] = "record" => Kept(file[u]) /\ file[u] \in Files
      BY <3>1 DEF KeptWhenTold
    <3>3. pc[u] = "record" => Kept(file[u])'
      BY <2>1, <3>2 DEF Kept
    <3>. QED BY <2>1, <3>3 DEF KeptWhenTold
  <2>. QED BY <2>1
<1>. QED BY <1>1, <1>2 DEF KeptWhenTold, Kept

\* The steps of get_or_create_shard, with transactions.
LEMMA LookingKeepsPrefix ==
    ASSUME Base, HonestEverywhere, KeptWhenTold, OneHandleEach,
           NEW t \in Threads, GetOrCreate(t)
    PROVE  HonestEverywhere' /\ KeptWhenTold'
<1>. USE NoneFacts
<1>1. /\ UNCHANGED <<results, ledger, ledgerSaved, goal, file>>
      /\ \A u \in Threads \ {t} : pc'[u] = pc[u]
      /\ pc[t] # "idle" /\ pc'[t] # "record" /\ goal[t] \in Shards
  <2>1. pc[t] # "idle" /\ pc'[t] # "record"
    BY DEF GetOrCreate, FastPath, SlowPath, FoundAfterAll, StartCreating, NoEviction,
       PeekLru, RemoveVictim, SaveVictim, PopLru, OpenOrCreate, InsertShard, TouchNew,
       Goto, Base, TypeOK
  <2>. QED BY <2>1, LookingMoves
<1>2. SUFFICES HonestEverywhere' /\ \A f \in Files : Kept(f) => Kept(f)'
  <2>1. \A u \in Threads :
           \/ pc'[u] = pc[u] /\ goal'[u] = goal[u] /\ file'[u] = file[u]
           \/ pc'[u] = "idle"
           \/ goal'[u] = KeyOf[file'[u]] /\ (pc'[u] = "record" => Kept(file[u])')
    BY <1>1 DEF KeptWhenTold
  <2>. QED BY <1>1, <1>2, <2>1, ToldStays
<1>3. CASE ~ SaveVictim(t) /\ ~ OpenOrCreate(t)
  BY <1>3, LookingQuiet, HonestQuiet
<1>4. CASE SaveVictim(t)
  <2>. DEFINE j == evicted[t]
              n == heap[j]
  <2>1. /\ pc[t] = "save" /\ j # None /\ victim[t] \in Shards
        /\ heap' = Closed(heap, Live(open', arc', evicted'))
        /\ disk' = disk \/ disk' = [disk EXCEPT ![victim[t]] = Image(n)]
    BY <1>4 DEF SaveVictim, Goto, Base, Places, TypeOK
  <2>2. /\ j \in Ids /\ n \in Handles /\ n # None /\ n.key = victim[t]
        /\ disk[n.key] # None
    <3>1. j \in Ids /\ j \in Live(open, arc, evicted)
      BY <2>1 DEF Base, TypeOK, Live
    <3>. QED BY <2>1, <3>1 DEF Base, References, TypeOK
  <2>3. \A i \in Ids : heap'[i] # None => heap'[i] = heap[i]
    BY <2>1 DEF Closed
  <2>4. Honest(n) /\ disk[n.key].done \subseteq n.done
    BY <2>2 DEF HonestEverywhere
  <2>5. \A i \in Ids \ {j} : heap[i] # None =>
           heap[i].key # n.key /\ heap[i].key \in Shards
    <3>1. \A i \in Ids : heap[i] # None => heap[i].key \in Shards
      BY MadeOfOthers DEF Base, TypeOK
    <3>. QED BY <2>2, <3>1 DEF OneHandleEach
  <2>6. CASE disk' = disk
    BY <2>3, <2>6, HonestQuiet
  <2>7. CASE disk' = [disk EXCEPT ![victim[t]] = Image(n)]
    <3>1. /\ \A k \in Shards \ {n.key} : disk'[k] = disk[k]
          /\ disk'[n.key] = Image(n) /\ disk'[n.key] # None
      BY <2>2, <2>7, MadeOfOthers DEF Base, TypeOK
    <3>2. Image(n).done = n.done /\ Image(n).cnt = n.cnt
      BY DEF Image
    <3>. HIDE DEF n, j
    <3>3. /\ Honest(disk'[n.key]) /\ disk'[n.key].done \subseteq n.done
          /\ disk[n.key].done \subseteq disk'[n.key].done
      BY <2>4, <3>1, <3>2 DEF Honest
    <3>4. \A i \in Ids : heap'[i] # None =>
              IF i = j THEN heap'[i] = n
              ELSE /\ heap[i] # None /\ heap'[i] = heap[i]
                   /\ disk'[heap[i].key] = disk[heap[i].key]
      BY <2>3, <2>5, <3>1 DEF n
    <3>. QED BY <2>2, <2>4, <3>1, <3>3, <3>4, HonestWrite
  <2>. QED BY <2>1, <2>6, <2>7
<1>5. CASE OpenOrCreate(t)
  <2>. DEFINE k == goal[t]
              image == IF disk[k] = None THEN NewShard ELSE disk[k]
              j == FreeId
              n == Loaded(k, image)
  <2>1. /\ heap' = Closed([heap EXCEPT ![j] = n], Live(open', arc', evicted'))
        /\ disk' = [disk EXCEPT ![k] = image] /\ evicted[t] = None
    BY <1>5 DEF OpenOrCreate, Goto, Base, Places
  <2>2. j \in Ids /\ heap[j] = None
    BY <2>1, FreeIdIsFree
  <2>3. image \in Images /\ n \in Handles /\ n.key = k
    BY <1>1, MadeOfOthers DEF Base, TypeOK
  <2>4. n.done = image.done /\ n.cnt = image.cnt
    BY DEF Loaded
  <2>5. disk[k] # None => image = disk[k]
    OBVIOUS
  <2>6. Honest(image)
    BY <1>1 DEF Honest, HonestEverywhere, NewShard
  <2>7. heap \in [Ids -> Handles \cup {None}] /\ disk \in [Shards -> Images \cup {None}]
    BY DEF Base, TypeOK
  <2>8. \A i \in Ids : heap[i] # None => heap[i].key \in Shards /\ disk[heap[i].key] # None
    BY <2>7, MadeOfOthers DEF Base, References
  <2>. HIDE DEF n, j, image
  <2>9. \A i \in Ids : heap'[i] # None =>
              IF i = j THEN heap'[i] = n
              ELSE /\ heap[i] # None /\ heap'[i] = heap[i]
                   /\ disk'[heap[i].key] = disk[heap[i].key]
    <3>1. \A i \in Ids : heap'[i] # None => heap'[i] = IF i = j THEN n ELSE heap[i]
      BY <2>1, <2>7 DEF Closed
    <3>2. \A l \in Shards : disk[l] # None => disk'[l] = disk[l]
      BY <2>1, <2>5, <2>6, <2>7
    <3>. QED BY <2>8, <3>1, <3>2
  <2>10. /\ \A l \in Shards \ {n.key} : disk'[l] = disk[l]
         /\ disk'[n.key] = image /\ image # None
         /\ disk[n.key] # None => disk[n.key].done \subseteq disk'[n.key].done
    BY <1>1, <2>1, <2>3, <2>5, <2>6, <2>7
  <2>11. Honest(n)
    BY <2>4, <2>6 DEF Honest
  <2>. QED BY <2>2, <2>3, <2>4, <2>6, <2>9, <2>10, <2>11, HonestWrite
<1>. QED BY <1>3, <1>4, <1>5

\* The other steps of a worker.
LEMMA WorkingKeepsPrefix ==
    ASSUME Base, HonestEverywhere, KeptWhenTold, OneHandleEach, ~ setup.hash,
           NEW t \in Threads, Worker(t), ~ GetOrCreate(t)
    PROVE  HonestEverywhere' /\ KeptWhenTold'
<1>. USE NoneFacts
<1>1. /\ \A u \in Threads \ {t} : pc'[u] = pc[u] /\ goal'[u] = goal[u] /\ file'[u] = file[u]
      /\ pc[t] # "idle" => file[t] \in Files /\ goal[t] = KeyOf[file[t]]
      /\ pc[t] \in {"have", "record"} => arc[t] # None
  BY WorkingMoves DEF Base, Places, TypeOK, KeptWhenTold
<1>2. UNCHANGED <<ledger, ledgerSaved>>
  BY DEF Worker, StartFile, Increment, CommitChunk, CommitPrefix, durable, import,
     CommitPrefixPersistFails, RecordPrefix, FailFile
<1>3. ASSUME NEW f \in Files, StartFile(t, f) PROVE HonestEverywhere' /\ KeptWhenTold'
  <2>1. HonestEverywhere' /\ \A g \in Files : Kept(g) => Kept(g)'
    BY <1>3, WorkingQuiet, HonestQuiet
  <2>2. /\ results' = results /\ file'[t] = f /\ pc'[t] = "want" /\ Ask(t, f)
    BY <1>3 DEF StartFile, Goto, Base, TypeOK
  <2>3. goal'[t] = KeyOf[f]
    <3>1. goal'[t] \in Targets(f)
      BY <2>2, AskKeeps
    <3>. QED BY <3>1 DEF Targets
  <2>4. \A u \in Threads :
           \/ pc'[u] = pc[u] /\ goal'[u] = goal[u] /\ file'[u] = file[u]
           \/ pc'[u] = "idle"
           \/ goal'[u] = KeyOf[file'[u]] /\ (pc'[u] = "record" => Kept(file[u])')
    BY <1>1, <2>2, <2>3
  <2>. QED BY <1>2, <2>1, <2>2, <2>4, ToldStays
<1>4. CASE RecordPrefix(t) \/ FailFile(t)
  <2>1. HonestEverywhere' /\ \A g \in Files : Kept(g) => Kept(g)'
    BY <1>4, WorkingQuiet, HonestQuiet
  <2>2. pc[t] \in {"have", "record"} /\ file[t] \in Files
    BY <1>1, <1>4 DEF RecordPrefix, FailFile
  <2>3. \A f \in results'.ok : f \in results.ok \/ Kept(f)'
    <3>1. CASE RecordPrefix(t)
      <4>1. Kept(file[t])
        BY <3>1 DEF RecordPrefix, KeptWhenTold
      <4>2. results'.ok \subseteq results.ok \cup {file[t]}
        BY <3>1 DEF RecordPrefix, Ends, Base, TypeOK
      <4>. QED BY <2>1, <2>2, <4>1, <4>2
    <3>2. CASE FailFile(t)
      BY <3>2 DEF FailFile, Ends, Base, TypeOK
    <3>. QED BY <1>4, <3>1, <3>2
  <2>4. \A u \in Threads :
           \/ pc'[u] = pc[u] /\ goal'[u] = goal[u] /\ file'[u] = file[u]
           \/ pc'[u] = "idle"
           \/ goal'[u] = KeyOf[file'[u]] /\ (pc'[u] = "record" => Kept(file[u])')
    <3>1. CASE pc'[t] = "idle"
      BY <1>1, <3>1
    <3>2. CASE pc'[t] # "idle"
      <4>1. Ask(t, file[t]) /\ pc'[t] = "want" /\ file' = file
        BY <1>4, <3>2 DEF RecordPrefix, FailFile, Ends, Goto, Base, TypeOK
      <4>2. goal'[t] \in Targets(file[t])
        BY <2>2, <4>1, AskKeeps
      <4>. QED BY <1>1, <4>1, <4>2 DEF Targets
    <3>. QED BY <3>1, <3>2
  <2>. QED BY <1>2, <2>1, <2>3, <2>4, ToldStays
<1>5. CASE CommitChunk(t)
  <2>. DEFINE j == arc[t]
              f == file[t]
              n == [heap[j] EXCEPT !.cnt[f] = IF @ = "none" THEN "part" ELSE @,
                                   !.dirty = TRUE]
              h == [heap EXCEPT ![j] = n]
  <2>1. /\ pc[t] = "have" /\ pc'[t] = "want" /\ UNCHANGED <<disk, results, goal, file>>
        /\ heap' = h
    BY <1>5 DEF CommitChunk, Write, Goto, durable, import, Base, TypeOK
  <2>2. /\ j \in Ids /\ heap[j] \in Handles /\ heap[j] # None /\ heap[j].key = goal[t]
        /\ disk[goal[t]] # None /\ f \in Files
    BY <1>1, <2>1, HeldHandle
  <2>3. /\ n \in Handles /\ n.key = heap[j].key /\ n.done = heap[j].done
        /\ n.cnt = [heap[j].cnt EXCEPT ![f] = IF heap[j].cnt[f] = "none" THEN "part"
                                              ELSE heap[j].cnt[f]]
    BY <2>2, Counted
  <2>4. Honest(heap[j]) /\ disk[goal[t]].done \subseteq heap[j].done /\ Honest(disk[goal[t]])
    BY <2>2, MadeOfOthers DEF HonestEverywhere
  <2>5. heap[j].cnt \in [Files -> Contents] /\ heap[j].done \subseteq Files
    BY <2>2 DEF Handles
  <2>. HIDE DEF n
  <2>6. Honest(n)
    BY <2>2, <2>3, <2>4, <2>5 DEF Honest
  <2>7. arc[t] # None /\ n.key = goal[t]
    BY <1>1, <2>1, <2>2, <2>3
  <2>8. \A i \in Ids : heap'[i] # None =>
              IF i = j THEN heap'[i] = n
              ELSE /\ heap[i] # None /\ heap'[i] = heap[i]
                   /\ disk'[heap[i].key] = disk[heap[i].key]
    BY <2>1, <2>3, <2>7, WorkerWrites
  <2>9. HonestEverywhere' /\ \A g \in Files : Kept(g) => Kept(g)'
    BY <2>1, <2>2, <2>3, <2>4, <2>6, <2>7, <2>8, HonestWrite
  <2>10. \A u \in Threads :
           \/ pc'[u] = pc[u] /\ goal'[u] = goal[u] /\ file'[u] = file[u]
           \/ pc'[u] = "idle"
           \/ goal'[u] = KeyOf[file'[u]] /\ (pc'[u] = "record" => Kept(file[u])')
    BY <1>1, <2>1
  <2>. QED BY <1>2, <2>1, <2>9, <2>10, ToldStays
<1>6. CASE CommitPrefix(t)
  <2>. DEFINE j == arc[t]
              f == file[t]
              whole == [heap[j] EXCEPT !.cnt[f] = "once", !.done = @ \cup {f}]
              n == [whole EXCEPT !.dirty = TRUE]
              h == [heap EXCEPT ![j] = n]
  <2>1. /\ pc[t] = "have" /\ pc'[t] = "record" /\ UNCHANGED <<results, goal, file>>
        /\ heap' = h /\ disk' = [disk EXCEPT ![heap[j].key] = Logged(whole)]
    BY <1>6 DEF CommitPrefix, Write, Goto, import, Base, TypeOK
  <2>2. /\ j \in Ids /\ heap[j] \in Handles /\ heap[j] # None /\ heap[j].key = goal[t]
        /\ disk[goal[t]] \in Images /\ disk[goal[t]] # None /\ f \in Files
        /\ goal[t] \in Shards
    BY <1>1, <2>1, HeldHandle
  <2>3. /\ whole \in Handles /\ whole.key = heap[j].key /\ whole.done = heap[j].done \cup {f}
        /\ whole.cnt = [heap[j].cnt EXCEPT ![f] = "once"]
    BY <2>2, Written
  <2>4. Honest(heap[j]) /\ disk[goal[t]].done \subseteq heap[j].done
    BY <2>2 DEF HonestEverywhere
  <2>5. heap[j].cnt \in [Files -> Contents] /\ heap[j].done \subseteq Files
    BY <2>2 DEF Handles
  <2>. HIDE DEF whole
  <2>6. /\ n \in Handles /\ n.key = whole.key /\ n.done = whole.done /\ n.cnt = whole.cnt
    BY <2>2, <2>3, Written
  <2>7. /\ Logged(whole) \in Images /\ Logged(whole).done = whole.done
        /\ Logged(whole).cnt = whole.cnt
    BY <2>2, <2>3, MadeOfOthers DEF Logged
  <2>. HIDE DEF n
  <2>8. Honest(n) /\ Honest(Logged(whole))
    BY <2>2, <2>3, <2>4, <2>5, <2>6, <2>7 DEF Honest
  <2>9. arc[t] # None /\ n.key = goal[t]
    BY <1>1, <2>1, <2>2, <2>3, <2>6
  <2>10. /\ \A k \in Shards \ {goal[t]} : disk'[k] = disk[k]
         /\ disk'[goal[t]] = Logged(whole) /\ Logged(whole) # None
    BY <2>1, <2>2, <2>7 DEF Base, TypeOK
  <2>11. \A i \in Ids : heap'[i] # None =>
              IF i = j THEN heap'[i] = n
              ELSE /\ heap[i] # None /\ heap'[i] = heap[i]
                   /\ disk'[heap[i].key] = disk[heap[i].key]
    BY <2>1, <2>6, <2>9, <2>10, WorkerWrites
  <2>12. HonestEverywhere' /\ \A g \in Files : Kept(g) => Kept(g)'
    <3>1. /\ disk'[n.key].done \subseteq n.done
          /\ disk[n.key].done \subseteq disk'[n.key].done
      BY <2>3, <2>4, <2>6, <2>7, <2>9, <2>10
    <3>. QED BY <2>2, <2>6, <2>8, <2>9, <2>10, <2>11, <3>1, HonestWrite
  <2>13. Kept(file[t])'
    BY <1>1, <2>1, <2>3, <2>7, <2>10 DEF Kept
  <2>14. \A u \in Threads :
           \/ pc'[u] = pc[u] /\ goal'[u] = goal[u] /\ file'[u] = file[u]
           \/ pc'[u] = "idle"
           \/ goal'[u] = KeyOf[file'[u]] /\ (pc'[u] = "record" => Kept(file[u])')
    BY <1>1, <2>1, <2>13
  <2>. QED BY <1>2, <2>1, <2>12, <2>14, ToldStays
<1>7. CASE CommitPrefixPersistFails(t)
  <2>. DEFINE j == arc[t]
              f == file[t]
              n == [heap[j] EXCEPT !.cnt[f] = "once", !.done = @ \cup {f}]
              h == [heap EXCEPT ![j] = n]
  <2>1. /\ pc[t] = "have" /\ pc'[t] = "idle" /\ disk' = disk /\ results'.ok = results.ok
        /\ heap' = Closed(h, Live(open', arc', evicted'))
    BY <1>7 DEF CommitPrefixPersistFails, Ends, durable, Base, TypeOK
  <2>2. /\ j \in Ids /\ heap[j] \in Handles /\ heap[j] # None /\ heap[j].key = goal[t]
        /\ disk[goal[t]] # None /\ f \in Files
    BY <1>1, <2>1, HeldHandle
  <2>3. /\ n \in Handles /\ n.key = heap[j].key /\ n.done = heap[j].done \cup {f}
        /\ n.cnt = [heap[j].cnt EXCEPT ![f] = "once"]
    BY <2>2, Written
  <2>4. Honest(heap[j]) /\ disk[goal[t]].done \subseteq heap[j].done /\ Honest(disk[goal[t]])
    BY <2>2, MadeOfOthers DEF HonestEverywhere
  <2>5. heap[j].cnt \in [Files -> Contents] /\ heap[j].done \subseteq Files
    BY <2>2 DEF Handles
  <2>. HIDE DEF n
  <2>6. Honest(n)
    BY <2>2, <2>3, <2>4, <2>5 DEF Honest
  <2>7. arc[t] # None /\ n.key = goal[t]
    BY <1>1, <2>1, <2>2, <2>3
  <2>8. \A i \in Ids : heap'[i] # None =>
              IF i = j THEN heap'[i] = n
              ELSE /\ heap[i] # None /\ heap'[i] = heap[i]
                   /\ disk'[heap[i].key] = disk[heap[i].key]
    BY <2>1, <2>3, <2>7, WorkerWrites
  <2>9. HonestEverywhere' /\ \A g \in Files : Kept(g) => Kept(g)'
    <3>1. disk'[n.key].done \subseteq n.done
      BY <2>1, <2>3, <2>4, <2>7
    <3>. QED BY <2>1, <2>2, <2>3, <2>4, <2>6, <2>7, <2>8, <3>1, HonestWrite
  <2>10. \A u \in Threads :
           \/ pc'[u] = pc[u] /\ goal'[u] = goal[u] /\ file'[u] = file[u]
           \/ pc'[u] = "idle"
           \/ goal'[u] = KeyOf[file'[u]] /\ (pc'[u] = "record" => Kept(file[u])')
    BY <1>1, <2>1
  <2>. QED BY <1>2, <2>1, <2>9, <2>10, ToldStays
<1>8. ~ Increment(t)
  BY DEF Increment
<1>. QED BY <1>3, <1>4, <1>5, <1>6, <1>7, <1>8 DEF Worker

\* What the main task writes: the open handle of a shard, and its file.
LEMMA MainWrites ==
    ASSUME Base, OneHandleEach, NEW k \in Shards, open[k] # None, NEW n,
           heap' = heap \/ heap' = [heap EXCEPT ![open[k]] = n],
           heap' = heap => n = heap[open[k]],
           \A l \in Shards \ {k} : disk'[l] = disk[l]
    PROVE  \A i \in Ids : heap'[i] # None =>
              IF i = open[k] THEN heap'[i] = n
              ELSE /\ heap[i] # None /\ heap'[i] = heap[i]
                   /\ disk'[heap[i].key] = disk[heap[i].key]
<1>1. /\ open[k] \in Ids /\ heap[open[k]] # None /\ heap[open[k]].key = k
  BY OpenHandle
<1>2. heap \in [Ids -> Handles \cup {None}]
  BY DEF Base, TypeOK
<1>3. /\ heap'[open[k]] = n
      /\ \A i \in Ids \ {open[k]} : heap'[i] = heap[i]
  BY <1>1, <1>2
<1>4. \A i \in Ids \ {open[k]} : heap[i] # None =>
         heap[i].key # k /\ heap[i].key \in Shards
  <2>1. \A i \in Ids : heap[i] # None => heap[i].key \in Shards
    BY <1>2, MadeOfOthers
  <2>. QED BY <1>1, <2>1 DEF OneHandleEach
<1>. QED BY <1>3, <1>4

\* The main task, with transactions.
LEMMA MainKeepsPrefix ==
    ASSUME Base, HonestEverywhere, KeptWhenTold, OneHandleEach, ~ setup.hash, MainTask
    PROVE  HonestEverywhere' /\ KeptWhenTold'
<1>. USE NoneFacts
<1>1. UNCHANGED <<pc, goal, file, open>>
  BY MainMoves
<1>2. \A u \in Threads :
           \/ pc'[u] = pc[u] /\ goal'[u] = goal[u] /\ file'[u] = file[u]
           \/ pc'[u] = "idle"
           \/ goal'[u] = KeyOf[file'[u]] /\ (pc'[u] = "record" => Kept(file[u])')
  BY <1>1
<1>3. ASSUME NEW f \in Files, MarkCompleted(f) PROVE HonestEverywhere' /\ KeptWhenTold'
  <2>. DEFINE k == KeyOf[f]
              n == [heap[open[k]] EXCEPT !.done = @ \cup {f}]
  <2>1. /\ f \in results.ok /\ results'.ok \subseteq results.ok /\ k \in Shards
        /\ ledger' = [ledger EXCEPT ![f] = "Completed"] /\ ledgerSaved' = ledgerSaved
        /\ heap' = IF open[k] # None THEN [heap EXCEPT ![open[k]] = n] ELSE heap
        /\ disk' = disk \/ (open[k] # None /\ disk' = [disk EXCEPT ![k] = Logged(n)])
    BY <1>3, FilesHaveKeys DEF MarkCompleted, IsOpen, Base, TypeOK
  <2>2. Kept(f)
    BY <2>1 DEF KeptWhenTold
  <2>3. HonestEverywhere' /\ \A g \in Files : Kept(g) => Kept(g)'
    <3>1. CASE open[k] = None
      <4>1. disk' = disk /\ heap' = heap
        BY <2>1, <3>1
      <4>. QED BY <4>1, HonestQuiet
    <3>2. CASE open[k] # None
      <4>. DEFINE j == open[k]
      <4>1. /\ j \in Ids /\ heap[j] \in Handles /\ heap[j].key = k /\ disk[k] \in Images
            /\ heap[j] # None /\ disk[k] # None
        BY <2>1, <3>2, OpenHandle
      <4>2. /\ n \in Handles /\ n.key = heap[j].key /\ n.done = heap[j].done \cup {f}
            /\ n.cnt = heap[j].cnt
        BY <4>1, Written
      <4>3. heap' = [heap EXCEPT ![j] = n]
        BY <2>1, <3>2
      <4>. HIDE DEF n
      <4>4. Honest(heap[j]) /\ disk[k].done \subseteq heap[j].done /\ Honest(disk[k])
        BY <2>1, <4>1 DEF HonestEverywhere
      <4>5. f \in heap[j].done
        BY <2>2, <4>4 DEF Kept
      <4>6. Honest(n) /\ n.done = heap[j].done
        BY <4>2, <4>4, <4>5 DEF Honest
      <4>7. /\ Logged(n) \in Images /\ Logged(n).done = n.done /\ Logged(n).cnt = n.cnt
        BY <4>1, <4>2, MadeOfOthers DEF Logged
      <4>8. /\ \A l \in Shards \ {k} : disk'[l] = disk[l]
            /\ disk'[k] = disk[k] \/ disk'[k] = Logged(n)
            /\ disk'[k] # None
        BY <2>1, <4>1, <4>7 DEF Base, TypeOK
      <4>9. Honest(disk'[k]) /\ disk'[k].done \subseteq n.done
            /\ disk[k].done \subseteq disk'[k].done
        BY <4>4, <4>6, <4>7, <4>8 DEF Honest
      <4>10. heap' = heap => n = heap[j]
        BY <4>1, <4>3 DEF Base, TypeOK
      <4>11. \A i \in Ids : heap'[i] # None =>
              IF i = j THEN heap'[i] = n
              ELSE /\ heap[i] # None /\ heap'[i] = heap[i]
                   /\ disk'[heap[i].key] = disk[heap[i].key]
        <5>. HIDE DEF k
        <5>1. k \in Shards
          BY <2>1
        <5>. QED BY <3>2, <4>3, <4>8, <4>10, <5>1, MainWrites
      <4>. HIDE DEF j, k
      <4>12. n.key = k
        BY <4>1, <4>2
      <4>. QED BY <4>1, <4>2, <4>6, <4>8, <4>9, <4>11, <4>12, HonestWrite
    <3>. QED BY <3>1, <3>2
  <2>4. \A g \in Files : ledger'[g] = "Completed" => ledger[g] = "Completed" \/ Kept(g)'
    BY <2>1, <2>2, <2>3 DEF Base, TypeOK
  <2>. QED BY <1>2, <2>1, <2>3, <2>4, ToldStays
<1>4. ASSUME NEW k \in Shards, VisitShard(k) PROVE HonestEverywhere' /\ KeptWhenTold'
  <2>. DEFINE j == open[k]
              n == heap[j]
  <2>1. /\ UNCHANGED <<heap, results, ledger, ledgerSaved>> /\ open[k] # None
        /\ disk' = disk \/ disk' = [disk EXCEPT ![k] = Image(n)]
    BY <1>4 DEF VisitShard, cache, import, IsOpen
  <2>2. /\ j \in Ids /\ n \in Handles /\ n.key = k /\ disk[k] \in Images
        /\ n # None /\ disk[k] # None
    BY <2>1, OpenHandle
  <2>3. Honest(n) /\ disk[k].done \subseteq n.done /\ Honest(disk[k])
    BY <2>2 DEF HonestEverywhere
  <2>4. Image(n) \in Images /\ Image(n).done = n.done /\ Image(n).cnt = n.cnt
    BY <2>2, MadeOfOthers DEF Image
  <2>5. /\ \A l \in Shards \ {k} : disk'[l] = disk[l]
        /\ disk'[k] = disk[k] \/ disk'[k] = Image(n)
        /\ disk'[k] # None
    BY <2>1, <2>2, <2>4 DEF Base, TypeOK
  <2>6. \A i \in Ids : heap'[i] # None =>
              IF i = j THEN heap'[i] = n
              ELSE /\ heap[i] # None /\ heap'[i] = heap[i]
                   /\ disk'[heap[i].key] = disk[heap[i].key]
    BY <2>1, <2>5, MainWrites
  <2>. HIDE DEF n, j
  <2>7. Honest(disk'[k]) /\ disk'[k].done \subseteq n.done
            /\ disk[k].done \subseteq disk'[k].done
    BY <2>3, <2>4, <2>5 DEF Honest
  <2>8. HonestEverywhere' /\ \A g \in Files : Kept(g) => Kept(g)'
    BY <2>2, <2>3, <2>5, <2>6, <2>7, HonestWrite
  <2>. QED BY <1>2, <2>1, <2>8, ToldStays
<1>5. CASE \/ \E f \in Files : MarkFailed(f)
           \/ \E k \in Shards : SkipShard(k) \/ VisitFails(k)
           \/ StartCheckpoint \/ Publish \/ SaveLedger
  <2>1. HonestEverywhere' /\ \A g \in Files : Kept(g) => Kept(g)'
    BY <1>5, MainQuiet, HonestQuiet
  <2>2. /\ results'.ok = results.ok
        /\ \A f \in Files : ledger'[f] = "Completed" => ledger[f] = "Completed"
        /\ \A f \in Files : ledgerSaved'[f] = "Completed" =>
              ledgerSaved[f] = "Completed" \/ ledger[f] = "Completed"
    BY <1>5 DEF MarkFailed, SkipShard, VisitFails, StartCheckpoint, Publish, SaveLedger,
       durable, import, Base, TypeOK
  <2>. QED BY <1>2, <2>1, <2>2, ToldStays
<1>6. \A k \in Shards : ~ FlushShard(k)
  BY DEF FlushShard
<1>. QED BY <1>3, <1>4, <1>5, <1>6 DEF MainTask

\* The handles that a start opens.
LEMMA RestartOpens ==
    ASSUME Base, Restart
    PROVE  /\ \A k \in Shards : disk'[k] \in Survivors(k)
           /\ records' = Recovered(disk')
           /\ \A i \in Ids : heap'[i] # None =>
                 \E k \in Shards : disk'[k] \in Images /\ disk'[k] # None
                                   /\ heap'[i] = Loaded(k, disk'[k])
           /\ setup.cap = 0 => \A k \in Shards : disk'[k] # None =>
                 /\ open'[k] \in Ids /\ open'[k] # None
                 /\ disk'[k] \in Images /\ heap'[open'[k]] = Loaded(k, disk'[k])
<1>. USE NoneFacts
<1>1. PICK found \in [Shards -> UNION {Survivors(k) : k \in Shards}] :
         /\ \A k \in Shards : found[k] \in Survivors(k)
         /\ disk' = found
         /\ records' = Recovered(found)
         /\ \E order \in SetToSeqs({k \in Shards : found[k] # None}) :
               Reopened(found, order)
  BY DEF Restart
<1>2. found \in [Shards -> Images \cup {None}]
  BY <1>1, SurvivorsFacts
<1>. DEFINE S == {k \in Shards : found[k] # None}
<1>3. S \in SUBSET Shards /\ \A k \in Shards : k \in S <=> found[k] # None
  OBVIOUS
<1>4. \E order \in SetToSeqs(S) : Reopened(found, order)
  BY <1>1
<1>. HIDE DEF S
<1>5. PICK kept : OpensOnly(kept, S, found)
  BY <1>3, <1>4, ReopenedFacts
<1>6. Len(kept) \in Nat /\ \A i \in 1 .. Len(kept) : kept[i] \in S
  BY <1>5, ElementOfSeq DEF OpensOnly
<1>7. Ids \subseteq Nat \ {0}
  <2>1. Cardinality(Shards) \in Nat /\ Cardinality(Threads) \in Nat
    BY FinitelyMany, FS_CardinalityType
  <2>. QED BY <2>1 DEF Ids
<1>8. \A i \in Ids : heap'[i] # None =>
         i \in 1 .. Len(kept) /\ heap'[i] = Loaded(kept[i], found[kept[i]])
  <2>1. \A i \in Ids : i > Len(kept) \/ i \in 1 .. Len(kept)
    BY <1>6, <1>7
  <2>. QED BY <1>5, <1>6, <2>1 DEF OpensOnly
<1>9. \A i \in Ids : heap'[i] # None =>
         \E k \in Shards : found[k] \in Images /\ found[k] # None
                           /\ heap'[i] = Loaded(k, found[k])
  BY <1>2, <1>3, <1>6, <1>8
<1>10. ASSUME setup.cap = 0, NEW k \in Shards, found[k] # None
       PROVE  /\ open'[k] \in Ids /\ open'[k] # None
              /\ found[k] \in Images /\ heap'[open'[k]] = Loaded(k, found[k])
  <2>1. PICK i \in 1 .. Len(kept) : kept[i] = k
    BY <1>3, <1>5, <1>10 DEF OpensOnly
  <2>2. open'[k] = i /\ open'[k] \in Ids \cup {None} /\ i # None
    <3>1. i \in Nat
      BY <1>6
    <3>. QED BY <1>5, <2>1, <3>1, NoneIsNothing DEF OpensOnly
  <2>3. i \in Ids /\ ~ (i > Len(kept))
    BY <1>6, <2>2
  <2>4. heap'[i] = Loaded(kept[i], found[kept[i]])
    BY <1>5, <2>3 DEF OpensOnly
  <2>. QED BY <1>2, <1>10, <2>1, <2>2, <2>3, <2>4
<1>. QED BY <1>1, <1>9, <1>10

\* The start of a process, with transactions.
LEMMA RestartKeepsPrefix ==
    ASSUME Base, HonestEverywhere, KeptWhenTold, ~ setup.hash, Restart
    PROVE  HonestEverywhere' /\ KeptWhenTold'
<1>. USE NoneFacts
<1>1. \A k \in Shards : disk[k] # None =>
         /\ disk'[k] # None /\ Honest(disk'[k])
         /\ disk[k].done \subseteq disk'[k].done
  <2>. SUFFICES ASSUME NEW k \in Shards, disk[k] # None
                PROVE  /\ disk'[k] # None /\ Honest(disk'[k])
                       /\ disk[k].done \subseteq disk'[k].done
    OBVIOUS
  <2>. DEFINE image == disk'[k]
  <2>1. image \in Survivors(k)
    BY RestartOpens
  <2>2. CASE image = disk[k]
    BY <2>2 DEF HonestEverywhere
  <2>3. CASE image # disk[k]
    <3>1. PICK i \in Ids :
             /\ heap[i] \in Handles /\ heap[i].key = k /\ heap[i] # None
             /\ disk[k] \in Images
             /\ \/ image = Logged(heap[i])
                \/ image = [Logged(heap[i]) EXCEPT !.done = disk[k].done]
      <4>. HIDE DEF image
      <4>. QED BY <2>1, <2>3, SurvivorsFacts
    <3>2. /\ Logged(heap[i]) \in Images
          /\ Logged(heap[i]).cnt = heap[i].cnt /\ Logged(heap[i]).done = heap[i].done
      BY <3>1, MadeOfOthers DEF Logged
    <3>3. /\ disk'[k].cnt = heap[i].cnt /\ disk'[k] \in Images
          /\ disk'[k].done = heap[i].done \/ disk'[k].done = disk[k].done
      BY <3>1, <3>2 DEF Images
    <3>4. Honest(heap[i]) /\ disk[k].done \subseteq heap[i].done
      BY <3>1 DEF HonestEverywhere
    <3>. QED BY <3>3, <3>4 DEF Honest
  <2>. QED BY <2>2, <2>3
<1>2. \A k \in Shards : disk[k] = None => disk'[k] = None
  <2>. SUFFICES ASSUME NEW k \in Shards, disk[k] = None, disk'[k] # None PROVE FALSE
    OBVIOUS
  <2>1. disk'[k] \in Survivors(k)
    BY RestartOpens
  <2>. QED BY <2>1, SurvivorsFacts
<1>3. \A k \in Shards : disk'[k] # None => Honest(disk'[k])
  BY <1>1, <1>2
<1>4. \A i \in Ids : heap'[i] # None =>
         Honest(heap'[i]) /\ disk'[heap'[i].key].done \subseteq heap'[i].done
  <2>. SUFFICES ASSUME NEW i \in Ids, heap'[i] # None
                PROVE  Honest(heap'[i]) /\ disk'[heap'[i].key].done \subseteq heap'[i].done
    OBVIOUS
  <2>1. PICK k \in Shards : disk'[k] # None /\ heap'[i] = Loaded(k, disk'[k])
    BY RestartOpens
  <2>2. /\ heap'[i].key = k /\ heap'[i].cnt = disk'[k].cnt
        /\ heap'[i].done = disk'[k].done
    BY <2>1 DEF Loaded
  <2>. QED BY <1>3, <2>1, <2>2 DEF Honest
<1>5. HonestEverywhere'
  BY <1>3, <1>4 DEF HonestEverywhere, Honest
<1>6. \A f \in Files : Kept(f) => Kept(f)'
  BY <1>1, FilesHaveKeys DEF Kept
<1>7. /\ results'.ok = {} /\ ledgerSaved' = ledgerSaved
      /\ \A t \in Threads : pc'[t] = "idle"
      /\ \A f \in Files : ledger'[f] = "Completed" => ledgerSaved[f] = "Completed"
  BY DEF Restart, Reconciled
<1>8. \A f \in Files : ledger'[f] = "Completed" => Kept(f)'
  BY <1>6, <1>7 DEF KeptWhenTold
<1>. QED BY <1>5, <1>6, <1>7, <1>8, ToldStays

LEMMA PrefixStep ==
    ASSUME Base, OneInv, PrefixInv, [Next]_vars
    PROVE  PrefixInv'
<1>. SUFFICES ASSUME EvictsAlone(setup), ~ setup.hash
              PROVE  HonestEverywhere' /\ KeptWhenTold'
  BY SetupStays DEF PrefixInv
<1>1. HonestEverywhere /\ KeptWhenTold
  BY DEF PrefixInv
<1>2. OneHandleEach
  BY OneInvMeans
<1>3. CASE UNCHANGED vars
  BY <1>1, <1>3 DEF vars, cache, durable, work, import, HonestEverywhere, Honest,
     KeptWhenTold, Kept
<1>4. ASSUME NEW t \in Threads, Worker(t) PROVE HonestEverywhere' /\ KeptWhenTold'
  BY <1>1, <1>2, <1>4, LookingKeepsPrefix, WorkingKeepsPrefix
<1>. QED BY <1>1, <1>2, <1>3, <1>4, MainKeepsPrefix, RestartKeepsPrefix DEF Next

LEMMA InitPrefix ==
    ASSUME Init PROVE PrefixInv
<1>1. HonestEverywhere
  BY DEF Init, HonestEverywhere
<1>2. KeptWhenTold
  BY DEF Init, KeptWhenTold
<1>. QED BY <1>1, <1>2 DEF PrefixInv

\* With transactions, a shard file that records a prefix as complete has all
\* its n-grams, if no shard is evicted or a single worker works.
THEOREM RecordedPrefixIsWhole == Spec => []CompletedPrefixIsWhole
<1>1. Init => Base /\ OneInv /\ PrefixInv
  BY InitBase, InitOne, InitPrefix
<1>2. Base /\ OneInv /\ PrefixInv /\ [Next]_vars => (Base /\ OneInv /\ PrefixInv)'
  BY NextBase, OneStep, PrefixStep
<1>3. Base /\ PrefixInv => CompletedPrefixIsWhole
  BY DEF Base, TypeOK, PrefixInv, HonestEverywhere, Honest, CompletedPrefixIsWhole
<1>. QED BY <1>1, <1>2, <1>3, PTL DEF Spec

---------------------------------------------------------------------------
(* Hashed n-grams without a limit: what the ledger counts on. *)

\* A handle has at least what the file of its shard has, and no more while it
\* is clean.
Follows(h, d) ==
    /\ d.done \subseteq h.done
    /\ \A f \in Files : d.cnt[f] \in Whole => h.cnt[f] \in Whole
    /\ ~ h.dirty => \A f \in Files :
          /\ h.cnt[f] \in Whole => d.cnt[f] \in Whole
          /\ f \in h.done /\ h.key = KeyOf[f] /\ h.key \in Targets(f) => f \in d.done

FilesFollow == \A i \in Ids : heap[i] # None => Follows(heap[i], disk[heap[i].key])

\* The open shard has the counts of the file, not yet written maybe; it knows
\* of a file it is the key shard of; the disk does.
HasNew(k, f) == open[k] # None /\ heap[open[k]].cnt[f] \in Whole /\ heap[open[k]].dirty
Finished(k, f) ==
    /\ open[k] # None /\ heap[open[k]].cnt[f] \in Whole
    /\ k = KeyOf[f] => f \in heap[open[k]].done
OnDisk(k, f) ==
    /\ disk[k] # None /\ disk[k].cnt[f] \in Whole
    /\ k = KeyOf[f] => f \in disk[k].done

\* A worker has counted its file in the shards that it is through with.
Counting(t) ==
    /\ pc[t] # "record"
    /\ pc[t] # "idle" =>
          /\ left[t] \subseteq Targets(file[t]) /\ goal[t] \in left[t]
          /\ \A k \in Targets(file[t]) \ left[t] : HasNew(k, file[t])

WorkCounted ==
    /\ \A t \in Threads : Counting(t)
    /\ \A f \in results.ok : \A k \in Targets(f) : HasNew(k, f)

\* Has the checkpoint of the main task been through with shard k?
Through(k) == main = "ledger" \/ (main = "visit" /\ k \notin todo)

LedgerCounted ==
    \A f \in Files :
       /\ ledger[f] = "Completed" => \A k \in Targets(f) :
             Finished(k, f) /\ (Through(k) => OnDisk(k, f))
       /\ ledgerSaved[f] = "Completed" => \A k \in Targets(f) : OnDisk(k, f)

HashInv ==
    setup.hash /\ setup.cap = 0 => FilesFollow /\ WorkCounted /\ LedgerCounted

\* What is counted stays so in a step.
CountsStay ==
    \A k \in Shards, f \in Files :
       /\ HasNew(k, f) => HasNew(k, f)'
       /\ Finished(k, f) => Finished(k, f)'
       /\ OnDisk(k, f) => OnDisk(k, f)'

\* A step that writes a handle and the file of its shard, and takes nothing
\* from either.
LEMMA HashWrite ==
    ASSUME Base, Base', FilesFollow, setup' = setup, NEW j \in Ids, NEW n \in Handles,
           \A i \in Ids : heap'[i] # None =>
              IF i = j THEN heap'[i] = n
              ELSE /\ heap[i] # None /\ heap'[i] = heap[i]
                   /\ disk'[heap[i].key] = disk[heap[i].key],
           heap[j] # None => /\ \A f \in Files : heap[j].cnt[f] \in Whole => n.cnt[f] \in Whole
                             /\ heap[j].done \subseteq n.done
                             /\ heap[j].dirty => n.dirty,
           \A k \in Shards : open[k] # None => open'[k] = open[k],
           \A k \in Shards \ {n.key} : disk'[k] = disk[k],
           disk[n.key] # None =>
              /\ disk'[n.key] # None /\ disk[n.key].done \subseteq disk'[n.key].done
              /\ \A f \in Files : disk[n.key].cnt[f] \in Whole => disk'[n.key].cnt[f] \in Whole,
           Follows(n, disk'[n.key])
    PROVE  FilesFollow' /\ CountsStay
<1>. USE NoneFacts
<1>1. \A h, d : Follows(h, d)' <=> Follows(h, d)
  BY DEF Follows, Targets
<1>2. FilesFollow'
  <2>1. \A i \in Ids : heap'[i] # None => Follows(heap'[i], disk'[heap'[i].key])
    BY DEF FilesFollow
  <2>. QED BY <2>1 DEF FilesFollow, Follows, Targets
<1>3. \A k \in Shards : open[k] # None =>
         /\ open'[k] = open[k] /\ heap'[open[k]] # None /\ open[k] \in Ids
         /\ heap[open[k]] # None
  <2>1. \A k \in Shards : open'[k] # None => heap'[open'[k]] # None
    <3>1. \A k \in Shards : open'[k] # None => open'[k] \in Live(open', arc', evicted')
      BY DEF Live
    <3>. QED BY <3>1 DEF Base, References
  <2>. QED BY <2>1, OpenHandle
<1>4. \A k \in Shards : open[k] # None =>
         LET h == heap[open[k]]
             m == heap'[open'[k]] IN
         /\ \A f \in Files : h.cnt[f] \in Whole => m.cnt[f] \in Whole
         /\ h.done \subseteq m.done /\ (h.dirty => m.dirty)
  BY <1>3
<1>5. \A k \in Shards : disk[k] # None =>
         /\ disk'[k] # None /\ disk[k].done \subseteq disk'[k].done
         /\ \A f \in Files : disk[k].cnt[f] \in Whole => disk'[k].cnt[f] \in Whole
  OBVIOUS
<1>6. CountsStay
  BY <1>3, <1>4, <1>5 DEF CountsStay, HasNew, Finished, OnDisk
<1>. QED BY <1>2, <1>6

\* A step that writes nothing.
LEMMA HashQuiet ==
    ASSUME Base, Base', FilesFollow, setup' = setup, disk' = disk,
           \A i \in Ids : heap'[i] # None => heap'[i] = heap[i],
           \A k \in Shards : open[k] # None => open'[k] = open[k]
    PROVE  FilesFollow' /\ CountsStay
<1>. USE NoneFacts
<1>1. FilesFollow'
  BY DEF FilesFollow, Follows, Targets
<1>2. \A k \in Shards : open[k] # None => heap'[open'[k]] = heap[open[k]]
  <2>1. \A k \in Shards : open'[k] # None => heap'[open'[k]] # None
    <3>1. \A k \in Shards : open'[k] # None => open'[k] \in Live(open', arc', evicted')
      BY DEF Live
    <3>. QED BY <3>1 DEF Base, References
  <2>. QED BY <2>1, OpenHandle
<1>3. CountsStay
  BY <1>2 DEF CountsStay, HasNew, Finished, OnDisk
<1>. QED BY <1>1, <1>3

LEMMA WorkStays ==
    ASSUME Base, WorkCounted, CountsStay, setup' = setup,
           \A f \in results'.ok : f \in results.ok \/ \A k \in Targets(f) : HasNew(k, f)',
           \A u \in Threads :
              \/ /\ goal'[u] = goal[u] /\ file'[u] = file[u] /\ left'[u] = left[u]
                 /\ pc'[u] = pc[u] \/ (pc[u] # "idle" /\ pc'[u] # "record")
              \/ Counting(u)'
    PROVE  WorkCounted'
<1>1. \A f \in Files : Targets(f)' = Targets(f) /\ Targets(f) \subseteq Shards
  BY SetupFacts DEF Base, Targets
<1>2. \A f \in results'.ok : \A k \in Targets(f)' : HasNew(k, f)'
  <2>. SUFFICES ASSUME NEW f \in results'.ok, f \in results.ok, NEW k \in Targets(f)'
                PROVE  HasNew(k, f)'
    BY DEF Targets
  <2>1. f \in Files
    BY DEF Base, TypeOK
  <2>2. k \in Targets(f) /\ k \in Shards
    BY <1>1, <2>1
  <2>3. HasNew(k, f)
    BY <2>2 DEF WorkCounted
  <2>. QED BY <2>1, <2>2, <2>3 DEF CountsStay
<1>3. ASSUME NEW u \in Threads,
             goal'[u] = goal[u] /\ file'[u] = file[u] /\ left'[u] = left[u],
             pc'[u] = pc[u] \/ (pc[u] # "idle" /\ pc'[u] # "record")
      PROVE  Counting(u)'
  <2>1. Counting(u)
    BY DEF WorkCounted
  <2>2. CASE pc'[u] = "idle"
    BY <2>2 DEF Counting
  <2>3. CASE pc'[u] # "idle"
    <3>1. pc[u] # "idle" /\ file[u] \in Files
      BY <1>3, <2>3 DEF Base, Places, TypeOK
    <3>2. Targets(file[u])' = Targets(file[u]) /\ Targets(file[u]) \subseteq Shards
      BY <1>1, <1>3, <3>1 DEF Targets
    <3>3. \A k \in Targets(file[u]) \ left[u] : HasNew(k, file[u])'
      <4>. SUFFICES ASSUME NEW k \in Targets(file[u]) \ left[u] PROVE HasNew(k, file[u])'
        OBVIOUS
      <4>1. HasNew(k, file[u]) /\ k \in Shards
        BY <2>1, <3>1, <3>2 DEF Counting
      <4>. QED BY <1>3, <3>1, <4>1 DEF CountsStay, HasNew
    <3>. QED BY <1>3, <2>1, <3>1, <3>2, <3>3 DEF Counting
  <2>. QED BY <2>2, <2>3
<1>. QED BY <1>2, <1>3 DEF WorkCounted

\* What a step needs to keep for LedgerCounted.
LEMMA LedgerStays ==
    ASSUME Base, LedgerCounted, CountsStay, setup' = setup,
           \A f \in Files : ledger'[f] = "Completed" =>
              ledger[f] = "Completed" \/ \A k \in Targets(f) : Finished(k, f)',
           \A f \in Files : ledger'[f] = "Completed" => \A k \in Targets(f) :
              Through(k)' => (ledger[f] = "Completed" /\ Through(k)) \/ OnDisk(k, f)',
           \A f \in Files : ledgerSaved'[f] = "Completed" =>
              ledgerSaved[f] = "Completed" \/ \A k \in Targets(f) : OnDisk(k, f)
    PROVE  LedgerCounted'
<1>1. \A f \in Files : Targets(f)' = Targets(f) /\ Targets(f) \subseteq Shards
  BY SetupFacts DEF Base, Targets
<1>2. ASSUME NEW f \in Files, ledger'[f] = "Completed", NEW k \in Targets(f)'
      PROVE  Finished(k, f)' /\ (Through(k)' => OnDisk(k, f)')
  <2>1. k \in Targets(f) /\ k \in Shards
    BY <1>1
  <2>2. Finished(k, f)'
    BY <1>2, <2>1 DEF LedgerCounted, CountsStay
  <2>3. Through(k)' => OnDisk(k, f)'
    BY <1>2, <2>1 DEF LedgerCounted, CountsStay
  <2>. QED BY <2>2, <2>3
<1>3. ASSUME NEW f \in Files, ledgerSaved'[f] = "Completed", NEW k \in Targets(f)'
      PROVE  OnDisk(k, f)'
  BY <1>1, <1>3 DEF LedgerCounted, CountsStay
<1>. QED BY <1>2, <1>3 DEF LedgerCounted

\* The steps of get_or_create_shard, with hashed n-grams and no limit.
LEMMA LookingKeepsHash ==
    ASSUME Base, Base', OneInv, FilesFollow, WorkCounted, LedgerCounted,
           setup.cap = 0, NEW t \in Threads, GetOrCreate(t)
    PROVE  FilesFollow' /\ WorkCounted' /\ LedgerCounted'
<1>. USE NoneFacts
<1>1. /\ UNCHANGED <<setup, ledger, ledgerSaved, results, goal, file, left, main, todo>>
      /\ \A u \in Threads \ {t} : pc'[u] = pc[u]
      /\ goal[t] \in Shards
  BY LookingMoves
<1>2. pc[t] # "idle" /\ pc'[t] # "record"
  BY DEF GetOrCreate, FastPath, SlowPath, FoundAfterAll, StartCreating, NoEviction,
     PeekLru, RemoveVictim, SaveVictim, PopLru, OpenOrCreate, InsertShard, TouchNew,
     Goto, Base, TypeOK
<1>3. SUFFICES FilesFollow' /\ CountsStay
  <2>1. \A u \in Threads :
              \/ /\ goal'[u] = goal[u] /\ file'[u] = file[u] /\ left'[u] = left[u]
                 /\ pc'[u] = pc[u] \/ (pc[u] # "idle" /\ pc'[u] # "record")
              \/ Counting(u)'
    BY <1>1, <1>2
  <2>2. WorkCounted'
    BY <1>1, <1>3, <2>1, WorkStays
  <2>3. LedgerCounted'
    BY <1>1, <1>3, LedgerStays DEF Through
  <2>. QED BY <1>3, <2>2, <2>3
<1>4. ~ RemoveVictim(t) /\ ~ SaveVictim(t)
  BY DEF RemoveVictim, SaveVictim, Goto, Base, Places
<1>5. \A k \in Shards : open[k] # None => open'[k] = open[k]
  <2>1. CASE InsertShard(t)
    <3>1. pc[t] = "insert" /\ open' = [open EXCEPT ![goal[t]] = arc[t]]
      BY <2>1 DEF InsertShard, Goto
    <3>2. open[goal[t]] = None
      BY <3>1 DEF OneInv, CreatesAlone, Creating
    <3>. QED BY <3>1, <3>2 DEF Base, TypeOK
  <2>2. CASE ~ InsertShard(t)
    BY <1>4, <2>2 DEF GetOrCreate, FastPath, SlowPath, FoundAfterAll, TakeArc,
       StartCreating, NoEviction, PeekLru, PopLru, OpenOrCreate, TouchNew, cache
  <2>. QED BY <2>1, <2>2
<1>6. CASE ~ OpenOrCreate(t)
  BY <1>1, <1>4, <1>5, <1>6, LookingQuiet, HashQuiet
<1>7. CASE OpenOrCreate(t)
  <2>. DEFINE k == goal[t]
              image == IF disk[k] = None THEN NewShard ELSE disk[k]
              j == FreeId
              n == Loaded(k, image)
  <2>1. /\ heap' = Closed([heap EXCEPT ![j] = n], Live(open', arc', evicted'))
        /\ disk' = [disk EXCEPT ![k] = image] /\ evicted[t] = None
    BY <1>7 DEF OpenOrCreate, Goto, Base, Places
  <2>2. j \in Ids /\ heap[j] = None
    BY <2>1, FreeIdIsFree
  <2>3. image \in Images /\ n \in Handles /\ n.key = k
    BY <1>1, MadeOfOthers DEF Base, TypeOK
  <2>4. n.done = image.done /\ n.cnt = image.cnt
    BY DEF Loaded
  <2>5. disk[k] # None => image = disk[k]
    OBVIOUS
  <2>6. heap \in [Ids -> Handles \cup {None}] /\ disk \in [Shards -> Images \cup {None}]
    BY DEF Base, TypeOK
  <2>7. \A i \in Ids : heap[i] # None => heap[i].key \in Shards /\ disk[heap[i].key] # None
    BY <2>6, MadeOfOthers DEF Base, References
  <2>. HIDE DEF n, j, image
  <2>8. \A l \in Shards : disk[l] # None => disk'[l] = disk[l]
    BY <2>1, <2>5, <2>6
  <2>9. \A i \in Ids : heap'[i] # None =>
              IF i = j THEN heap'[i] = n
              ELSE /\ heap[i] # None /\ heap'[i] = heap[i]
                   /\ disk'[heap[i].key] = disk[heap[i].key]
    <3>1. \A i \in Ids : heap'[i] # None => heap'[i] = IF i = j THEN n ELSE heap[i]
      BY <2>1, <2>6 DEF Closed
    <3>. QED BY <2>7, <2>8, <3>1
  <2>10. /\ \A l \in Shards \ {n.key} : disk'[l] = disk[l]
         /\ disk'[n.key] = image /\ image # None
    BY <1>1, <2>1, <2>3, <2>6
  <2>11. Follows(n, disk'[n.key])
    BY <2>4, <2>10 DEF Follows
  <2>12. n.key \in Shards /\ (disk[n.key] # None => disk'[n.key] = disk[n.key])
    BY <1>1, <2>3, <2>8
  <2>. QED BY <1>1, <1>5, <2>2, <2>3, <2>9, <2>10, <2>11, <2>12, HashWrite
<1>. QED BY <1>6, <1>7

\* The other steps of a worker.
LEMMA WorkingKeepsHash ==
    ASSUME Base, Base', OneHandleEach, HoldsWhatIsOpen, FilesFollow, WorkCounted,
           LedgerCounted, setup.hash, NEW t \in Threads, Worker(t), ~ GetOrCreate(t)
    PROVE  FilesFollow' /\ WorkCounted' /\ LedgerCounted'
<1>. USE NoneFacts
<1>1. /\ UNCHANGED <<setup, open, evicted>>
      /\ \A u \in Threads \ {t} : pc'[u] = pc[u] /\ goal'[u] = goal[u]
                                  /\ file'[u] = file[u] /\ left'[u] = left[u]
  BY WorkingMoves
<1>2. UNCHANGED <<ledger, ledgerSaved, main, todo>>
  BY DEF Worker, StartFile, Increment, CommitChunk, CommitPrefix, durable, import,
     saving, CommitPrefixPersistFails, RecordPrefix, FailFile
<1>3. CountsStay => LedgerCounted'
  BY <1>1, <1>2, LedgerStays DEF Through
<1>4. /\ pc[t] # "idle" => file[t] \in Files
      /\ pc[t] = "have" => arc[t] # None
  BY DEF Base, Places, TypeOK
<1>5. \A f \in Files : Targets(f)' = Targets(f)
  BY <1>1 DEF Targets
<1>6. ASSUME NEW f \in Files, StartFile(t, f)
      PROVE  FilesFollow' /\ WorkCounted' /\ LedgerCounted'
  <2>1. FilesFollow' /\ CountsStay
    BY <1>1, <1>6, WorkingQuiet, HashQuiet
  <2>2. results' = results /\ file'[t] = f /\ pc'[t] = "want" /\ Ask(t, f)
    BY <1>6 DEF StartFile, Goto, Base, TypeOK
  <2>3. Counting(t)'
    BY <1>5, <2>2, AskKeeps DEF Counting
  <2>4. WorkCounted'
    BY <1>1, <2>1, <2>2, <2>3, WorkStays
  <2>. QED BY <1>3, <2>1, <2>4
<1>7. CASE FailFile(t)
  <2>1. FilesFollow' /\ CountsStay
    BY <1>1, <1>7, WorkingQuiet, HashQuiet
  <2>2. pc[t] = "have" /\ results'.ok = results.ok
    BY <1>7 DEF FailFile, Ends, Base, TypeOK
  <2>3. Counting(t)'
    <3>1. CASE pc'[t] = "idle"
      BY <3>1 DEF Counting
    <3>2. CASE pc'[t] # "idle"
      <4>1. Ask(t, file[t]) /\ pc'[t] = "want" /\ file' = file
        BY <1>7, <3>2 DEF FailFile, Ends, Goto, Base, TypeOK
      <4>. QED BY <1>4, <1>5, <2>2, <4>1, AskKeeps DEF Counting
    <3>. QED BY <3>1, <3>2
  <2>4. WorkCounted'
    BY <1>1, <2>1, <2>2, <2>3, WorkStays
  <2>. QED BY <1>3, <2>1, <2>4
<1>8. CASE Increment(t)
  <2>. PICK f \in Files, g \in Shards : f = file[t] /\ g = goal[t]
    <3>1. pc[t] = "have"
      BY <1>8 DEF Increment
    <3>. QED BY <1>4, <3>1, HeldHandle
  <2>. DEFINE j == arc[t]
              n == [heap[j] EXCEPT !.cnt[f] = More(@), !.dirty = TRUE]
              h == [heap EXCEPT ![j] = n]
  <2>1. /\ pc[t] = "have" /\ disk' = disk
        /\ heap' = Closed(h, Live(open', arc', evicted'))
    BY <1>1, <1>8 DEF Increment, durable
  <2>2. /\ j \in Ids /\ heap[j] \in Handles /\ heap[j] # None /\ heap[j].key = g
        /\ disk[g] # None /\ f \in Files /\ g \in Shards /\ j # None
    BY <1>4, <2>1, HeldHandle
  <2>3. open[g] = j
    BY <2>1, <2>2 DEF HoldsWhatIsOpen
  <2>4. /\ n \in Handles /\ n.key = heap[j].key /\ n.done = heap[j].done /\ n.dirty
        /\ n.cnt = [heap[j].cnt EXCEPT ![f] = More(heap[j].cnt[f])]
    BY <2>2, Counted
  <2>5. heap[j].cnt \in [Files -> Contents] /\ \A c : More(c) \in Whole
    BY <2>2 DEF Handles, More, Whole
  <2>. HIDE DEF n
  <2>6. n.key = g
    BY <2>2, <2>4
  <2>7. /\ n.cnt[f] \in Whole
        /\ \A e \in Files : heap[j].cnt[e] \in Whole => n.cnt[e] \in Whole
    BY <2>2, <2>4, <2>5
  <2>8. \A i \in Ids : heap'[i] # None =>
              IF i = j THEN heap'[i] = n
              ELSE /\ heap[i] # None /\ heap'[i] = heap[i]
                   /\ disk'[heap[i].key] = disk[heap[i].key]
    <3>1. n.key = goal[t] /\ arc[t] # None
      BY <2>2, <2>6
    <3>2. h = [heap EXCEPT ![arc[t]] = n] /\ \A k \in Shards : disk'[k] = disk[k]
      BY <2>1
    <3>3. heap' = Closed(h, Live(open', arc', evicted'))
      BY <2>1
    <3>4. n \in Handles
      BY <2>4
    <3>. HIDE DEF h
    <3>. QED BY ONLY Base, OneHandleEach, <3>1, <3>2, <3>3, <3>4, WorkerWrites
  <2>9. Follows(n, disk'[n.key])
    <3>1. Follows(heap[j], disk[g])
      BY <2>2 DEF FilesFollow
    <3>. QED BY <2>1, <2>4, <2>6, <2>7, <3>1 DEF Follows
  <2>10. FilesFollow' /\ CountsStay
    <3>1. disk[n.key] # None
      BY <2>2, <2>6
    <3>. HIDE DEF j
    <3>. QED BY <1>1, <2>1, <2>2, <2>4, <2>7, <2>8, <2>9, <3>1, HashWrite
  <2>11. HasNew(g, f)'
    <3>1. open'[g] = j
      BY <1>1, <2>3
    <3>2. heap'[j] # None
      <4>1. j \in Live(open', arc', evicted')
        BY <2>2, <3>1 DEF Live
      <4>. QED BY <4>1 DEF Base, References
    <3>3. heap'[j] = n
      BY <2>2, <2>8, <3>2
    <3>. QED BY <2>2, <2>4, <2>7, <3>1, <3>3 DEF HasNew
  <2>12. Counting(t) /\ Targets(f) \subseteq Shards
    BY <2>2, SetupFacts DEF WorkCounted, Base
  <2>13. \A k \in Targets(f) \ (left[t] \ {g}) : HasNew(k, f)'
    <3>. SUFFICES ASSUME NEW k \in Targets(f) \ (left[t] \ {g}), k # g
                  PROVE  HasNew(k, f)'
      BY <2>11
    <3>1. HasNew(k, f) /\ k \in Shards
      BY <2>1, <2>12 DEF Counting
    <3>. QED BY <2>2, <2>10, <3>1 DEF CountsStay, HasNew
  <2>14. CASE left[t] \ {g} # {}
    <3>. DEFINE rest == left[t] \ {g}
                k == CHOOSE l \in rest : TRUE
    <3>1. k \in rest /\ rest \subseteq Targets(f)
      BY <2>1, <2>12, <2>14 DEF Counting
    <3>2. /\ pc'[t] = "want" /\ left'[t] = rest /\ goal'[t] = k
          /\ UNCHANGED <<file, results>>
      BY <1>8, <2>14 DEF Increment, Base, TypeOK
    <3>. HIDE DEF k, rest
    <3>3. \A l \in Targets(f) \ rest : HasNew(l, f)'
      BY <2>13 DEF rest
    <3>4. Counting(t)'
      BY <1>5, <2>2, <3>1, <3>2, <3>3 DEF Counting, HasNew
    <3>5. WorkCounted'
      BY <1>1, <2>10, <3>2, <3>4, WorkStays
    <3>. QED BY <1>3, <2>10, <3>5
  <2>15. CASE left[t] \ {g} = {}
    <3>1. Ends(t, "ok")
      BY <1>8, <2>15 DEF Increment
    <3>2. pc'[t] = "idle" /\ results'.ok = results.ok \cup {f}
      BY <3>1 DEF Ends, Base, TypeOK
    <3>3. Counting(t)'
      BY <3>2 DEF Counting
    <3>4. \A e \in results'.ok : e \in results.ok \/ \A k \in Targets(e) : HasNew(k, e)'
      BY <2>13, <2>15, <3>2
    <3>5. WorkCounted'
      BY <1>1, <2>10, <3>3, <3>4, WorkStays
    <3>. QED BY <1>3, <2>10, <3>5
  <2>. QED BY <2>14, <2>15
<1>9. ~ CommitChunk(t) /\ ~ CommitPrefix(t) /\ ~ CommitPrefixPersistFails(t)
  BY DEF CommitChunk, CommitPrefix, CommitPrefixPersistFails
<1>10. ~ RecordPrefix(t)
  BY DEF RecordPrefix, WorkCounted, Counting
<1>. QED BY <1>6, <1>7, <1>8, <1>9, <1>10 DEF Worker

\* The main task.
LEMMA MainKeepsHash ==
    ASSUME Base, Base', OneHandleEach, FilesFollow, WorkCounted, LedgerCounted,
           setup.hash, MainTask
    PROVE  FilesFollow' /\ WorkCounted' /\ LedgerCounted'
<1>. USE NoneFacts
<1>1. UNCHANGED <<setup, open, pc, goal, file, left>>
  BY MainMoves
<1>2. ASSUME CountsStay, results'.ok \subseteq results.ok PROVE WorkCounted'
  BY <1>1, <1>2, WorkStays
<1>3. \A f \in Files : Targets(f) \subseteq Shards
  BY SetupFacts DEF Base
<1>4. ASSUME NEW f \in Files, MarkFailed(f)
      PROVE  FilesFollow' /\ WorkCounted' /\ LedgerCounted'
  <2>1. FilesFollow' /\ CountsStay
    BY <1>1, <1>4, MainQuiet, HashQuiet
  <2>2. /\ main = "idle" /\ main' = main /\ ledgerSaved' = ledgerSaved
        /\ results'.ok = results.ok
        /\ \A g \in Files : ledger'[g] = "Completed" => ledger[g] = "Completed"
    BY <1>4 DEF MarkFailed, durable, saving, Base, TypeOK
  <2>3. LedgerCounted'
    BY <1>1, <2>1, <2>2, LedgerStays DEF Through
  <2>. QED BY <1>2, <2>1, <2>2, <2>3
<1>5. CASE StartCheckpoint \/ Publish \/ SaveLedger
           \/ \E k \in Shards : SkipShard(k) \/ VisitFails(k)
  <2>1. FilesFollow' /\ CountsStay
    BY <1>1, <1>5, MainQuiet, HashQuiet
  <2>2. ledger' = ledger /\ results' = results
    BY <1>5 DEF StartCheckpoint, Publish, SaveLedger, SkipShard, VisitFails, import
  <2>3. \A f \in Files : ledger[f] = "Completed" =>
           \A k \in Targets(f) : Through(k)' => Through(k)
    <3>. SUFFICES ASSUME NEW f \in Files, ledger[f] = "Completed",
                         NEW k \in Targets(f), Through(k)'
                  PROVE  Through(k)
      OBVIOUS
    <3>1. open[k] # None /\ k \in Shards
      BY <1>3 DEF LedgerCounted, Finished
    <3>2. k \in OpenKeys
      BY <3>1 DEF OpenKeys, IsOpen
    <3>. QED BY <1>5, <3>1, <3>2 DEF Through, StartCheckpoint, Publish, SaveLedger,
                 SkipShard, VisitFails, Visited, IsOpen
  <2>4. \A f \in Files : ledgerSaved'[f] = "Completed" =>
           ledgerSaved[f] = "Completed" \/ \A k \in Targets(f) : OnDisk(k, f)
    BY <1>5 DEF StartCheckpoint, Publish, SaveLedger, SkipShard, VisitFails, durable,
       LedgerCounted, Through
  <2>5. LedgerCounted'
    BY <1>1, <2>1, <2>2, <2>3, <2>4, LedgerStays
  <2>. QED BY <1>2, <2>1, <2>2, <2>5
<1>6. ASSUME NEW k \in Shards, FlushShard(k) \/ VisitShard(k)
      PROVE  FilesFollow' /\ WorkCounted' /\ LedgerCounted'
  <2>. DEFINE j == open[k]
              n == heap[j]
  <2>1. /\ UNCHANGED <<heap, results, ledger, ledgerSaved, main>> /\ open[k] # None
        /\ \/ /\ disk' = [disk EXCEPT ![k].cnt = n.cnt] /\ main = "idle"
           \/ /\ disk' = IF n.dirty THEN [disk EXCEPT ![k] = Image(n)] ELSE disk
              /\ main = "visit" /\ todo' = todo \ {k}
    BY <1>6 DEF FlushShard, VisitShard, Visited, cache, import, saving, IsOpen
  <2>2. /\ j \in Ids /\ n \in Handles /\ n.key = k /\ disk[k] \in Images
        /\ n # None /\ disk[k] # None
    BY <2>1, OpenHandle
  <2>3. Follows(n, disk[k])
    BY <2>2 DEF FilesFollow
  <2>4. Image(n) \in Images /\ Image(n).done = n.done /\ Image(n).cnt = n.cnt
    BY <2>2, MadeOfOthers DEF Image
  <2>5. \A l \in Shards \ {k} : disk'[l] = disk[l]
    BY <2>1 DEF Base, TypeOK
  <2>6. \/ disk'[k].cnt = n.cnt /\ disk'[k].done = disk[k].done /\ main = "idle"
        \/ disk'[k] = disk[k] /\ ~ n.dirty /\ main = "visit" /\ todo' = todo \ {k}
        \/ /\ disk'[k].cnt = n.cnt /\ disk'[k].done = n.done
           /\ main = "visit" /\ todo' = todo \ {k}
    <3>1. disk \in [Shards -> Images \cup {None}]
      BY DEF Base, TypeOK
    <3>2. CASE disk' = [disk EXCEPT ![k].cnt = n.cnt] /\ main = "idle"
      <4>. HIDE DEF n
      <4>. QED BY <2>2, <3>1, <3>2 DEF Images
    <3>3. CASE /\ disk' = IF n.dirty THEN [disk EXCEPT ![k] = Image(n)] ELSE disk
               /\ main = "visit" /\ todo' = todo \ {k}
      <4>. HIDE DEF n
      <4>. QED BY <2>4, <3>1, <3>3
    <3>. QED BY <2>1, <3>2, <3>3
  <2>7. disk'[k] # None
    <3>1. j \in Ids /\ heap'[j] # None /\ heap'[j].key = k
      BY <2>1, <2>2
    <3>. QED BY <3>1 DEF Base, References
  <2>8. \A i \in Ids : heap'[i] # None =>
              IF i = j THEN heap'[i] = n
              ELSE /\ heap[i] # None /\ heap'[i] = heap[i]
                   /\ disk'[heap[i].key] = disk[heap[i].key]
    BY <2>1, <2>5, MainWrites
  <2>. HIDE DEF n, j
  <2>9. Follows(n, disk'[k])
    BY <2>3, <2>6 DEF Follows
  <2>10. /\ disk[k].done \subseteq disk'[k].done
         /\ \A f \in Files : disk[k].cnt[f] \in Whole => disk'[k].cnt[f] \in Whole
    BY <2>3, <2>6 DEF Follows
  <2>11. FilesFollow' /\ CountsStay
    <3>1. heap[j] = n
      BY DEF n
    <3>. QED BY <1>1, <2>2, <2>5, <2>7, <2>8, <2>9, <2>10, <3>1, HashWrite
  <2>12. ASSUME NEW f \in Files, ledger[f] = "Completed", NEW l \in Targets(f), Through(l)'
         PROVE  Through(l) \/ OnDisk(l, f)'
    <3>1. CASE l = k /\ main = "visit"
      <4>1. n.cnt[f] \in Whole /\ (k = KeyOf[f] => f \in n.done)
        BY <2>12, <3>1 DEF LedgerCounted, Finished, n, j
      <4>2. disk'[k].cnt[f] \in Whole
        BY <2>3, <2>6, <3>1, <4>1 DEF Follows
      <4>3. k = KeyOf[f] => f \in disk'[k].done
        BY <2>2, <2>3, <2>6, <2>12, <3>1, <4>1 DEF Follows
      <4>. QED BY <2>7, <3>1, <4>2, <4>3 DEF OnDisk
    <3>2. CASE ~ (l = k /\ main = "visit")
      BY <2>1, <2>6, <2>12, <3>2 DEF Through
    <3>. QED BY <3>1, <3>2
  <2>13. LedgerCounted'
    BY <1>1, <2>1, <2>11, <2>12, LedgerStays
  <2>. QED BY <1>2, <2>1, <2>11, <2>13
<1>7. ASSUME NEW f \in Files, MarkCompleted(f)
      PROVE  FilesFollow' /\ WorkCounted' /\ LedgerCounted'
  <2>. DEFINE k == KeyOf[f]
              j == open[k]
              n == [heap[j] EXCEPT !.done = @ \cup {f}]
  <2>1. /\ f \in results.ok /\ results'.ok \subseteq results.ok /\ k \in Shards
        /\ ledger' = [ledger EXCEPT ![f] = "Completed"] /\ ledgerSaved' = ledgerSaved
        /\ main = "idle" /\ main' = main
        /\ heap' = IF open[k] # None THEN [heap EXCEPT ![j] = n] ELSE heap
        /\ disk' = disk \/ (open[k] # None /\ disk' = [disk EXCEPT ![k] = Logged(n)])
    BY <1>7, FilesHaveKeys DEF MarkCompleted, IsOpen, saving, Base, TypeOK
  <2>2. \A l \in Targets(f) : HasNew(l, f) /\ l \in Shards
    BY <1>3, <2>1 DEF WorkCounted
  <2>3. /\ FilesFollow' /\ CountsStay
        /\ open[k] # None => f \in heap'[open'[k]].done
    <3>1. CASE open[k] = None
      <4>1. disk' = disk /\ heap' = heap
        BY <2>1, <3>1
      <4>. QED BY <1>1, <3>1, <4>1, HashQuiet
    <3>2. CASE open[k] # None
      <4>1. /\ j \in Ids /\ heap[j] \in Handles /\ heap[j].key = k /\ disk[k] \in Images
            /\ heap[j] # None /\ disk[k] # None
        BY <2>1, <3>2, OpenHandle
      <4>2. /\ n \in Handles /\ n.key = heap[j].key /\ n.done = heap[j].done \cup {f}
            /\ n.cnt = heap[j].cnt /\ n.dirty = heap[j].dirty
        BY <4>1, Written
      <4>3. heap' = [heap EXCEPT ![j] = n] /\ heap'[j] = n
        BY <2>1, <3>2, <4>1 DEF Base, TypeOK
      <4>. HIDE DEF n
      <4>4. Follows(heap[j], disk[k])
        BY <4>1 DEF FilesFollow
      <4>5. Logged(n).done = n.done /\ Logged(n).cnt = disk[k].cnt
        BY <4>1, <4>2 DEF Logged
      <4>6. /\ \A l \in Shards \ {k} : disk'[l] = disk[l]
            /\ disk'[k] = disk[k] \/ disk'[k] = Logged(n)
        BY <2>1, <4>1 DEF Base, TypeOK
      <4>7. disk'[k] # None
        <5>1. heap'[j] # None /\ heap'[j].key = k
          BY <4>1, <4>2, <4>3
        <5>. QED BY <4>1, <5>1 DEF Base, References
      <4>8. k \in Targets(f) => heap[j].dirty
        BY <2>2 DEF HasNew
      <4>9. heap' = heap => n = heap[j]
        BY <4>3
      <4>10. \A i \in Ids : heap'[i] # None =>
              IF i = j THEN heap'[i] = n
              ELSE /\ heap[i] # None /\ heap'[i] = heap[i]
                   /\ disk'[heap[i].key] = disk[heap[i].key]
        <5>. HIDE DEF k
        <5>1. k \in Shards
          BY <2>1
        <5>. QED BY ONLY Base, OneHandleEach, <3>2, <4>3, <4>6, <4>9, <5>1, MainWrites
      <4>. HIDE DEF j
      <4>11. Follows(n, disk'[k])
        <5>1. /\ disk'[k].done \subseteq n.done /\ disk'[k].cnt = disk[k].cnt
              /\ \A g \in n.done : g \in disk'[k].done \/ disk'[k] = disk[k]
          BY <4>2, <4>4, <4>5, <4>6 DEF Follows
        <5>. QED BY <4>1, <4>2, <4>4, <4>8, <5>1 DEF Follows
      <4>12. /\ disk[k].done \subseteq disk'[k].done
             /\ disk'[k].cnt = disk[k].cnt
        BY <4>2, <4>4, <4>5, <4>6 DEF Follows
      <4>. HIDE DEF k
      <4>13. n.key = k
        BY <4>1, <4>2
      <4>14. FilesFollow' /\ CountsStay
        BY <1>1, <4>1, <4>2, <4>6, <4>7, <4>10, <4>11, <4>12, <4>13, HashWrite
      <4>. QED BY <1>1, <4>2, <4>3, <4>14 DEF j
    <3>. QED BY <3>1, <3>2
  <2>4. \A l \in Targets(f) : Finished(l, f)'
    <3>. SUFFICES ASSUME NEW l \in Targets(f) PROVE Finished(l, f)'
      OBVIOUS
    <3>1. HasNew(l, f)' /\ (l = k => open[k] # None)
      BY <2>2, <2>3 DEF CountsStay, HasNew
    <3>. QED BY <2>3, <3>1 DEF HasNew, Finished
  <2>5. \A g \in Files : ledger'[g] = "Completed" =>
           ledger[g] = "Completed" \/ \A l \in Targets(g) : Finished(l, g)'
    BY <2>1, <2>4 DEF Base, TypeOK
  <2>6. LedgerCounted'
    BY <1>1, <2>1, <2>3, <2>5, LedgerStays DEF Through
  <2>. QED BY <1>2, <2>1, <2>3, <2>6
<1>. QED BY <1>4, <1>5, <1>6, <1>7 DEF MainTask

\* The start of a process.
LEMMA RestartKeepsHash ==
    ASSUME Base, FilesFollow, LedgerCounted, setup.hash, setup.cap = 0, Restart
    PROVE  FilesFollow' /\ WorkCounted' /\ LedgerCounted'
<1>. USE NoneFacts
<1>1. \A k \in Shards : disk[k] # None =>
         /\ disk'[k] # None /\ disk'[k].cnt = disk[k].cnt
         /\ disk[k].done \subseteq disk'[k].done
  <2>. SUFFICES ASSUME NEW k \in Shards, disk[k] # None
                PROVE  /\ disk'[k] # None /\ disk'[k].cnt = disk[k].cnt
                       /\ disk[k].done \subseteq disk'[k].done
    OBVIOUS
  <2>. DEFINE image == disk'[k]
  <2>1. image \in Survivors(k)
    BY RestartOpens
  <2>2. CASE image # disk[k]
    <3>1. PICK i \in Ids :
             /\ heap[i] \in Handles /\ heap[i].key = k /\ heap[i] # None
             /\ disk[k] \in Images
             /\ \/ image = Logged(heap[i])
                \/ image = [Logged(heap[i]) EXCEPT !.done = disk[k].done]
      <4>. HIDE DEF image
      <4>. QED BY <2>1, <2>2, SurvivorsFacts
    <3>2. /\ Logged(heap[i]) \in Images
          /\ Logged(heap[i]).cnt = disk[k].cnt /\ Logged(heap[i]).done = heap[i].done
      BY <3>1, MadeOfOthers DEF Logged, Images, Handles
    <3>3. /\ disk'[k].cnt = disk[k].cnt /\ disk'[k] \in Images
          /\ disk'[k].done = heap[i].done \/ disk'[k].done = disk[k].done
      BY <3>1, <3>2 DEF Images
    <3>4. disk[k].done \subseteq heap[i].done
      BY <3>1 DEF FilesFollow, Follows
    <3>. QED BY <3>3, <3>4
  <2>. QED BY <2>2
<1>2. \A k \in Shards, f \in Files : OnDisk(k, f) => OnDisk(k, f)'
  BY <1>1 DEF OnDisk
<1>3. \A i \in Ids : heap'[i] # None => Follows(heap'[i], disk'[heap'[i].key])
  <2>. SUFFICES ASSUME NEW i \in Ids, heap'[i] # None
                PROVE  Follows(heap'[i], disk'[heap'[i].key])
    OBVIOUS
  <2>1. PICK k \in Shards : disk'[k] # None /\ heap'[i] = Loaded(k, disk'[k])
    BY RestartOpens
  <2>2. /\ heap'[i].key = k /\ heap'[i].cnt = disk'[k].cnt
        /\ heap'[i].done = disk'[k].done
    BY <2>1 DEF Loaded
  <2>. QED BY <2>2 DEF Follows
<1>4. /\ results'.ok = {} /\ ledgerSaved' = ledgerSaved /\ setup' = setup
      /\ \A t \in Threads : pc'[t] = "idle"
      /\ \A f \in Files : ledger'[f] = "Completed" => ledgerSaved[f] = "Completed"
  BY DEF Restart, Reconciled
<1>5. \A f \in Files : Targets(f)' = Targets(f) /\ Targets(f) \subseteq Shards
  BY <1>4, SetupFacts DEF Base, Targets
<1>6. FilesFollow'
  BY <1>3, <1>4 DEF FilesFollow, Follows, Targets
<1>7. WorkCounted'
  BY <1>4 DEF WorkCounted, Counting
<1>8. \A k \in Shards, f \in Files : OnDisk(k, f)' => Finished(k, f)'
  <2>. SUFFICES ASSUME NEW k \in Shards, NEW f \in Files, OnDisk(k, f)'
                PROVE  Finished(k, f)'
    OBVIOUS
  <2>1. /\ open'[k] # None /\ heap'[open'[k]] = Loaded(k, disk'[k])
    BY RestartOpens DEF OnDisk
  <2>2. /\ heap'[open'[k]].cnt = disk'[k].cnt /\ heap'[open'[k]].done = disk'[k].done
    BY <2>1 DEF Loaded
  <2>. QED BY <2>1, <2>2 DEF OnDisk, Finished
<1>9. \A f \in Files : ledgerSaved'[f] = "Completed" =>
         \A k \in Targets(f) : OnDisk(k, f)'
  BY <1>2, <1>4, <1>5 DEF LedgerCounted
<1>10. LedgerCounted'
  <2>1. \A f \in Files : ledger'[f] = "Completed" => ledgerSaved'[f] = "Completed"
    BY <1>4
  <2>. QED BY <1>5, <1>8, <1>9, <2>1 DEF LedgerCounted
<1>. QED BY <1>6, <1>7, <1>10

LEMMA HashStep ==
    ASSUME Base, Base', OneInv, HashInv, [Next]_vars
    PROVE  HashInv'
<1>. SUFFICES ASSUME setup.hash, setup.cap = 0
              PROVE  FilesFollow' /\ WorkCounted' /\ LedgerCounted'
  BY SetupStays DEF HashInv
<1>1. FilesFollow /\ WorkCounted /\ LedgerCounted
  BY DEF HashInv
<1>2. OneHandleEach /\ HoldsWhatIsOpen
  BY OneInvMeans DEF EvictsAlone, OneInv
<1>3. CASE UNCHANGED vars
  BY <1>1, <1>3 DEF vars, cache, durable, work, import, saving, FilesFollow, Follows,
     WorkCounted, Counting, HasNew, LedgerCounted, Finished, OnDisk, Through, Targets
<1>4. ASSUME NEW t \in Threads, Worker(t)
      PROVE  FilesFollow' /\ WorkCounted' /\ LedgerCounted'
  BY <1>1, <1>2, <1>4, LookingKeepsHash, WorkingKeepsHash
<1>. QED BY <1>1, <1>2, <1>3, <1>4, MainKeepsHash, RestartKeepsHash DEF Next

LEMMA InitHash ==
    ASSUME Init PROVE HashInv
<1>1. FilesFollow
  BY DEF Init, FilesFollow
<1>2. WorkCounted
  BY DEF Init, WorkCounted, Counting
<1>3. LedgerCounted
  BY DEF Init, LedgerCounted
<1>. QED BY <1>1, <1>2, <1>3 DEF HashInv

---------------------------------------------------------------------------
(* The ledger of the import. *)

\* What a saved ledger says is complete has its counts on the disk.
LEMMA LedgerMeans ==
    ASSUME Base, PrefixInv, HashInv, EvictsAlone(setup), setup.hash => setup.cap = 0
    PROVE  LedgerIsDurable
<1>1. CASE setup.hash
  BY <1>1 DEF HashInv, LedgerCounted, OnDisk, LedgerIsDurable
<1>2. CASE ~ setup.hash
  <2>. SUFFICES ASSUME NEW f \in Files, ledgerSaved[f] = "Completed"
                PROVE  disk[KeyOf[f]] # None /\ disk[KeyOf[f]].cnt[f] \in Whole
    BY <1>2 DEF LedgerIsDurable, Targets
  <2>1. Kept(f) /\ HonestEverywhere
    BY <1>2 DEF PrefixInv, KeptWhenTold
  <2>. QED BY <2>1, FilesHaveKeys DEF Kept, HonestEverywhere, Honest, Whole
<1>. QED BY <1>1, <1>2

\* A file that the saved ledger has as completed has its counts on the disk in
\* every shard: with transactions if no shard is evicted or one worker works,
\* with hashed n-grams if no shard is evicted.
THEOREM LedgerIsOnDisk ==
    ASSUME \A s \in Setups : s.hash => s.cap = 0
    PROVE  Spec => []LedgerIsDurable
<1>. DEFINE AllInv == Base /\ OneInv /\ PrefixInv /\ HashInv
<1>1. Init => AllInv
  BY InitBase, InitOne, InitPrefix, InitHash
<1>2. AllInv /\ [Next]_vars => AllInv'
  BY NextBase, OneStep, PrefixStep, HashStep
<1>3. AllInv => LedgerIsDurable
  <2>. SUFFICES ASSUME AllInv, EvictsAlone(setup) PROVE LedgerIsDurable
    BY DEF LedgerIsDurable
  <2>. QED BY LedgerMeans DEF Base, TypeOK
<1>. QED BY <1>1, <1>2, <1>3, PTL DEF Spec

\* The key shard of a file gets counts of it.  With hashed n-grams nothing in
\* the code sees to that: the key of a file and those of its n-grams come from
\* different hashes.
KeyGetsCounts(s) == s.hash => \A f \in Files : KeyOf[f] \in s.spread[f]

\* Then the key shard knows of the files that the saved ledger has as complete.
KeysKnow == \A f \in Files : ledgerSaved[f] = "Completed" => Kept(f)

LEMMA KeyShardKnows ==
    ASSUME PrefixInv, HashInv, EvictsAlone(setup), setup.hash => setup.cap = 0,
           KeyGetsCounts(setup)
    PROVE  KeysKnow
<1>. SUFFICES ASSUME NEW f \in Files, ledgerSaved[f] = "Completed" PROVE Kept(f)
  BY DEF KeysKnow
<1>1. CASE setup.hash
  BY <1>1 DEF HashInv, LedgerCounted, OnDisk, Kept, KeyGetsCounts, Targets
<1>2. CASE ~ setup.hash
  BY <1>2 DEF PrefixInv, KeptWhenTold
<1>. QED BY <1>1, <1>2

\* A start after which the key shards know of these files takes none back.
LEMMA NothingTakenBack ==
    ASSUME Base, Base', Restart, NEW f \in Files, ledgerSaved[f] = "Completed", Kept(f)'
    PROVE  ledger'[f] = "Completed"
<1>. DEFINE k == KeyOf[f]
<1>1. k \in Shards /\ disk'[k] # None /\ f \in disk'[k].done
  BY FilesHaveKeys DEF Kept
<1>2. disk'[k].done \in SUBSET Files
  BY <1>1 DEF Base, TypeOK, Images
<1>3. saved = None \/ saved[k] = None \/ saved[k] \in SUBSET Files
  BY <1>1 DEF Base, TypeOK
<1>4. records'[k] \in SUBSET Files /\ f \in records'[k]
  <2>1. records' = Recovered(disk')
    BY RestartOpens
  <2>. QED BY <1>1, <1>2, <1>3, <2>1 DEF Recovered
<1>5. records'[k] # None
  BY <1>4, NoneIsNothing
<1>6. ledger'[f] = Reconciled(f)
  BY DEF Restart
<1>. QED BY <1>1, <1>4, <1>5, <1>6 DEF Reconciled

\* The next start takes back no file whose completion had been saved, if the
\* shards of LedgerIsOnDisk also are those that the starts ask.
THEOREM StartsTakeNothingBack ==
    ASSUME \A s \in Setups : (s.hash => s.cap = 0) /\ KeyGetsCounts(s)
    PROVE  Spec => ReconcileKeepsWork
<1>. DEFINE AllInv == Base /\ OneInv /\ PrefixInv /\ HashInv
<1>1. Init => AllInv
  BY InitBase, InitOne, InitPrefix, InitHash
<1>2. AllInv /\ [Next]_vars => AllInv'
  BY NextBase, OneStep, PrefixStep, HashStep
<1>. DEFINE Known == EvictsAlone(setup) => KeysKnow
<1>3. AllInv => Known
  BY KeyShardKnows DEF Base, TypeOK
<1>4. AllInv /\ AllInv' /\ Known' /\ [Next]_vars =>
        [EvictsAlone(setup) /\ session' # session => \A f \in Files :
            ledgerSaved[f] = "Completed" => ledger'[f] = "Completed"]_vars
  <2>. SUFFICES ASSUME AllInv, AllInv', Known', [Next]_vars, EvictsAlone(setup),
                       session' # session,
                       NEW f \in Files, ledgerSaved[f] = "Completed"
                PROVE  ledger'[f] = "Completed"
    OBVIOUS
  <2>0. KeysKnow'
    BY SetupStays
  <2>1. Restart
    <3>1. ~ UNCHANGED vars
      BY DEF vars
    <3>2. ~ MainTask
      BY MainMoves
    <3>3. \A t \in Threads : ~ Worker(t)
      BY WorkingMoves, LookingMoves
    <3>. QED BY <3>1, <3>2, <3>3 DEF Next
  <2>2. Kept(f)'
    BY <2>0, <2>1 DEF KeysKnow, Restart
  <2>. QED BY <2>1, <2>2, NothingTakenBack
<1>. QED BY <1>1, <1>2, <1>3, <1>4, PTL DEF Spec, ReconcileKeepsWork
=============================================================================
