------------------------ MODULE CheckpointTrieProofs ------------------------
(***************************************************************************)
(* What a crash leaves of the checkpoint invents nothing and keeps the     *)
(* progress of a session, a save that succeeds is what the next session    *)
(* loads, and the importer never takes a completion back: for any files,   *)
(* orders, indexes and size of the chunks.                                 *)
(***************************************************************************)
EXTENDS CheckpointTrie, TLAPS

---------------------------------------------------------------------------
(* Lemmas about the keys and the codes. *)

BitsOf(t, f) == t.bitmap[OrderOf[f]][Chunk(f)][Field(f)]

LEMMA DecodeBits ==
    ASSUME NEW v \in 0..3
    PROVE  Decode(Bits, v) \in PrefixState /\ Bits[Decode(Bits, v)] = v
<1>1. \E s \in PrefixState : Bits[s] = v
  BY DEF PrefixState, Bits
<1> QED
  BY <1>1 DEF Decode

LEMMA DecodeStatus ==
    ASSUME NEW v \in 0..3
    PROVE  Decode(StatusCode, v) \in PrefixState /\ StatusCode[Decode(StatusCode, v)] = v
<1>1. \E s \in PrefixState : StatusCode[s] = v
  BY DEF PrefixState, StatusCode
<1> QED
  BY <1>1 DEF Decode

LEMMA Slots ==
    ASSUME NEW f \in Indexed
    PROVE  /\ f \in Files /\ OrderOf[f] \in Orders
           /\ Chunk(f) \in 0..NumChunks - 1 /\ Field(f) \in 0..PerChunk - 1
BY FilesAssumption, ChunksAssumption

LEMMA BitsType ==
    ASSUME NEW t \in Tries, NEW f \in Indexed
    PROVE  BitsOf(t, f) \in 0..3
<1>1. t.bitmap \in [Orders -> [0..NumChunks - 1 -> Words]]
  BY DEF Tries
<1>2. t.bitmap[OrderOf[f]] \in [0..NumChunks - 1 -> Words]
  BY <1>1, Slots
<1>3. t.bitmap[OrderOf[f]][Chunk(f)] \in Words
  BY <1>2, Slots
<1> QED
  BY <1>3, Slots DEF Words, BitsOf

LEMMA PackType ==
    ASSUME NEW state \in [Files -> PrefixState], NEW o, NEW c
    PROVE  Pack(state, o, c) \in Words
<1> SUFFICES ASSUME NEW i \in 0..PerChunk - 1
             PROVE  (IF \E f \in Indexed : OrderOf[f] = o /\ Chunk(f) = c /\ Field(f) = i
                     THEN Bits[state[CHOOSE f \in Indexed :
                                  OrderOf[f] = o /\ Chunk(f) = c /\ Field(f) = i]]
                     ELSE 0) \in 0..3
  BY DEF Pack, Words
<1>1. \A s \in PrefixState : Bits[s] \in 0..3
  BY DEF PrefixState, Bits
<1>2. CASE \E f \in Indexed : OrderOf[f] = o /\ Chunk(f) = c /\ Field(f) = i
  <2> DEFINE g == CHOOSE f \in Indexed : OrderOf[f] = o /\ Chunk(f) = c /\ Field(f) = i
  <2>1. g \in Indexed
    BY <1>2
  <2>2. g \in Files
    BY <2>1, FilesAssumption
  <2>3. Bits[state[g]] \in 0..3
    BY <2>2, <1>1
  <2> QED
    BY <1>2, <2>3
<1>3. CASE ~ \E f \in Indexed : OrderOf[f] = o /\ Chunk(f) = c /\ Field(f) = i
  BY <1>3
<1> QED
  BY <1>2, <1>3

\* No two files share a field, so a chunk holds the state of each of its files.
LEMMA PackField ==
    ASSUME NEW state, NEW f \in Indexed
    PROVE  Pack(state, OrderOf[f], Chunk(f))[Field(f)] = Bits[state[f]]
<1> DEFINE g == CHOOSE h \in Indexed :
                  OrderOf[h] = OrderOf[f] /\ Chunk(h) = Chunk(f) /\ Field(h) = Field(f)
<1>1. /\ g \in Indexed
      /\ OrderOf[g] = OrderOf[f] /\ Chunk(g) = Chunk(f) /\ Field(g) = Field(f)
  OBVIOUS
<1>2. g = f
  BY <1>1, ChunksAssumption
<1>3. Pack(state, OrderOf[f], Chunk(f))[Field(f)] = Bits[state[g]]
  BY Slots DEF Pack
<1> QED
  BY <1>2, <1>3

LEMMA ZeroField ==
    ASSUME NEW f \in Indexed
    PROVE  Zero[Field(f)] = 0
BY Slots DEF Zero

LEMMA EmptyTrieType == EmptyTrie \in Tries /\ \A f \in Indexed : BitsOf(EmptyTrie, f) = 0
<1>1. Zero \in Words
  BY ChunksAssumption DEF Zero, Words
<1>2. EmptyTrie \in Tries
  BY <1>1 DEF EmptyTrie, Tries
<1>3. \A f \in Indexed : BitsOf(EmptyTrie, f) = 0
  BY Slots, ZeroField DEF EmptyTrie, BitsOf
<1> QED
  BY <1>2, <1>3

LEMMA V2TrieType ==
    ASSUME NEW l \in Ledgers
    PROVE  V2Trie(l) \in Tries /\ \A f \in Indexed : BitsOf(V2Trie(l), f) = 0
<1>1. \A f \in Files : StatusCode[l.state[f]] \in 0..3
  BY DEF Ledgers, PrefixState, StatusCode
<1>2. l.complete \subseteq Orders
  BY DEF Ledgers
<1>3. V2Trie(l) \in Tries
  BY <1>1, <1>2, EmptyTrieType DEF V2Trie, Tries
<1>4. V2Trie(l).bitmap = EmptyTrie.bitmap
  BY DEF V2Trie, EmptyTrie
<1> QED
  BY <1>3, <1>4, EmptyTrieType DEF BitsOf

LEMMA EmptyType == Empty \in Ledgers
BY DEF Empty, Ledgers, PrefixState

LEMMA LoadV3Is ==
    ASSUME NEW t \in Tries
    PROVE  /\ LoadV3(t) \in Ledgers
           /\ LoadV3(t).complete = t.complete
           /\ \A f \in Indexed : Bits[LoadV3(t).state[f]] = BitsOf(t, f)
           /\ \A f \in Files \ Indexed : LoadV3(t).state[f] = "NotStarted"
<1>1. \A f \in Indexed : /\ Decode(Bits, BitsOf(t, f)) \in PrefixState
                         /\ Bits[Decode(Bits, BitsOf(t, f))] = BitsOf(t, f)
  BY BitsType, DecodeBits
<1>2. Unpack(t.bitmap) \in [Files -> PrefixState]
  BY <1>1 DEF Unpack, BitsOf, PrefixState
<1>3. t.complete \subseteq Orders
  BY DEF Tries
<1>4. \A f \in Indexed : Bits[Unpack(t.bitmap)[f]] = BitsOf(t, f)
  BY <1>1, FilesAssumption DEF Unpack, BitsOf
<1>5. \A f \in Files \ Indexed : Unpack(t.bitmap)[f] = "NotStarted"
  BY DEF Unpack
<1> QED
  BY <1>2, <1>3, <1>4, <1>5 DEF LoadV3, Ledgers

LEMMA LoadV2Is ==
    ASSUME NEW t \in Tries
    PROVE  /\ LoadV2(t) \in Ledgers
           /\ LoadV2(t).complete = t.complete
           /\ \A f \in Files : StatusCode[LoadV2(t).state[f]] = t.status[f]
<1>1. \A f \in Files : t.status[f] \in 0..3
  BY DEF Tries
<1>2. \A f \in Files : /\ Decode(StatusCode, t.status[f]) \in PrefixState
                       /\ StatusCode[Decode(StatusCode, t.status[f])] = t.status[f]
  BY <1>1, DecodeStatus
<1>3. t.complete \subseteq Orders
  BY DEF Tries
<1> QED
  BY <1>2, <1>3 DEF LoadV2, Ledgers

LEMMA LoadType == \A t \in Tries : Load(t) \in Ledgers
BY LoadV2Is, LoadV3Is DEF Load

LEMMA RecoverIs ==
    ASSUME NEW l \in Ledgers
    PROVE  /\ Recover(l) \in Ledgers
           /\ Recover(l).complete = l.complete
           /\ \A f \in Files :
                /\ Recover(l).state[f] # "InProgress"
                /\ Recover(l).state[f] = "Completed" <=> l.state[f] = "Completed"
BY DEF Recover, Ledgers, PrefixState

---------------------------------------------------------------------------
(* Types. *)

LEMMA InitType == Init => TypeOK
<1> SUFFICES ASSUME Init PROVE TypeOK
  OBVIOUS
<1>1. disk \in Tries /\ json \in OldCheckpoints \cup {None} /\ done \subseteq Files
  <2>1. CASE disk = EmptyTrie /\ json = None /\ done = {}
    BY <2>1, EmptyTrieType
  <2>2. ASSUME NEW l \in OldCheckpoints,
               done = Done(l),
               \/ disk = EmptyTrie /\ json = l
               \/ disk = V2Trie(l) /\ json = None
        PROVE  disk \in Tries /\ json \in OldCheckpoints \cup {None} /\ done \subseteq Files
    <3>1. l \in Ledgers
      BY FilesAssumption
    <3>2. Done(l) \subseteq Files
      BY DEF Done, Completed
    <3> QED
      BY <2>2, <3>1, <3>2, EmptyTrieType, V2TrieType
  <2> QED
    BY <2>1, <2>2 DEF Init
<1>2. None \notin Orders
  BY FilesAssumption
<1>3. 0 \in 0..NumChunks /\ 0 \in 0..MaxSessions
  BY FilesAssumption, ChunksAssumption
<1> QED
  BY <1>1, <1>2, <1>3, EmptyType DEF Init, TypeOK

LEMMA DoneType == \A l : Done(l) \subseteq Files
BY DEF Done, Completed

LEMMA ImageType == TypeOK => Image \in Ledgers
BY DEF TypeOK, Image

\* What one chunk written does to the fields of all files.
LEMMA WriteChunkIs ==
    ASSUME TypeOK, WriteChunk
    PROVE  /\ trie' \in Tries
           /\ trie'.version = trie.version /\ trie'.complete = trie.complete
           /\ trie'.status = trie.status
           /\ \A f \in Indexed :
                BitsOf(trie', f) =
                  IF OrderOf[f] = at /\ Chunk(f) = chunk
                     /\ Pack(Image.state, at, chunk) # Zero
                  THEN Bits[Image.state[f]]
                  ELSE BitsOf(trie, f)
<1> DEFINE w == Pack(Image.state, at, chunk)
<1>1. trie \in Tries /\ at \in Orders /\ chunk \in 0..NumChunks - 1
  BY ChunksAssumption DEF TypeOK, WriteChunk
<1>2. Image.state \in [Files -> PrefixState]
  BY ImageType DEF Ledgers
<1>3. w \in Words
  BY <1>2, PackType
<1>4. CASE w = Zero
  BY <1>1, <1>4 DEF WriteChunk
<1>5. CASE w # Zero
  <2>1. trie' = [trie EXCEPT !.bitmap[at][chunk] = w]
    BY <1>5 DEF WriteChunk
  <2>2. trie.bitmap \in [Orders -> [0..NumChunks - 1 -> Words]]
    BY <1>1 DEF Tries
  <2> DEFINE b == [trie.bitmap EXCEPT ![at] = [trie.bitmap[at] EXCEPT ![chunk] = w]]
  <2>3. trie' = [trie EXCEPT !.bitmap = b]
    BY <2>1, <1>1
  <2>4. [trie.bitmap[at] EXCEPT ![chunk] = w] \in [0..NumChunks - 1 -> Words]
    BY <2>2, <1>1, <1>3
  <2>5. b \in [Orders -> [0..NumChunks - 1 -> Words]]
    BY <2>2, <2>4, <1>1
  <2>6. trie'.bitmap = b /\ trie' \in Tries /\ trie'.version = trie.version
        /\ trie'.complete = trie.complete /\ trie'.status = trie.status
    BY <2>3, <2>5, <1>1 DEF Tries
  <2>7. ASSUME NEW f \in Indexed
        PROVE  BitsOf(trie', f) = IF OrderOf[f] = at /\ Chunk(f) = chunk
                                  THEN Bits[Image.state[f]]
                                  ELSE BitsOf(trie, f)
    <3>1. /\ b[at] = [trie.bitmap[at] EXCEPT ![chunk] = w]
          /\ \A o \in Orders \ {at} : b[o] = trie.bitmap[o]
      BY <2>2, <1>1
    <3>2. /\ b[at][chunk] = w
          /\ \A c \in (0..NumChunks - 1) \ {chunk} : b[at][c] = trie.bitmap[at][c]
      BY <3>1, <2>2, <1>1
    <3>3. CASE OrderOf[f] = at /\ Chunk(f) = chunk
      BY <3>3, <3>2, <2>6, PackField DEF BitsOf
    <3>4. CASE ~(OrderOf[f] = at /\ Chunk(f) = chunk)
      BY <3>4, <3>1, <3>2, <2>6, Slots DEF BitsOf
    <3> QED
      BY <3>3, <3>4
  <2> QED
    BY <1>5, <2>6, <2>7
<1> QED
  BY <1>4, <1>5

LEMMA WriteOrderIs ==
    ASSUME TypeOK, NEW o \in Orders, WriteOrder(o)
    PROVE  /\ trie' \in Tries
           /\ trie'.version = trie.version /\ trie'.bitmap = trie.bitmap
           /\ trie'.complete = trie.complete \cup (Image.complete \cap {o})
           /\ trie'.status = trie.status
BY ImageType DEF TypeOK, WriteOrder, Tries, Ledgers

LEMMA WriteVersionIs ==
    ASSUME TypeOK, WriteVersion
    PROVE  /\ trie' \in Tries
           /\ trie'.version = 3 /\ trie'.bitmap = trie.bitmap
           /\ trie'.complete = trie.complete /\ trie'.status = trie.status
BY DEF TypeOK, WriteVersion, Tries

LEMMA StartType ==
    ASSUME TypeOK, NEW l \in Ledgers, Start(l)
    PROVE  /\ ledger' \in Ledgers /\ snapshot' \in Ledgers
           /\ resumed' \subseteq Files /\ sessions' \in 0..MaxSessions
<1>1. sessions' \in 0..MaxSessions
  BY FilesAssumption DEF TypeOK, Start
<1> QED
  BY <1>1, RecoverIs, DoneType DEF Start

LEMMA SetStateType ==
    ASSUME TypeOK, NEW f \in Files, NEW s \in PrefixState, SetState(f, s)
    PROVE  /\ ledger' \in Ledgers
           /\ ledger'.complete = ledger.complete
           /\ ledger'.state = [ledger.state EXCEPT ![f] = s]
           /\ done' \subseteq Files
BY DoneType DEF TypeOK, SetState, Ledgers

LEMMA CompleteOrderType ==
    ASSUME TypeOK, NEW o \in Orders, complete_order(o)
    PROVE  /\ ledger' \in Ledgers
           /\ ledger'.complete = ledger.complete \cup {o}
           /\ ledger'.state = ledger.state
           /\ done' \subseteq Files
BY DoneType DEF TypeOK, complete_order, Ledgers

LEMMA TypeStep == TypeOK /\ [Next]_vars => TypeOK'
<1> SUFFICES ASSUME TypeOK, [Next]_vars PROVE TypeOK'
  OBVIOUS
<1> USE DEF save, past
<1>0. None \notin Orders /\ 0 \in 0..NumChunks
  BY FilesAssumption, ChunksAssumption
<1>1. CASE ResumeFromTrie
  <2>1. trie \in Tries /\ trie.version \in 0..3
    BY DEF TypeOK, Tries
  <2>2. Load(trie) \in Ledgers /\ Start(Load(trie))
    BY <1>1, <2>1, LoadType DEF ResumeFromTrie
  <2> QED
    BY <1>1, <2>1, <2>2, StartType DEF TypeOK, ResumeFromTrie
<1>2. CASE ResumeFromJson
  <2>1. json \in Ledgers /\ Start(json)
    BY <1>2, FilesAssumption DEF TypeOK, ResumeFromJson
  <2>2. saver' = "importer" /\ "importer" # None
    BY <1>2, FilesAssumption DEF ResumeFromJson, BeginSave
  <2> QED
    BY <1>2, <2>1, <2>2, StartType, <1>0 DEF TypeOK, ResumeFromJson, BeginSave
<1>3. CASE StartAfresh
  BY <1>3, EmptyType, StartType DEF TypeOK, StartAfresh
<1>4. CASE Crash
  BY <1>4, <1>0, EmptyType DEF TypeOK, Crash, NoSave
<1>5. CASE Cleanup
  BY <1>5, EmptyTrieType DEF TypeOK, Cleanup
<1>6. ASSUME NEW f \in Files, complete_prefix(f) \/ fail_prefix(f) \/ clear_failed(f)
      PROVE  TypeOK'
  <2>1. PICK s \in PrefixState : SetState(f, s)
    BY <1>6 DEF complete_prefix, fail_prefix, clear_failed, PrefixState
  <2> QED
    BY <2>1, SetStateType DEF TypeOK, SetState
<1>7. ASSUME NEW o \in Orders, complete_order(o)
      PROVE  TypeOK'
  BY <1>7, CompleteOrderType DEF TypeOK, complete_order
<1>8. CASE SaveByImporter
  BY <1>8, <1>0, FilesAssumption DEF TypeOK, SaveByImporter, BeginSave
<1>9. CASE SaveByCron
  BY <1>9, <1>0, FilesAssumption DEF TypeOK, SaveByCron, BeginSave
<1>10. CASE WriteVersion
  BY <1>10, <1>0, WriteVersionIs DEF TypeOK, WriteVersion
<1>11. ASSUME NEW o \in Orders, WriteOrder(o)
       PROVE  TypeOK'
  BY <1>11, <1>0, WriteOrderIs DEF TypeOK, WriteOrder
<1>12. CASE WriteChunk
  <2>1. trie' \in Tries
    BY <1>12, WriteChunkIs
  <2>2. chunk' \in 0..NumChunks
    BY <1>12, ChunksAssumption DEF TypeOK, WriteChunk
  <2> QED
    BY <1>12, <2>1, <2>2 DEF TypeOK, WriteChunk
<1>13. CASE EndOrder
  BY <1>13, <1>0 DEF TypeOK, EndOrder
<1>14. CASE Flush
  BY <1>14, <1>0 DEF TypeOK, Flush, NoSave
<1>15. CASE SaveFails
  BY <1>15, <1>0 DEF TypeOK, SaveFails, NoSave
<1>16. CASE LogReachesDisk
  BY <1>16 DEF TypeOK, LogReachesDisk
<1>17. CASE Return
  BY <1>17 DEF TypeOK, Return
<1>18. CASE UNCHANGED vars
  BY <1>18 DEF TypeOK, vars
<1> QED
  BY <1>1, <1>2, <1>3, <1>4, <1>5, <1>6, <1>7, <1>8, <1>9, <1>10, <1>11, <1>12, <1>13,
     <1>14, <1>15, <1>16, <1>17, <1>18 DEF Next, Sessions, Import, Save

\* Every variable keeps its type, and a save writes one order at a time.
THEOREM Typing == Spec => []TypeOK
BY InitType, TypeStep, PTL DEF Spec
---------------------------------------------------------------------------
(* Nothing is invented: whatever the trie, its image on disk or a ledger   *)
(* says is done was done.  The format of a trie does not matter, since a   *)
(* save may leave the status codes of version 2 beside the bitmap.         *)

Truthful(t, d) ==
    /\ \A f \in Indexed : BitsOf(t, f) = 2 => f \in d
    /\ \A f \in Files : OrderOf[f] \in t.complete => f \in d
    /\ \A f \in Files : t.status[f] = 1 => f \in d

AllTruthful ==
    /\ Truthful(trie, done) /\ Truthful(disk, done)
    /\ Done(ledger) \subseteq done /\ Done(snapshot) \subseteq done
    /\ json # None => Done(json) \subseteq done

LEMMA LoadTruthful ==
    ASSUME NEW t \in Tries, NEW d, Truthful(t, d)
    PROVE  Done(Load(t)) \subseteq d
<1>1. ASSUME NEW f \in Files, OrderOf[f] \in Load(t).complete
      PROVE  f \in d
  BY <1>1, LoadV2Is, LoadV3Is DEF Load, Truthful
<1>2. ASSUME NEW f \in Files, Load(t).state[f] = "Completed"
      PROVE  f \in d
  <2>1. CASE t.version >= 3
    BY <1>2, <2>1, LoadV3Is DEF Load, Bits, Truthful
  <2>2. CASE ~(t.version >= 3)
    BY <1>2, <2>2, LoadV2Is DEF Load, StatusCode, Truthful
  <2> QED
    BY <2>1, <2>2
<1> QED
  BY <1>1, <1>2 DEF Done, Completed

LEMMA DoneOfEmpty == Done(Empty) = {}
BY DEF Done, Completed, Empty

LEMMA EmptyTrieTruthful == \A d : Truthful(EmptyTrie, d)
<1>1. EmptyTrie.complete = {} /\ \A f \in Files : EmptyTrie.status[f] = 0
  BY DEF EmptyTrie
<1> QED
  BY <1>1, EmptyTrieType DEF Truthful

LEMMA V2TrieTruthful ==
    ASSUME NEW l \in Ledgers
    PROVE  Truthful(V2Trie(l), Done(l))
<1>1. V2Trie(l).complete = l.complete
  BY DEF V2Trie, EmptyTrie
<1>2. \A f \in Files : V2Trie(l).status[f] = StatusCode[l.state[f]]
  BY DEF V2Trie, EmptyTrie
<1>3. \A f \in Files : StatusCode[l.state[f]] = 1 => l.state[f] = "Completed"
  BY DEF Ledgers, PrefixState, StatusCode
<1> QED
  BY <1>1, <1>2, <1>3, V2TrieType DEF Truthful, Done, Completed

LEMMA DoneOfRecovered == \A l \in Ledgers : Done(Recover(l)) = Done(l)
BY RecoverIs DEF Done, Completed

LEMMA InitTruthful == Init => AllTruthful
<1> SUFFICES ASSUME Init PROVE AllTruthful
  OBVIOUS
<1>1. CASE disk = EmptyTrie /\ json = None /\ done = {}
  BY <1>1, EmptyTrieTruthful, DoneOfEmpty DEF Init, AllTruthful
<1>2. ASSUME NEW l \in OldCheckpoints,
             done = Done(l),
             \/ disk = EmptyTrie /\ json = l
             \/ disk = V2Trie(l) /\ json = None
      PROVE  AllTruthful
  <2>1. l \in Ledgers
    BY FilesAssumption
  <2> QED
    BY <1>2, <2>1, EmptyTrieTruthful, V2TrieTruthful, DoneOfEmpty DEF Init, AllTruthful
<1> QED
  BY <1>1, <1>2 DEF Init

LEMMA ImageTruthful == AllTruthful => Done(Image) \subseteq done
BY DEF AllTruthful, Image

LEMMA TruthfulStep == TypeOK /\ AllTruthful /\ [Next]_vars => AllTruthful'
<1> SUFFICES ASSUME TypeOK, AllTruthful, [Next]_vars PROVE AllTruthful'
  OBVIOUS
<1> USE DEF save, past
<1>1. CASE ResumeFromTrie
  <2>1. trie \in Tries
    BY DEF TypeOK
  <2>2. Load(trie) \in Ledgers /\ Done(Load(trie)) \subseteq done
    BY <2>1, LoadType, LoadTruthful DEF AllTruthful
  <2>3. ledger' = Recover(Load(trie)) /\ snapshot' = Recover(Load(trie)) /\ json' = None
        /\ UNCHANGED <<trie, disk, done>>
    BY <1>1 DEF ResumeFromTrie, Start
  <2> QED
    BY <2>2, <2>3, DoneOfRecovered DEF AllTruthful
<1>2. CASE ResumeFromJson
  <2>1. json \in Ledgers
    BY <1>2, FilesAssumption DEF TypeOK, ResumeFromJson
  <2> QED
    BY <1>2, <2>1, DoneOfRecovered DEF AllTruthful, ResumeFromJson, Start
<1>3. CASE StartAfresh
  BY <1>3, EmptyType, DoneOfEmpty, DoneOfRecovered DEF AllTruthful, StartAfresh, Start
<1>4. CASE Crash
  BY <1>4, DoneOfEmpty DEF AllTruthful, Crash
<1>5. CASE Cleanup
  BY <1>5, EmptyTrieTruthful DEF AllTruthful, Cleanup
<1>6. ASSUME NEW f \in Files, complete_prefix(f) \/ fail_prefix(f) \/ clear_failed(f)
      PROVE  AllTruthful'
  <2>1. /\ done' = done \cup Done(ledger')
        /\ UNCHANGED <<snapshot, trie, disk, json>>
    BY <1>6 DEF complete_prefix, fail_prefix, clear_failed, SetState
  <2> QED
    BY <2>1 DEF AllTruthful, Truthful
<1>7. ASSUME NEW o \in Orders, complete_order(o)
      PROVE  AllTruthful'
  BY <1>7 DEF AllTruthful, Truthful, complete_order
<1>8. CASE SaveByImporter
  BY <1>8 DEF AllTruthful, SaveByImporter
<1>9. CASE SaveByCron
  BY <1>9 DEF AllTruthful, SaveByCron
<1>10. CASE WriteVersion
  <2>1. Truthful(trie', done)
    BY <1>10, WriteVersionIs DEF AllTruthful, Truthful, BitsOf
  <2> QED
    BY <1>10, <2>1 DEF AllTruthful, WriteVersion
<1>11. ASSUME NEW o \in Orders, WriteOrder(o)
       PROVE  AllTruthful'
  <2>1. \A f \in Files : OrderOf[f] \in Image.complete => f \in done
    BY ImageTruthful DEF Done
  <2>2. Truthful(trie', done)
    BY <1>11, <2>1, WriteOrderIs DEF AllTruthful, Truthful, BitsOf
  <2> QED
    BY <1>11, <2>2 DEF AllTruthful, WriteOrder
<1>12. CASE WriteChunk
  <2>1. Image \in Ledgers
    BY ImageType
  <2>2. \A f \in Indexed : Bits[Image.state[f]] = 2 => f \in done
    <3>1. \A f \in Indexed : f \in Files /\ Image.state[f] \in PrefixState
      BY <2>1, FilesAssumption DEF Ledgers
    <3>2. \A f \in Indexed : Bits[Image.state[f]] = 2 => Image.state[f] = "Completed"
      BY <3>1 DEF PrefixState, Bits
    <3> QED
      BY <3>1, <3>2, ImageTruthful DEF Done, Completed
  <2>3. Truthful(trie', done)
    BY <1>12, <2>2, WriteChunkIs DEF AllTruthful, Truthful
  <2> QED
    BY <1>12, <2>3 DEF AllTruthful, WriteChunk
<1>13. CASE EndOrder
  BY <1>13 DEF AllTruthful, EndOrder
<1>14. CASE Flush
  BY <1>14 DEF AllTruthful, Flush
<1>15. CASE SaveFails
  BY <1>15 DEF AllTruthful, SaveFails
<1>16. CASE LogReachesDisk
  BY <1>16 DEF AllTruthful, LogReachesDisk
<1>17. CASE Return
  BY <1>17 DEF AllTruthful, Return
<1>18. CASE UNCHANGED vars
  BY <1>18 DEF AllTruthful, vars
<1> QED
  BY <1>1, <1>2, <1>3, <1>4, <1>5, <1>6, <1>7, <1>8, <1>9, <1>10, <1>11, <1>12, <1>13,
     <1>14, <1>15, <1>16, <1>17, <1>18 DEF Next, Sessions, Import, Save

\* A crash at any moment leaves a checkpoint that calls no file done that was
\* not done in a ledger.
THEOREM NothingIsInvented == Spec => []NothingInvented
<1>1. TypeOK /\ AllTruthful => NothingInvented
  <2> SUFFICES ASSUME TypeOK, AllTruthful PROVE Done(Loaded(disk, json)) \subseteq done
    BY DEF NothingInvented
  <2>1. Done(Load(disk)) \subseteq done
    BY LoadTruthful DEF TypeOK, AllTruthful
  <2> QED
    BY <2>1, DoneOfEmpty DEF Loaded, AllTruthful
<1> QED
  BY <1>1, Typing, InitTruthful, TruthfulStep, PTL DEF Spec

---------------------------------------------------------------------------
(* What the trie holds and the importer's ledger: the bits of the trie are *)
(* never ahead of the ledger, and a save of the importer brings them up to *)
(* it.                                                                     *)

\* Older formats have no bits, an empty trie has no orders, and nothing in a
\* bitmap is in progress.
WellFormed(t) ==
    /\ \A f \in Indexed : BitsOf(t, f) # 1
    /\ t.version # 3 => \A f \in Indexed : BitsOf(t, f) = 0
    /\ t.version = 0 => t.complete = {}

NoneInWork(l) == \A f \in Files : l.state[f] # "InProgress"

\* The ledger knows of all that the trie calls done.
Knows(l, t) ==
    /\ \A f \in Indexed : BitsOf(t, f) = 2 => l.state[f] = "Completed"
    /\ t.complete \subseteq l.complete

\* The save has passed the chunk of f.
Written(f) ==
    /\ stage \in {"orders", "chunks"} /\ OrderOf[f] \notin rest
    /\ OrderOf[f] = at => Chunk(f) < chunk

\* What a save of the importer has passed is in the trie.
UpToDate ==
    /\ \A f \in Indexed :
          Written(f) /\ ledger.state[f] = "Completed" => BitsOf(trie, f) = 2
    /\ stage # "version" => ledger.complete \subseteq trie.complete \cup rest

BookInv ==
    /\ WellFormed(trie) /\ WellFormed(disk)
    /\ NoneInWork(ledger) /\ NoneInWork(snapshot)
    /\ phase = "down" => saver = None /\ trie = disk
    /\ phase # "down" => Knows(ledger, trie)
    /\ Completed(snapshot) \subseteq Completed(ledger)
    /\ snapshot.complete \subseteq ledger.complete
    /\ stage \in {"orders", "chunks"} => trie.version = 3
    /\ saver = "importer" => UpToDate

LEMMA BitsMean ==
    ASSUME NEW l \in Ledgers, NEW f \in Indexed
    PROVE  /\ f \in Files /\ l.state[f] \in PrefixState
           /\ Bits[l.state[f]] = 2 <=> l.state[f] = "Completed"
           /\ Bits[l.state[f]] = 1 <=> l.state[f] = "InProgress"
           /\ Bits[l.state[f]] = 0 <=> l.state[f] = "NotStarted"
<1>1. f \in Files /\ l.state[f] \in PrefixState
  BY FilesAssumption DEF Ledgers
<1> QED
  BY <1>1 DEF PrefixState, Bits

\* A chunk of zeros has no file that is completed.
LEMMA ZeroChunk ==
    ASSUME NEW l \in Ledgers, NEW f \in Indexed,
           Pack(l.state, OrderOf[f], Chunk(f)) = Zero
    PROVE  l.state[f] # "Completed"
<1>1. Bits[l.state[f]] = 0
  BY PackField, ZeroField
<1> QED
  BY <1>1, BitsMean

LEMMA EmptyTrieWellFormed == WellFormed(EmptyTrie) /\ \A l : Knows(l, EmptyTrie)
<1>1. EmptyTrie.complete = {}
  BY DEF EmptyTrie
<1> QED
  BY <1>1, EmptyTrieType DEF WellFormed, Knows

\* What a well-formed trie is loaded as knows of all it calls done.
LEMMA LoadKnows ==
    ASSUME NEW t \in Tries, WellFormed(t)
    PROVE  Knows(Recover(Load(t)), t)
<1> DEFINE l == Load(t)
<1>1. l \in Ledgers /\ l.complete = t.complete
  BY LoadType, LoadV2Is, LoadV3Is DEF Load
<1>2. \A f \in Indexed : BitsOf(t, f) = 2 => l.state[f] = "Completed"
  <2> SUFFICES ASSUME NEW f \in Indexed, BitsOf(t, f) = 2 PROVE l.state[f] = "Completed"
    OBVIOUS
  <2>1. t.version = 3
    BY DEF WellFormed
  <2>2. l = LoadV3(t) /\ Bits[l.state[f]] = 2
    BY <2>1, LoadV3Is DEF Load
  <2> QED
    BY <1>1, <2>2, BitsMean
<1> HIDE DEF l
<1>3. /\ Recover(l).complete = l.complete
      /\ \A f \in Files : Recover(l).state[f] = "Completed" <=> l.state[f] = "Completed"
  BY <1>1, RecoverIs
<1>4. Knows(Recover(l), t)
  BY <1>1, <1>2, <1>3, Slots DEF Knows
<1> QED
  BY <1>4 DEF l

LEMMA InitBook == Init => BookInv
<1> SUFFICES ASSUME Init PROVE BookInv
  OBVIOUS
<1>1. WellFormed(disk)
  <2>1. ASSUME NEW l \in OldCheckpoints PROVE WellFormed(V2Trie(l))
    <3>1. l \in Ledgers /\ V2Trie(l).version = 2
      BY FilesAssumption DEF V2Trie, EmptyTrie
    <3> QED
      BY <3>1, V2TrieType DEF WellFormed
  <2> QED
    BY <2>1, EmptyTrieWellFormed DEF Init
<1>2. NoneInWork(Empty)
  BY DEF NoneInWork, Empty
<1>3. None # "importer"
  BY FilesAssumption
<1> QED
  BY <1>1, <1>2, <1>3 DEF Init, BookInv

\* A session starts with a ledger that knows its trie.
LEMMA StartKeepsBook ==
    ASSUME TypeOK, BookInv, NEW l \in Ledgers, Start(l), Knows(Recover(l), trie),
           UNCHANGED <<trie, disk>>, phase' # "down",
           \/ UNCHANGED <<saver, stage>>
           \/ saver' = "importer" /\ stage' = "version"
    PROVE  BookInv'
<1>1. ledger' = Recover(l) /\ snapshot' = Recover(l) /\ saver = None /\ stage = "idle"
  BY DEF TypeOK, BookInv, Start
<1>2. NoneInWork(Recover(l))
  BY RecoverIs DEF NoneInWork
<1>3. saver' = "importer" => UpToDate'
  BY <1>1, FilesAssumption DEF UpToDate, Written
<1>4. stage' \notin {"orders", "chunks"}
  BY <1>1
<1> QED
  BY <1>1, <1>2, <1>3, <1>4 DEF BookInv

\* A key written takes no bit that is 2 away from what the ledger knows.
LEMMA VersionKeepsBook ==
    ASSUME TypeOK, BookInv, WriteVersion
    PROVE  BookInv'
<1>1. /\ \A f \in Indexed : BitsOf(trie', f) = BitsOf(trie, f)
      /\ trie'.version = 3 /\ trie'.complete = trie.complete
  BY WriteVersionIs DEF BitsOf
<1>2. UNCHANGED <<phase, ledger, snapshot, disk, saver, rest, at, chunk>>
      /\ stage = "version" /\ stage' = "orders"
  BY DEF WriteVersion
<1>3. phase # "down" /\ rest = Orders
  BY <1>2 DEF TypeOK, BookInv
<1>4. WellFormed(trie') /\ Knows(ledger, trie')
  BY <1>1, <1>3 DEF BookInv, WellFormed, Knows
<1>5. UpToDate'
  <2>1. \A f \in Indexed : ~ Written(f)'
    BY <1>2, <1>3, Slots DEF Written
  <2>2. ledger.complete \subseteq Orders
    BY DEF TypeOK, Ledgers
  <2> QED
    BY <1>2, <1>3, <2>1, <2>2 DEF UpToDate
<1> QED
  BY <1>1, <1>2, <1>3, <1>4, <1>5 DEF BookInv

LEMMA OrderKeepsBook ==
    ASSUME TypeOK, BookInv, NEW o \in Orders, WriteOrder(o)
    PROVE  BookInv'
<1>1. /\ \A f \in Indexed : BitsOf(trie', f) = BitsOf(trie, f)
      /\ trie'.version = trie.version
      /\ trie'.complete = trie.complete \cup (Image.complete \cap {o})
  BY WriteOrderIs DEF BitsOf
<1>2. UNCHANGED <<phase, ledger, snapshot, disk, saver>>
      /\ stage = "orders" /\ stage' = "chunks" /\ at' = o /\ chunk' = 0
      /\ rest' = rest \ {o}
  BY DEF WriteOrder
<1>3. phase # "down" /\ trie.version = 3
  BY <1>2 DEF TypeOK, BookInv
<1>4. WellFormed(trie') /\ Knows(ledger, trie')
  BY <1>1, <1>3 DEF BookInv, WellFormed, Knows, Image
<1>5. ASSUME saver = "importer" PROVE UpToDate'
  <2>1. ledger.complete \subseteq trie'.complete \cup rest'
    BY <1>1, <1>2, <1>5, FilesAssumption DEF BookInv, UpToDate, Image
  <2>2. ASSUME NEW f \in Indexed, Written(f)' PROVE Written(f)
    <3>1. OrderOf[f] # o
      BY <1>2, <2>2, Slots, ChunksAssumption DEF Written
    <3>2. at = None /\ OrderOf[f] # None
      BY <1>2, Slots, FilesAssumption DEF TypeOK
    <3> QED
      BY <1>2, <2>2, <3>1, <3>2 DEF Written
  <2> QED
    BY <1>1, <1>2, <1>5, <2>1, <2>2 DEF BookInv, UpToDate
<1> QED
  BY <1>1, <1>2, <1>3, <1>4, <1>5 DEF BookInv

\* In a chunk that is written, the bits become those of the image.
LEMMA ChunkKeepsBook ==
    ASSUME TypeOK, BookInv, WriteChunk
    PROVE  BookInv'
<1>1. /\ trie'.version = trie.version /\ trie'.complete = trie.complete
      /\ \A f \in Indexed :
           BitsOf(trie', f) = IF OrderOf[f] = at /\ Chunk(f) = chunk
                                 /\ Pack(Image.state, at, chunk) # Zero
                              THEN Bits[Image.state[f]] ELSE BitsOf(trie, f)
  BY WriteChunkIs
<1>2. UNCHANGED <<phase, ledger, snapshot, disk, saver, stage, rest, at>>
      /\ stage = "chunks" /\ chunk' = chunk + 1 /\ chunk \in Nat
  BY DEF WriteChunk, TypeOK
<1>3. phase # "down" /\ trie.version = 3
  BY <1>2 DEF TypeOK, BookInv
<1>4. ASSUME NEW f \in Indexed
      PROVE  /\ Bits[Image.state[f]] # 1
             /\ Bits[Image.state[f]] = 2 <=> Image.state[f] = "Completed"
             /\ Image.state[f] = "Completed" => ledger.state[f] = "Completed"
  <2>1. Image \in Ledgers /\ NoneInWork(Image)
    BY ImageType DEF Image, BookInv
  <2>2. f \in Files /\ (Image.state[f] = "Completed" => f \in Completed(ledger))
    BY FilesAssumption DEF Image, BookInv, Completed
  <2> QED
    BY <2>1, <2>2, BitsMean DEF NoneInWork, Completed
<1>5. WellFormed(trie')
  BY <1>1, <1>3, <1>4 DEF WellFormed, BookInv
<1>6. Knows(ledger, trie')
  BY <1>1, <1>3, <1>4 DEF Knows, BookInv
<1>7. ASSUME saver = "importer" PROVE UpToDate'
  <2>1. Image = ledger /\ ledger \in Ledgers
    BY <1>7, FilesAssumption DEF Image, TypeOK
  <2>2. ASSUME NEW f \in Indexed, Written(f)', ledger.state[f] = "Completed"
        PROVE  BitsOf(trie', f) = 2
    <3>1. CASE OrderOf[f] = at /\ Chunk(f) = chunk
      <4>1. Pack(Image.state, at, chunk) # Zero
        BY <2>1, <2>2, <3>1, ZeroChunk
      <4> QED
        BY <1>1, <1>4, <2>1, <2>2, <3>1, <4>1
    <3>2. CASE ~ (OrderOf[f] = at /\ Chunk(f) = chunk)
      <4>1. Written(f)
        BY <1>2, <2>2, <3>2, Slots DEF Written
      <4> QED
        BY <1>1, <1>7, <2>2, <3>2, <4>1 DEF BookInv, UpToDate
    <3> QED
      BY <3>1, <3>2
  <2> QED
    BY <1>1, <1>2, <1>7, <2>2 DEF BookInv, UpToDate
<1> QED
  BY <1>1, <1>2, <1>3, <1>5, <1>6, <1>7 DEF BookInv

\* The import completes files and orders, and a completed file stays so.
LEMMA ImportKeepsBook ==
    ASSUME TypeOK, BookInv, Import
    PROVE  BookInv'
<1>1. /\ UNCHANGED <<phase, snapshot, trie, disk, saver, stage>>
      /\ phase = "import" /\ saver # "importer"
  BY DEF Import, complete_prefix, fail_prefix, clear_failed, complete_order, SetState,
     Importing, save
<1>2. /\ NoneInWork(ledger') /\ Completed(ledger) \subseteq Completed(ledger')
      /\ ledger.complete \subseteq ledger'.complete
  <2>1. ASSUME NEW f \in Files, complete_prefix(f) \/ fail_prefix(f) \/ clear_failed(f)
        PROVE  /\ NoneInWork(ledger') /\ Completed(ledger) \subseteq Completed(ledger')
               /\ ledger.complete \subseteq ledger'.complete
    <3>1. PICK x \in PrefixState : x # "InProgress" /\ SetState(f, x)
      BY <2>1 DEF complete_prefix, fail_prefix, clear_failed, PrefixState
    <3>2. ledger.state[f] # "Completed" /\ ledger.state \in [Files -> PrefixState]
      BY <2>1 DEF complete_prefix, fail_prefix, clear_failed, TypeOK, Ledgers
    <3>3. /\ ledger'.complete = ledger.complete
          /\ ledger'.state = [ledger.state EXCEPT ![f] = x]
      BY <3>1, SetStateType
    <3> QED
      BY <3>1, <3>2, <3>3 DEF BookInv, NoneInWork, Completed
  <2>2. ASSUME NEW o \in Orders, complete_order(o)
        PROVE  /\ NoneInWork(ledger') /\ Completed(ledger) \subseteq Completed(ledger')
               /\ ledger.complete \subseteq ledger'.complete
    BY <2>2, CompleteOrderType DEF BookInv, NoneInWork, Completed
  <2> QED
    BY <2>1, <2>2 DEF Import
<1>3. Knows(ledger', trie)
  BY <1>1, <1>2, Slots DEF BookInv, Knows, Completed
<1> QED
  BY <1>1, <1>2, <1>3 DEF BookInv

LEMMA BookStep == TypeOK /\ BookInv /\ [Next]_vars => BookInv'
<1> SUFFICES ASSUME TypeOK, BookInv, [Next]_vars PROVE BookInv'
  OBVIOUS
<1> USE DEF save, past
<1>0. None # "importer" /\ NoneInWork(Empty) /\ Completed(Empty) = {}
      /\ Empty.complete = {}
  BY FilesAssumption DEF NoneInWork, Completed, Empty
<1>1. CASE ResumeFromTrie
  <2>1. trie \in Tries /\ Start(Load(trie)) /\ UNCHANGED <<trie, disk, saver, stage>>
        /\ phase' = "import" /\ Load(trie) \in Ledgers
    BY <1>1, LoadType DEF ResumeFromTrie, TypeOK
  <2>2. Knows(Recover(Load(trie)), trie)
    BY <2>1, LoadKnows DEF BookInv
  <2> QED
    BY <2>1, <2>2, StartKeepsBook
<1>2. CASE ResumeFromJson \/ StartAfresh
  <2>1. PICK l \in Ledgers : Start(l)
    BY <1>2, EmptyType, FilesAssumption DEF ResumeFromJson, StartAfresh, TypeOK
  <2>2. UNCHANGED <<trie, disk>> /\ phase' # "down" /\ trie.version = 0
        /\ (UNCHANGED <<saver, stage>> \/ (saver' = "importer" /\ stage' = "version"))
    BY <1>2 DEF ResumeFromJson, StartAfresh, BeginSave
  <2>3. Knows(Recover(l), trie)
    BY <2>2, RecoverIs DEF BookInv, WellFormed, Knows
  <2> QED
    BY <2>1, <2>2, <2>3, StartKeepsBook
<1>3. CASE Crash
  BY <1>0, <1>3 DEF BookInv, Crash, NoSave
<1>4. CASE Cleanup
  BY <1>0, <1>4, EmptyTrieWellFormed DEF BookInv, Cleanup, TypeOK
<1>5. CASE Import
  BY <1>5, ImportKeepsBook
<1>6. CASE SaveByImporter \/ SaveByCron
  <2>1. /\ UNCHANGED <<ledger, snapshot, trie, disk>> /\ stage' = "version"
        /\ phase # "down" /\ phase' # "down"
    BY <1>6 DEF SaveByImporter, SaveByCron, BeginSave
  <2>2. UpToDate'
    BY <2>1 DEF UpToDate, Written
  <2> QED
    BY <2>1, <2>2 DEF BookInv
<1>7. CASE WriteVersion
  BY <1>7, VersionKeepsBook
<1>8. ASSUME NEW o \in Orders, WriteOrder(o)
      PROVE  BookInv'
  BY <1>8, OrderKeepsBook
<1>9. CASE WriteChunk
  BY <1>9, ChunkKeepsBook
<1>10. CASE EndOrder
  <2>1. /\ UNCHANGED <<phase, ledger, snapshot, trie, disk, saver, rest>>
        /\ stage = "chunks" /\ stage' = "orders" /\ chunk = NumChunks
    BY <1>10 DEF EndOrder
  <2>2. \A f \in Indexed : Written(f)' => Written(f)
    BY <2>1, Slots, ChunksAssumption DEF Written
  <2> QED
    BY <2>1, <2>2 DEF BookInv, UpToDate
<1>11. CASE Flush \/ SaveFails
  <2>1. /\ UNCHANGED <<ledger, snapshot, trie>> /\ saver' = None /\ stage' = "idle"
        /\ disk' \in {disk, trie} /\ phase # "down" /\ phase' # "down"
    BY <1>11 DEF Flush, SaveFails, NoSave, BookInv, TypeOK
  <2> QED
    BY <1>0, <2>1 DEF BookInv
<1>12. CASE LogReachesDisk
  BY <1>12 DEF BookInv, LogReachesDisk, UpToDate, Written
<1>13. CASE Return \/ UNCHANGED vars
  BY <1>13 DEF BookInv, Return, Importing, vars, UpToDate, Written
<1> QED
  BY <1>1, <1>2, <1>3, <1>4, <1>5, <1>6, <1>7, <1>8, <1>9, <1>10, <1>11, <1>12, <1>13
     DEF Next, Sessions, Save

LEMMA Book == Spec => [](TypeOK /\ BookInv)
BY InitType, TypeStep, InitBook, BookStep, PTL DEF Spec

\* A save that the importer ends is what the next session loads: every chunk
\* has been passed, and one of zeros holds no file that is completed.
THEOREM SavesAreLoaded == Spec => SavedIsLoaded
<1>1. ASSUME TypeOK, BookInv, Flush, saver = "importer"
      PROVE  LET l == Load(disk') IN
             /\ l.complete = ledger.complete
             /\ Completed(l) = Completed(ledger) \cap Indexed
             /\ \A f \in Indexed : needs_prefix(l, f) <=> needs_prefix(ledger, f)
  <2>. DEFINE l == LoadV3(trie)
  <2>1. /\ stage = "orders" /\ rest = {} /\ phase # "down"
        /\ trie \in Tries /\ trie.version = 3 /\ ledger \in Ledgers
        /\ NoneInWork(ledger) /\ Knows(ledger, trie) /\ UpToDate
    BY <1>1 DEF Flush, TypeOK, BookInv
  <2>2. Load(disk') = l
    BY <1>1, <2>1 DEF Flush, Load
  <2>3. /\ l \in Ledgers /\ l.complete = trie.complete
        /\ \A f \in Indexed : Bits[l.state[f]] = BitsOf(trie, f)
        /\ \A f \in Files \ Indexed : l.state[f] = "NotStarted"
    BY <2>1, LoadV3Is
  <2>. HIDE DEF l
  <2>4. l.complete = ledger.complete
    BY <2>1, <2>3 DEF UpToDate, Knows
  <2>5. ASSUME NEW f \in Indexed
        PROVE  /\ f \in Files /\ l.state[f] \in PrefixState /\ ledger.state[f] \in PrefixState
               /\ l.state[f] = "Completed" <=> ledger.state[f] = "Completed"
               /\ l.state[f] # "InProgress" /\ ledger.state[f] # "InProgress"
    <3>1. at = None /\ OrderOf[f] # None
      BY <1>1, <2>1, Slots, FilesAssumption DEF TypeOK
    <3>2. Written(f)
      BY <2>1, <3>1 DEF Written
    <3>3. BitsOf(trie, f) = 2 <=> ledger.state[f] = "Completed"
      BY <2>1, <3>2 DEF UpToDate, Knows
    <3>4. BitsOf(trie, f) # 1
      BY <1>1 DEF BookInv, WellFormed
    <3>5. /\ f \in Files /\ l.state[f] \in PrefixState /\ ledger.state[f] \in PrefixState
          /\ Bits[l.state[f]] = 2 <=> l.state[f] = "Completed"
          /\ Bits[l.state[f]] = 1 <=> l.state[f] = "InProgress"
      BY <2>1, <2>3, BitsMean
    <3> QED
      BY <2>1, <2>3, <3>3, <3>4, <3>5 DEF NoneInWork
  <2>6. Completed(l) = Completed(ledger) \cap Indexed
    BY <2>3, <2>5 DEF Completed
  <2>7. \A f \in Indexed : needs_prefix(l, f) <=> needs_prefix(ledger, f)
    BY <2>4, <2>5 DEF needs_prefix, PrefixState
  <2> QED
    BY <2>2, <2>4, <2>6, <2>7
<1>2. TypeOK /\ BookInv /\ [Next]_vars =>
        [Flush /\ saver = "importer" =>
           LET l == Load(disk') IN
           /\ l.complete = ledger.complete
           /\ Completed(l) = Completed(ledger) \cap Indexed
           /\ \A f \in Indexed : needs_prefix(l, f) <=> needs_prefix(ledger, f)]_vars
  BY <1>1
<1> QED
  BY <1>2, Book, PTL DEF Spec, SavedIsLoaded

\* A trie of version 3 calls done what its bits and its orders say.
LEMMA DoneIn ==
    ASSUME NEW t \in Tries, t.version = 3
    PROVE  Done(Load(t)) = {f \in Indexed : BitsOf(t, f) = 2}
                             \cup {f \in Files : OrderOf[f] \in t.complete}
<1> DEFINE l == LoadV3(t)
<1>1. Load(t) = l
  BY DEF Load
<1>2. /\ l \in Ledgers /\ l.complete = t.complete
      /\ \A f \in Indexed : Bits[l.state[f]] = BitsOf(t, f)
      /\ \A f \in Files \ Indexed : l.state[f] = "NotStarted"
  BY LoadV3Is
<1> HIDE DEF l
<1>3. ASSUME NEW f \in Indexed
      PROVE  f \in Files /\ (l.state[f] = "Completed" <=> BitsOf(t, f) = 2)
  <2>1. f \in Files /\ (Bits[l.state[f]] = 2 <=> l.state[f] = "Completed")
    BY <1>2, BitsMean
  <2> QED
    BY <1>2, <2>1
<1>4. Completed(l) = {f \in Indexed : BitsOf(t, f) = 2}
  BY <1>2, <1>3 DEF Completed
<1> QED
  BY <1>1, <1>2, <1>4 DEF Done

\* While the importer writes, no key takes away what the trie calls done: the
\* ledger it writes knows of it all.
THEOREM ImporterForgetsNothing == Spec => ImporterNeverForgets
<1>1. ASSUME TypeOK, BookInv, [Next]_vars,
             saver = "importer", trie.version = 3, phase' # "down"
      PROVE  Done(Load(trie)) \subseteq Done(Load(trie'))
  <2>1. trie \in Tries /\ trie' \in Tries
    BY <1>1, TypeStep DEF TypeOK
  <2>2. /\ phase # "down" /\ Knows(ledger, trie)
        /\ Image = ledger /\ ledger \in Ledgers
    BY <1>1, FilesAssumption DEF TypeOK, BookInv, Image
  <2>3. /\ trie'.version = 3 /\ trie.complete \subseteq trie'.complete
        /\ \A f \in Indexed : BitsOf(trie, f) = 2 => BitsOf(trie', f) = 2
    <3>1. CASE WriteVersion
      BY <1>1, <3>1, WriteVersionIs DEF BitsOf
    <3>2. ASSUME NEW o \in Orders, WriteOrder(o)
          PROVE  /\ trie'.version = 3 /\ trie.complete \subseteq trie'.complete
                 /\ \A f \in Indexed : BitsOf(trie, f) = 2 => BitsOf(trie', f) = 2
      BY <1>1, <3>2, WriteOrderIs DEF BitsOf
    <3>3. CASE WriteChunk
      <4>1. /\ trie'.version = 3 /\ trie'.complete = trie.complete
            /\ \A f \in Indexed :
                 BitsOf(trie', f) = IF OrderOf[f] = at /\ Chunk(f) = chunk
                                       /\ Pack(Image.state, at, chunk) # Zero
                                    THEN Bits[Image.state[f]] ELSE BitsOf(trie, f)
        BY <1>1, <3>3, WriteChunkIs
      <4>2. \A f \in Indexed : BitsOf(trie, f) = 2 => Bits[Image.state[f]] = 2
        BY <2>2, BitsMean DEF Knows
      <4> QED
        BY <4>1, <4>2
    <3>4. CASE UNCHANGED trie
      BY <1>1, <3>4
    <3> QED
      BY <1>1, <2>2, <3>1, <3>2, <3>3, <3>4, FilesAssumption
      DEF Next, Sessions, Import, Save, ResumeFromTrie, ResumeFromJson, StartAfresh, Crash,
          Cleanup, Return, complete_prefix, fail_prefix, clear_failed, complete_order,
          SetState, SaveByImporter, SaveByCron, EndOrder, Flush, SaveFails, LogReachesDisk,
          vars
  <2> QED
    BY <1>1, <2>1, <2>3, DoneIn
<1>2. TypeOK /\ BookInv /\ [Next]_vars =>
        [saver = "importer" /\ trie.version = 3 /\ phase' # "down" =>
           Done(Load(trie)) \subseteq Done(Load(trie'))]_vars
  BY <1>1
<1> QED
  BY <1>2, Book, PTL DEF Spec, ImporterNeverForgets

---------------------------------------------------------------------------
(* A crash costs no progress.                                              *)

\* What a session has started with is in the trie, on disk and in both
\* ledgers: the saves of either write it again, if they write it.
Survives(f) ==
    /\ trie.version = 3 /\ disk.version = 3
    /\ \/ OrderOf[f] \in trie.complete \cap disk.complete
       \/ /\ f \in Indexed /\ BitsOf(trie, f) = 2 /\ BitsOf(disk, f) = 2
          /\ ledger.state[f] = "Completed" /\ snapshot.state[f] = "Completed"

KeepInv ==
    /\ phase = "migrate" => source = 1
    /\ phase = "import" /\ source = 3 => \A f \in resumed : Survives(f)

\* Keys written do not take it away.
LEMMA WritesKeep ==
    ASSUME TypeOK, BookInv, NEW f \in Files, Survives(f),
           \/ WriteVersion \/ WriteChunk \/ \E o \in Orders : WriteOrder(o)
    PROVE  Survives(f)'
<1>1. UNCHANGED <<ledger, snapshot, disk>>
  BY DEF WriteVersion, WriteChunk, WriteOrder
<1>2. /\ trie'.version = 3 /\ trie.complete \subseteq trie'.complete
      /\ f \in Indexed /\ BitsOf(trie, f) = 2 /\ Image.state[f] = "Completed" =>
            BitsOf(trie', f) = 2
  <2>1. CASE WriteVersion
    BY <2>1, WriteVersionIs DEF BitsOf
  <2>2. CASE \E o \in Orders : WriteOrder(o)
    BY <2>2, WriteOrderIs DEF BitsOf, Survives
  <2>3. CASE WriteChunk
    <3>1. /\ trie'.version = trie.version /\ trie'.complete = trie.complete
          /\ \A g \in Indexed :
               BitsOf(trie', g) = IF OrderOf[g] = at /\ Chunk(g) = chunk
                                     /\ Pack(Image.state, at, chunk) # Zero
                                  THEN Bits[Image.state[g]] ELSE BitsOf(trie, g)
      BY <2>3, WriteChunkIs
    <3> QED
      BY <3>1 DEF Bits, Survives
  <2> QED
    BY <2>1, <2>2, <2>3
<1> QED
  BY <1>1, <1>2 DEF Survives, Image

LEMMA KeepStep == TypeOK /\ BookInv /\ KeepInv /\ [Next]_vars => KeepInv'
<1> SUFFICES ASSUME TypeOK, BookInv, KeepInv, [Next]_vars PROVE KeepInv'
  OBVIOUS
<1> USE DEF save, past
<1>1. CASE ResumeFromTrie
  <2>1. /\ phase' = "import" /\ source' = trie.version /\ resumed' = Done(Load(trie))
        /\ ledger' = Recover(Load(trie)) /\ snapshot' = Recover(Load(trie))
        /\ UNCHANGED <<trie, disk>> /\ trie \in Tries /\ trie = disk
    BY <1>1 DEF ResumeFromTrie, Start, TypeOK, BookInv
  <2>2. ASSUME trie.version = 3, NEW f \in Done(Load(trie)) PROVE Survives(f)'
    <3>1. (f \in Indexed /\ BitsOf(trie, f) = 2) \/ OrderOf[f] \in trie.complete
      BY <2>1, <2>2, DoneIn
    <3>2. Knows(Recover(Load(trie)), trie)
      BY <2>1, LoadKnows DEF BookInv
    <3> QED
      BY <2>1, <2>2, <3>1, <3>2 DEF Survives, Knows
  <2> QED
    BY <2>1, <2>2 DEF KeepInv
<1>2. CASE ResumeFromJson
  BY <1>2 DEF KeepInv, ResumeFromJson
<1>3. CASE StartAfresh
  BY <1>3, DoneOfEmpty DEF KeepInv, StartAfresh, Start
<1>4. CASE Crash \/ Cleanup \/ Return
  BY <1>4 DEF KeepInv, Crash, Cleanup, Return
<1>5. CASE Import
  <2>1. UNCHANGED <<phase, source, resumed, snapshot, trie, disk>>
    BY <1>5 DEF Import, complete_prefix, fail_prefix, clear_failed, complete_order, SetState
  <2>2. \A f \in Files : ledger.state[f] = "Completed" => ledger'.state[f] = "Completed"
    <3>1. ASSUME NEW f \in Files, complete_prefix(f) \/ fail_prefix(f) \/ clear_failed(f)
          PROVE  \A g \in Files : ledger.state[g] = "Completed" => ledger'.state[g] = "Completed"
      <4>1. PICK x \in PrefixState : SetState(f, x)
        BY <3>1 DEF complete_prefix, fail_prefix, clear_failed, PrefixState
      <4>2. ledger.state[f] # "Completed" /\ ledger.state \in [Files -> PrefixState]
        BY <3>1 DEF complete_prefix, fail_prefix, clear_failed, TypeOK, Ledgers
      <4>3. ledger'.state = [ledger.state EXCEPT ![f] = x]
        BY <4>1, SetStateType
      <4> QED
        BY <4>2, <4>3
    <3>2. ASSUME NEW o \in Orders, complete_order(o)
          PROVE  ledger'.state = ledger.state
      BY <3>2, CompleteOrderType
    <3> QED
      BY <1>5, <3>1, <3>2 DEF Import
  <2> QED
    BY <2>1, <2>2 DEF KeepInv, Survives, TypeOK
<1>6. CASE SaveByImporter \/ SaveByCron \/ EndOrder \/ UNCHANGED vars
  BY <1>6 DEF KeepInv, Survives, SaveByImporter, SaveByCron, EndOrder, vars
<1>7. CASE WriteVersion \/ WriteChunk \/ \E o \in Orders : WriteOrder(o)
  <2>1. UNCHANGED <<phase, source, resumed>>
    BY <1>7 DEF WriteVersion, WriteChunk, WriteOrder
  <2> QED
    BY <1>7, <2>1, WritesKeep DEF KeepInv, TypeOK
<1>8. CASE Flush \/ SaveFails \/ LogReachesDisk
  BY <1>8 DEF KeepInv, Survives, Flush, SaveFails, LogReachesDisk
<1> QED
  BY <1>1, <1>2, <1>3, <1>4, <1>5, <1>6, <1>7, <1>8 DEF Next, Sessions, Save

\* A crash at any point of any save, of either ledger, leaves at least what the
\* session started with, if it did with a checkpoint of version 3.
THEOREM CrashesKeepProgress == Spec => []CrashKeepsProgress
<1>1. Init => KeepInv
  BY DEF Init, KeepInv
<1>2. TypeOK /\ KeepInv => CrashKeepsProgress
  <2> SUFFICES ASSUME TypeOK, KeepInv, phase = "import", source = 3, NEW f \in resumed
               PROVE  f \in Done(Loaded(disk, json))
    BY DEF CrashKeepsProgress
  <2>1. Survives(f) /\ f \in Files /\ disk \in Tries
    BY DEF KeepInv, TypeOK
  <2>2. Loaded(disk, json) = Load(disk)
    BY <2>1 DEF Loaded, Survives
  <2> QED
    BY <2>1, <2>2, DoneIn DEF Survives
<1> QED
  BY <1>1, <1>2, Book, KeepStep, PTL DEF Spec
=============================================================================
