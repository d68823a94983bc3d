------------------------ MODULE ShardSyncProofs ------------------------
(***************************************************************************)
(* Proofs about ShardSync, for any sets of threads and writes: the type    *)
(* invariant, the exclusive ownership of the Syncing state, what a Clean   *)
(* state says of the commits, and the durability that the two checkpoint   *)
(* procedures promise.                                                     *)
(***************************************************************************)
EXTENDS ShardSync, TLAPS

\* Every step keeps the variables in their types.
LEMMA TypeStep == TypeOK /\ [Next]_<<vars, ioErrors>> => TypeOK'
<1>. SUFFICES ASSUME TypeOK, [Next]_<<vars, ioErrors>> PROVE TypeOK'
  OBVIOUS
<1>0. ioErrors' = ioErrors
  BY DEF Next
<1>. USE <1>0 DEF TypeOK, Writes, Threads, SyncStates, WorkerPCs, CheckpointPCs,
             WaiterPCs, Goto, AcquireRead, ReleaseRead, MarkedDirty,
             Acknowledged, sync, lock, data, marks
<1>1. ASSUME NEW w \in Workers, NEW x \in Counts, Increment(w, x)
      PROVE  TypeOK'
  BY <1>1 DEF Increment
<1>2. ASSUME NEW w \in Workers, IncrementMark(w)
      PROVE  TypeOK'
  BY <1>2 DEF IncrementMark
<1>3. ASSUME NEW w \in Workers, QueueWrite(w) \/ CommitFails(w)
      PROVE  TypeOK'
  BY <1>3 DEF QueueWrite, CommitFails, ExclusiveGuard
<1>4. ASSUME NEW w \in Workers, NEW x \in Docs, CommitChunk(w, x)
      PROVE  TypeOK'
  BY <1>4 DEF CommitChunk, CommitDocument, ExclusiveGuard, Acknowledge
<1>5. ASSUME NEW w \in Workers, NEW x \in Docs, CommitPrefix(w, x)
      PROVE  TypeOK'
  BY <1>5 DEF CommitPrefix, CommitDocument, ExclusiveGuard, Acknowledge
<1>6. ASSUME NEW w \in Workers, NEW x \in Docs, CommitPrefixPersistFails(w, x)
      PROVE  TypeOK'
  BY <1>6 DEF CommitPrefixPersistFails, CommitDocument, ExclusiveGuard
<1>7. ASSUME NEW c \in Checkpointers, StartSync(c) \/ SkipSync(c)
      PROVE  TypeOK'
  BY <1>7 DEF StartSync, SkipSync, CheckpointCalled
<1>8. ASSUME NEW c \in Checkpointers, ClearFlag(c) \/ SyncSnapshot(c)
      PROVE  TypeOK'
  BY <1>8 DEF ClearFlag, SyncSnapshot, CaptureImage
<1>9. ASSUME NEW c \in Checkpointers, SyncWritten(c) \/ CompleteSync(c)
      PROVE  TypeOK'
  BY <1>9 DEF SyncWritten, CompleteSync
<1>10. ASSUME NEW c \in Checkpointers, NotifyWaiters(c) \/ Collect(c)
      PROVE  TypeOK'
  BY <1>10 DEF NotifyWaiters, Collect, CaptureImage
<1>11. ASSUME NEW c \in Checkpointers, RotateWal(c)
      PROVE  TypeOK'
  BY <1>11 DEF RotateWal, CheckpointCalled
<1>12. ASSUME NEW c \in Checkpointers, HandleSynced(c) \/ FinishSkipsShard(c)
      PROVE  TypeOK'
  BY <1>12 DEF HandleSynced, FinishSkipsShard
<1>13. ASSUME NEW c \in Checkpointers, FinishCheckpoints(c)
      PROVE  TypeOK'
  BY <1>13 DEF FinishCheckpoints, CaptureImage
<1>14. ASSUME NEW c \in Checkpointers, ImageWritten(c) \/ CheckpointReturns(c)
      PROVE  TypeOK'
  BY <1>14 DEF ImageWritten, CheckpointReturns
<1>15. ASSUME NEW c \in Checkpointers, CheckpointErrors(c)
      PROVE  TypeOK'
  BY <1>15 DEF CheckpointErrors, SyncError, FailSync, ImageError, HandleError
<1>16. ASSUME NEW c \in Checkpointers, FlushOverThreshold(c)
      PROVE  TypeOK'
  BY <1>16 DEF FlushOverThreshold
<1>17. ASSUME NEW v \in Waiters, WaitIfSyncing(v) \/ WaitOk(v) \/ WaitTimeout(v)
      PROVE  TypeOK'
  BY <1>17 DEF WaitIfSyncing, WaitOk, WaitTimeout, WaitEnds
<1>18. CASE UNCHANGED <<vars, ioErrors>>
  BY <1>18 DEF vars
<1>. QED
  BY <1>1, <1>2, <1>3, <1>4, <1>5, <1>6, <1>7, <1>8, <1>9, <1>10, <1>11,
     <1>12, <1>13, <1>14, <1>15, <1>16, <1>17, <1>18
  DEF Next, Increments, Commits, CommitErrors, Checkpoints,
      ParallelCheckpoint, AsyncCheckpoint, EndOfCheckpoint, Waits

\* Every reachable state of a shard and its threads is well typed.
THEOREM Typing == Spec => []TypeOK
<1>1. Init => TypeOK
  BY DEF Init, TypeOK, SyncStates, WorkerPCs, CheckpointPCs, WaiterPCs,
         Threads, Writes
<1>. QED BY <1>1, TypeStep, PTL DEF Spec

\* A step of a checkpointer moves no other thread, and a step of a worker or
\* of a waiter moves no checkpointer.
LEMMA OneMoves ==
    ASSUME TypeOK, NEW t \in Threads, NEW from, NEW to, Goto(t, from, to)
    PROVE  /\ pc[t] = from
           /\ pc'[t] = to
           /\ \A c \in Checkpointers : c # t => pc'[c] = pc[c]
BY DEF TypeOK, Goto, Threads

\* The CAS makes its winner the only owner of Syncing, and only the owner
\* gives it back.
LEMMA OwnerStep ==
    TypeOK /\ SyncingHasOneOwner /\ [Next]_<<vars, ioErrors>> => SyncingHasOneOwner'
<1>. SUFFICES ASSUME TypeOK, SyncingHasOneOwner, [Next]_<<vars, ioErrors>>
              PROVE  SyncingHasOneOwner'
  OBVIOUS
<1>. USE ThreadsAreDistinct DEF SyncingHasOneOwner, Owning, Threads, sync
<1>1. ASSUME NEW w \in Workers, NEW x \in Counts, Increment(w, x)
      PROVE  SyncingHasOneOwner'
  BY <1>1, OneMoves DEF Increment
<1>2. ASSUME NEW w \in Workers, IncrementMark(w)
      PROVE  SyncingHasOneOwner'
  BY <1>2, OneMoves DEF IncrementMark, MarkedDirty
<1>3. ASSUME NEW w \in Workers, QueueWrite(w) \/ CommitFails(w)
      PROVE  SyncingHasOneOwner'
  BY <1>3, OneMoves DEF QueueWrite, CommitFails, ExclusiveGuard
<1>4. ASSUME NEW w \in Workers, NEW x \in Docs,
             CommitChunk(w, x) \/ CommitPrefix(w, x)
                \/ CommitPrefixPersistFails(w, x)
      PROVE  SyncingHasOneOwner'
  BY <1>4, OneMoves DEF CommitChunk, CommitPrefix, CommitPrefixPersistFails,
     CommitDocument, ExclusiveGuard, MarkedDirty
<1>5. ASSUME NEW c \in Checkpointers, ParallelCheckpoint(c)
      PROVE  SyncingHasOneOwner'
  <2>1. CASE StartSync(c)
    BY <2>1, OneMoves DEF StartSync
  <2>2. CASE SkipSync(c) \/ ClearFlag(c) \/ SyncSnapshot(c) \/ SyncWritten(c)
    BY <2>2, OneMoves DEF SkipSync, ClearFlag, SyncSnapshot, CaptureImage,
       SyncWritten
  <2>3. CASE CompleteSync(c)
    BY <2>3, OneMoves DEF CompleteSync
  <2>4. CASE NotifyWaiters(c) \/ Collect(c)
    BY <2>4, OneMoves DEF NotifyWaiters, Collect, CaptureImage
  <2>. QED
    BY <1>5, <2>1, <2>2, <2>3, <2>4 DEF ParallelCheckpoint
<1>6. ASSUME NEW c \in Checkpointers,
             AsyncCheckpoint(c) \/ EndOfCheckpoint(c) \/ FlushOverThreshold(c)
      PROVE  SyncingHasOneOwner'
  BY <1>6, OneMoves DEF AsyncCheckpoint, EndOfCheckpoint, RotateWal,
     HandleSynced, FinishSkipsShard, FinishCheckpoints, CaptureImage,
     ImageWritten, CheckpointReturns, FlushOverThreshold
<1>7. ASSUME NEW c \in Checkpointers, CheckpointErrors(c)
      PROVE  SyncingHasOneOwner'
  <2>1. CASE FailSync(c)
    BY <2>1, OneMoves DEF FailSync
  <2>2. CASE SyncError(c) \/ ImageError(c) \/ HandleError(c)
    BY <2>2, OneMoves DEF SyncError, ImageError, HandleError
  <2>. QED
    BY <1>7, <2>1, <2>2 DEF CheckpointErrors
<1>8. ASSUME NEW v \in Waiters, WaitIfSyncing(v) \/ WaitOk(v) \/ WaitTimeout(v)
      PROVE  SyncingHasOneOwner'
  <2>. \A c \in Checkpointers : pc'[c] = pc[c]
    BY <1>8 DEF TypeOK, WaitIfSyncing, Goto, WaitOk, WaitTimeout, WaitEnds
  <2>. QED
    BY <1>8 DEF WaitIfSyncing, WaitOk, WaitTimeout, WaitEnds
<1>9. CASE UNCHANGED <<vars, ioErrors>>
  BY <1>9 DEF vars
<1>. QED
  BY <1>1, <1>2, <1>3, <1>4, <1>5, <1>6, <1>7, <1>8, <1>9
  DEF Next, Increments, Commits, CommitErrors, Checkpoints, Waits

\* At most one sync per shard is under way, whatever the interleaving.
THEOREM OneSyncPerShard == Spec => []SyncingHasOneOwner
<1>1. Init => SyncingHasOneOwner
  BY DEF Init, SyncingHasOneOwner, Owning, Threads
<1>. QED BY <1>1, Typing, OwnerStep, PTL DEF Spec

\* The inductive invariant of the parallel checkpoint's promise.
DurableInv == ImageHoldsFloor /\ ParallelCheckpointDurable

\* Applied and durable writes stay so, and a checkpointer's marks move only
\* in its own steps.
LEMMA DurableStep == TypeOK /\ DurableInv /\ [Next]_<<vars, ioErrors>> => DurableInv'
<1>. SUFFICES ASSUME TypeOK, DurableInv, [Next]_<<vars, ioErrors>> PROVE DurableInv'
  OBVIOUS
<1>. USE ThreadsAreDistinct
     DEF DurableInv, ImageHoldsFloor, ParallelCheckpointDurable, Threads,
         sync, lock, data, marks
<1>1. ASSUME NEW w \in Workers, NEW x \in Counts, Increment(w, x)
      PROVE  DurableInv'
  BY <1>1, OneMoves DEF Increment
<1>2. ASSUME NEW w \in Workers, IncrementMark(w)
      PROVE  DurableInv'
  BY <1>2, OneMoves DEF IncrementMark
<1>3. ASSUME NEW w \in Workers, QueueWrite(w) \/ CommitFails(w)
      PROVE  DurableInv'
  BY <1>3, OneMoves DEF QueueWrite, CommitFails, ExclusiveGuard
<1>4. ASSUME NEW w \in Workers, NEW x \in Docs,
             CommitChunk(w, x) \/ CommitPrefix(w, x)
                \/ CommitPrefixPersistFails(w, x)
      PROVE  DurableInv'
  BY <1>4, OneMoves DEF CommitChunk, CommitPrefix, CommitPrefixPersistFails,
     CommitDocument, ExclusiveGuard
<1>5. ASSUME NEW c \in Checkpointers,
             StartSync(c) \/ SkipSync(c) \/ RotateWal(c)
      PROVE  DurableInv'
  <2>1. floor'[c] \subseteq applied'
    BY <1>5 DEF StartSync, SkipSync, RotateWal, CheckpointCalled,
       Acknowledged, TypeOK
  <2>2. /\ pc'[c] \notin {"image", "saved"}
        /\ \A d \in Checkpointers : d # c =>
              pc'[d] = pc[d] /\ floor'[d] = floor[d] /\ snap'[d] = snap[d]
    BY <1>5, OneMoves DEF StartSync, SkipSync, RotateWal, CheckpointCalled,
       TypeOK
  <2>. QED
    BY <1>5, <2>1, <2>2 DEF StartSync, SkipSync, RotateWal
<1>6. ASSUME NEW c \in Checkpointers,
             SyncSnapshot(c) \/ Collect(c) \/ FinishCheckpoints(c)
      PROVE  DurableInv'
  BY <1>6, OneMoves DEF SyncSnapshot, Collect, FinishCheckpoints, CaptureImage,
     TypeOK
<1>7. ASSUME NEW c \in Checkpointers, ImageWritten(c)
      PROVE  DurableInv'
  BY <1>7, OneMoves DEF ImageWritten
<1>8. ASSUME NEW c \in Checkpointers,
             ClearFlag(c) \/ SyncWritten(c) \/ CompleteSync(c)
                \/ NotifyWaiters(c) \/ HandleSynced(c) \/ FinishSkipsShard(c)
                \/ CheckpointReturns(c) \/ CheckpointErrors(c)
      PROVE  DurableInv'
  BY <1>8, OneMoves DEF ClearFlag, SyncWritten, CompleteSync, NotifyWaiters,
     HandleSynced, FinishSkipsShard, CheckpointReturns, CheckpointErrors,
     SyncError, FailSync, ImageError, HandleError
<1>9. ASSUME NEW c \in Checkpointers, FlushOverThreshold(c)
      PROVE  DurableInv'
  BY <1>9 DEF FlushOverThreshold
<1>10. ASSUME NEW v \in Waiters, WaitIfSyncing(v) \/ WaitOk(v) \/ WaitTimeout(v)
      PROVE  DurableInv'
  <2>. \A c \in Checkpointers : pc'[c] = pc[c]
    BY <1>10 DEF TypeOK, WaitIfSyncing, Goto, WaitOk, WaitTimeout, WaitEnds
  <2>. QED
    BY <1>10 DEF WaitIfSyncing, WaitOk, WaitTimeout, WaitEnds
<1>11. CASE UNCHANGED <<vars, ioErrors>>
  BY <1>11 DEF vars
<1>. QED
  BY <1>1, <1>2, <1>3, <1>4, <1>5, <1>6, <1>7, <1>8, <1>9, <1>10, <1>11
  DEF Next, Increments, Commits, CommitErrors, Checkpoints,
      ParallelCheckpoint, AsyncCheckpoint, EndOfCheckpoint, Waits

\* A parallel checkpoint that returns Ok has made durable every write
\* acknowledged before it was called.
THEOREM ParallelCheckpointIsDurable == Spec => []ParallelCheckpointDurable
<1>1. Init => DurableInv
  BY DEF Init, DurableInv, ImageHoldsFloor, ParallelCheckpointDurable, Threads
<1>2. DurableInv => ParallelCheckpointDurable
  BY DEF DurableInv
<1>. QED BY <1>1, <1>2, Typing, DurableStep, PTL DEF Spec

---------------------------------------------------------------------------
(* What a Clean state hides, and what it does not. *)

\* A write is acknowledged when no worker has its call still open.
LEMMA AcknowledgedIs ==
    \A x : x \in Acknowledged <=> x \in applied /\ \A w \in Workers : x \notin unacked[w]
BY DEF Acknowledged

\* How the steps of the workers change what is acknowledged.
LEMMA AcknowledgedMoves ==
    ASSUME TypeOK, NEW w \in Workers
    PROVE  /\ \A x \in Counts : Increment(w, x) =>
                Acknowledged' = Acknowledged /\ applied' = applied \cup {x}
           /\ IncrementMark(w) => /\ applied' = applied
                                 /\ Acknowledged \subseteq Acknowledged'
                                 /\ Acknowledged' \subseteq Acknowledged \cup Counts
           /\ \A x \in Docs : CommitChunk(w, x) \/ CommitPrefix(w, x) =>
                /\ applied' = applied \cup {x}
                /\ Acknowledged \subseteq Acknowledged'
                /\ Acknowledged' \subseteq Acknowledged \cup {x}
           /\ \A x \in Docs : CommitPrefixPersistFails(w, x) =>
                /\ applied' = applied \cup {x}
                /\ Acknowledged' \subseteq Acknowledged
<1>. USE AcknowledgedIs DEF TypeOK, data
<1>0. \A x : x \in Acknowledged' <=> x \in applied' /\ \A v \in Workers : x \notin unacked'[v]
  BY DEF Acknowledged
<1>1. ASSUME NEW x \in Counts, Increment(w, x)
      PROVE  Acknowledged' = Acknowledged /\ applied' = applied \cup {x}
  <2>1. /\ applied' = applied \cup {x} /\ x \notin applied
        /\ \A v \in Workers : unacked'[v] = IF v = w THEN unacked[v] \cup {x} ELSE unacked[v]
    BY <1>1 DEF Increment
  <2>2. \A y : y \in Acknowledged' <=> y \in Acknowledged
    BY <1>0, <2>1
  <2>. QED BY <2>1, <2>2, SetExtensionality
<1>2. ASSUME IncrementMark(w)
      PROVE  /\ applied' = applied
             /\ Acknowledged \subseteq Acknowledged'
             /\ Acknowledged' \subseteq Acknowledged \cup Counts
  <2>1. /\ applied' = applied
        /\ \A v \in Workers : unacked'[v] = IF v = w THEN unacked[v] \ Counts ELSE unacked[v]
    BY <1>2 DEF IncrementMark
  <2>. QED BY <1>0, <2>1
<1>3. ASSUME NEW x \in Docs, CommitChunk(w, x) \/ CommitPrefix(w, x)
      PROVE  /\ applied' = applied \cup {x}
             /\ Acknowledged \subseteq Acknowledged'
             /\ Acknowledged' \subseteq Acknowledged \cup {x}
  <2>1. /\ applied' = applied \cup {x}
        /\ \A v \in Workers : unacked'[v] = unacked[v] \ {x}
    BY <1>3 DEF CommitChunk, CommitPrefix, CommitDocument, Acknowledge
  <2>. QED BY <1>0, <2>1
<1>4. ASSUME NEW x \in Docs, CommitPrefixPersistFails(w, x)
      PROVE  applied' = applied \cup {x} /\ Acknowledged' \subseteq Acknowledged
  <2>1. /\ applied' = applied \cup {x}
        /\ \A v \in Workers : unacked'[v] = IF v = w THEN unacked[v] \cup {x} ELSE unacked[v]
    BY <1>4 DEF CommitPrefixPersistFails, CommitDocument
  <2>. QED BY <1>0, <2>1
<1>. QED BY <1>1, <1>2, <1>3, <1>4

\* No commit comes between the snapshot of a sync and the Clean state, because
\* the sync holds a read guard and a commit takes the lock alone.
CommitsAreCaught ==
    \A c \in Checkpointers :
        /\ pc[c] \in {"write", "setClean"} => c \in readers
        /\ pc[c] = "write" => applied \cap Docs \subseteq snap[c]
        /\ pc[c] = "setClean" => applied \cap Docs \subseteq durable

CleanInv == CommitsAreCaught /\ CleanKeepsCommits

\* With the lock alone there is no sync between its snapshot and its end; the
\* state is then Clean only if it was, and the call has not marked it.
LEMMA CleanStep == TypeOK /\ CleanInv /\ [Next]_<<vars, ioErrors>> => CleanInv'
<1>. SUFFICES ASSUME TypeOK, CleanInv, [Next]_<<vars, ioErrors>> PROVE CleanInv'
  OBVIOUS
<1>. USE ThreadsAreDistinct, WritesAreDistinct
     DEF CleanInv, CommitsAreCaught, CleanKeepsCommits, Threads, sync, lock, data, marks
<1>0. UNCHANGED <<applied, unacked>> => Acknowledged' = Acknowledged
  BY DEF Acknowledged
<1>1. ASSUME NEW w \in Workers, NEW x \in Counts, Increment(w, x)
      PROVE  CleanInv'
  <2>1. Acknowledged' = Acknowledged /\ applied' \cap Docs = applied \cap Docs
    BY <1>1, AcknowledgedMoves
  <2>2. \A c \in Checkpointers : pc'[c] = pc[c]
    BY <1>1, OneMoves DEF Increment
  <2>. QED BY <1>1, <2>1, <2>2 DEF Increment, AcquireRead
<1>2. ASSUME NEW w \in Workers, IncrementMark(w)
      PROVE  CleanInv'
  <2>1. Acknowledged' \cap Docs = Acknowledged \cap Docs
    BY <1>2, AcknowledgedMoves
  <2>. QED BY <1>2, <2>1, OneMoves DEF IncrementMark, ReleaseRead, MarkedDirty
<1>3. ASSUME NEW w \in Workers, QueueWrite(w) \/ CommitFails(w)
      PROVE  CleanInv'
  BY <1>0, <1>3, OneMoves DEF QueueWrite, CommitFails, ExclusiveGuard
<1>4. ASSUME NEW w \in Workers, NEW x \in Docs,
             CommitChunk(w, x) \/ CommitPrefix(w, x) \/ CommitPrefixPersistFails(w, x)
      PROVE  CleanInv'
  <2>1. readers = {} /\ \A c \in Checkpointers : pc'[c] = pc[c]
    BY <1>4, OneMoves
    DEF CommitChunk, CommitPrefix, CommitPrefixPersistFails, CommitDocument, ExclusiveGuard
  <2>2. CommitsAreCaught'
    BY <2>1
  <2>3. CASE CommitChunk(w, x) \/ CommitPrefix(w, x)
    BY <2>2, <2>3 DEF CommitChunk, CommitPrefix, MarkedDirty
  <2>4. CASE CommitPrefixPersistFails(w, x)
    BY <2>2, <2>4, AcknowledgedMoves DEF CommitPrefixPersistFails
  <2>. QED BY <1>4, <2>3, <2>4
<1>5. ASSUME NEW c \in Checkpointers, ParallelCheckpoint(c)
      PROVE  CleanInv'
  <2>1. CASE StartSync(c) \/ SkipSync(c) \/ ClearFlag(c)
    BY <1>0, <2>1, OneMoves
    DEF StartSync, SkipSync, ClearFlag, CheckpointCalled, AcquireRead, ReleaseRead
  <2>2. CASE SyncSnapshot(c)
    BY <1>0, <2>2, OneMoves DEF SyncSnapshot, CaptureImage, AcquireRead, TypeOK
  <2>3. CASE SyncWritten(c)
    BY <1>0, <2>3, OneMoves DEF SyncWritten
  <2>4. CASE CompleteSync(c)
    <3>1. Acknowledged \subseteq applied
      BY AcknowledgedIs
    <3>. QED BY <1>0, <2>4, <3>1, OneMoves DEF CompleteSync
  <2>5. CASE NotifyWaiters(c) \/ Collect(c)
    BY <1>0, <2>5, OneMoves
    DEF NotifyWaiters, Collect, CaptureImage, AcquireRead, ReleaseRead, TypeOK
  <2>. QED BY <1>5, <2>1, <2>2, <2>3, <2>4, <2>5 DEF ParallelCheckpoint
<1>6. ASSUME NEW c \in Checkpointers,
             AsyncCheckpoint(c) \/ EndOfCheckpoint(c) \/ FlushOverThreshold(c)
      PROVE  CleanInv'
  BY <1>0, <1>6, OneMoves
  DEF AsyncCheckpoint, EndOfCheckpoint, RotateWal, CheckpointCalled,
      HandleSynced, FinishSkipsShard, FinishCheckpoints, CaptureImage,
      AcquireRead, ReleaseRead, ImageWritten, CheckpointReturns,
      FlushOverThreshold, TypeOK
<1>7. ASSUME NEW c \in Checkpointers, CheckpointErrors(c)
      PROVE  CleanInv'
  BY <1>0, <1>7, OneMoves
  DEF CheckpointErrors, SyncError, FailSync, ImageError, HandleError, ReleaseRead
<1>8. ASSUME NEW v \in Waiters, WaitIfSyncing(v) \/ WaitOk(v) \/ WaitTimeout(v)
      PROVE  CleanInv'
  <2>. \A c \in Checkpointers : pc'[c] = pc[c]
    BY <1>8 DEF TypeOK, WaitIfSyncing, Goto, WaitOk, WaitTimeout, WaitEnds
  <2>. QED
    BY <1>0, <1>8 DEF WaitIfSyncing, WaitOk, WaitTimeout, WaitEnds, AcquireRead,
       ReleaseRead
<1>9. CASE UNCHANGED <<vars, ioErrors>>
  BY <1>0, <1>9 DEF vars
<1>. QED
  BY <1>1, <1>2, <1>3, <1>4, <1>5, <1>6, <1>7, <1>8, <1>9
  DEF Next, Increments, Commits, CommitErrors, Checkpoints, Waits

\* A Clean shard has on disk every transaction that was acknowledged,
\* although complete_sync stores Clean without a look at the writes since.
THEOREM CleanHidesNoCommit == Spec => []CleanKeepsCommits
<1>1. Init => CleanInv
  BY AcknowledgedIs DEF Init, CleanInv, CommitsAreCaught, CleanKeepsCommits, Threads
<1>2. CleanInv => CleanKeepsCommits
  BY DEF CleanInv
<1>. QED BY <1>1, <1>2, Typing, CleanStep, PTL DEF Spec

---------------------------------------------------------------------------
(* The asynchronous checkpoint, of one checkpointer and without I/O errors. *)

\* The importer's main task is the only one that calls a checkpoint.
OneCheckpointer == \A c, d \in Checkpointers : c = d

\* What a call has to make durable stays acknowledged.  A Clean state covers all
\* that is acknowledged, except between the end of the sync of a parallel
\* checkpoint and its image of the shard, which makes up for it.
AsyncInv == ~ ioErrors =>
    /\ syncState # "SyncFailed"
    /\ \A c \in Checkpointers :
        /\ floor[c] \subseteq Acknowledged
        /\ pc[c] = "imageAsync" => floor[c] \subseteq snap[c]
        /\ pc[c] = "finished" => floor[c] \subseteq durable
        /\ syncState = "Clean" /\ pc[c] = "image" => Acknowledged \subseteq snap[c]
        /\ syncState = "Clean" /\ pc[c] \notin {"notify", "collect", "image"} =>
              Acknowledged \subseteq durable

LEMMA AsyncStep ==
    ASSUME OneCheckpointer, TypeOK, SyncingHasOneOwner, AsyncInv,
           [Next]_<<vars, ioErrors>>
    PROVE  AsyncInv'
<1>. SUFFICES ASSUME ~ ioErrors PROVE AsyncInv'
  <2>1. ioErrors' = ioErrors
    BY DEF Next
  <2>. QED BY <2>1 DEF AsyncInv
<1>. USE ThreadsAreDistinct DEF AsyncInv, Threads, sync, lock, data, marks
<1>0. /\ UNCHANGED <<applied, unacked>> => Acknowledged' = Acknowledged
      /\ Acknowledged \subseteq applied
  BY AcknowledgedIs DEF Acknowledged
<1>1. ASSUME NEW w \in Workers, NEW x \in Counts, Increment(w, x)
      PROVE  AsyncInv'
  <2>1. Acknowledged' = Acknowledged
    BY <1>1, AcknowledgedMoves
  <2>2. \A c \in Checkpointers : pc'[c] = pc[c]
    BY <1>1, OneMoves DEF Increment
  <2>. QED BY <1>1, <2>1, <2>2 DEF Increment
<1>2. ASSUME NEW w \in Workers, IncrementMark(w)
      PROVE  AsyncInv'
  <2>1. /\ Acknowledged \subseteq Acknowledged'
        /\ syncState' # "Clean" /\ (syncState' = "SyncFailed" => syncState = "SyncFailed")
    BY <1>2, AcknowledgedMoves DEF IncrementMark, MarkedDirty
  <2>2. \A c \in Checkpointers : pc'[c] = pc[c]
    BY <1>2, OneMoves DEF IncrementMark
  <2>. QED BY <1>2, <2>1, <2>2 DEF IncrementMark
<1>3. ASSUME NEW w \in Workers, QueueWrite(w)
      PROVE  AsyncInv'
  BY <1>0, <1>3, OneMoves DEF QueueWrite
<1>4. ASSUME NEW w \in Workers, NEW x \in Docs, CommitChunk(w, x) \/ CommitPrefix(w, x)
      PROVE  AsyncInv'
  <2>1. /\ Acknowledged \subseteq Acknowledged'
        /\ syncState' # "Clean" /\ (syncState' = "SyncFailed" => syncState = "SyncFailed")
    BY <1>4, AcknowledgedMoves DEF CommitChunk, CommitPrefix, MarkedDirty
  <2>2. /\ \A c \in Checkpointers : pc'[c] = pc[c]
        /\ durable \subseteq durable' /\ UNCHANGED marks
    BY <1>4, OneMoves DEF CommitChunk, CommitPrefix, CommitDocument, ExclusiveGuard
  <2>. QED BY <2>1, <2>2
<1>5. ASSUME NEW c \in Checkpointers, ParallelCheckpoint(c)
      PROVE  AsyncInv'
  <2>0. \A d \in Checkpointers : d = c
    BY DEF OneCheckpointer
  <2>1. CASE StartSync(c) \/ SkipSync(c)
    <3>1. floor'[c] = Acknowledged /\ Acknowledged' = Acknowledged
      BY <1>0, <2>1 DEF StartSync, SkipSync, CheckpointCalled, TypeOK
    <3>. QED BY <2>0, <2>1, <3>1, OneMoves DEF StartSync, SkipSync
  <2>2. CASE ClearFlag(c) \/ SyncWritten(c) \/ NotifyWaiters(c)
    <3>1. pc'[c] \in {"sync", "setClean"} => syncState = "Syncing"
      BY <2>2, OneMoves DEF ClearFlag, SyncWritten, NotifyWaiters, SyncingHasOneOwner, Owning
    <3>2. /\ pc'[c] \in {"sync", "setClean", "collect", "idle"}
          /\ pc'[c] = "idle" => pc[c] = "notifyErr"
          /\ UNCHANGED <<syncState, applied, unacked, marks>> /\ durable \subseteq durable'
      BY <2>2, OneMoves DEF ClearFlag, SyncWritten, NotifyWaiters
    <3>. QED BY <1>0, <2>0, <3>1, <3>2
  <2>3. CASE SyncSnapshot(c)
    <3>1. syncState = "Syncing" /\ pc'[c] = "write"
      BY <2>3, OneMoves DEF SyncSnapshot, SyncingHasOneOwner, Owning
    <3>. QED BY <1>0, <2>0, <2>3, <3>1 DEF SyncSnapshot, CaptureImage
  <2>4. CASE CompleteSync(c)
    BY <1>0, <2>0, <2>4, OneMoves DEF CompleteSync
  <2>5. CASE Collect(c)
    <3>1. snap'[c] = applied /\ pc'[c] = "image"
      BY <2>5, OneMoves DEF Collect, CaptureImage, TypeOK
    <3>. QED BY <1>0, <2>0, <2>5, <3>1 DEF Collect, CaptureImage
  <2>. QED BY <1>5, <2>1, <2>2, <2>3, <2>4, <2>5 DEF ParallelCheckpoint
<1>6. ASSUME NEW c \in Checkpointers,
             AsyncCheckpoint(c) \/ EndOfCheckpoint(c) \/ FlushOverThreshold(c)
      PROVE  AsyncInv'
  <2>0. \A d \in Checkpointers : d = c
    BY DEF OneCheckpointer
  <2>1. CASE RotateWal(c)
    <3>1. floor'[c] = Acknowledged /\ Acknowledged' = Acknowledged
      BY <1>0, <2>1 DEF RotateWal, CheckpointCalled, TypeOK
    <3>. QED BY <2>0, <2>1, <3>1, OneMoves DEF RotateWal
  <2>2. CASE HandleSynced(c) \/ ImageWritten(c) \/ CheckpointReturns(c)
    BY <1>0, <2>0, <2>2, OneMoves DEF HandleSynced, ImageWritten, CheckpointReturns
  <2>3. CASE FinishSkipsShard(c)
    <3>1. pc[c] = "finish" /\ pc'[c] = "finished" /\ syncState # "Dirty"
      BY <2>3, OneMoves DEF FinishSkipsShard
    <3>2. syncState = "Clean"
      BY <2>0, <3>1 DEF TypeOK, SyncStates, SyncingHasOneOwner, Owning
    <3>. QED BY <1>0, <2>0, <2>3, <3>1, <3>2 DEF FinishSkipsShard
  <2>4. CASE FinishCheckpoints(c)
    <3>1. snap'[c] = applied /\ pc'[c] = "imageAsync" /\ syncState = "Dirty"
      BY <2>4, OneMoves DEF FinishCheckpoints, CaptureImage, TypeOK
    <3>. QED BY <1>0, <2>0, <2>4, <3>1 DEF FinishCheckpoints, CaptureImage
  <2>5. CASE FlushOverThreshold(c)
    BY <1>0, <2>5 DEF FlushOverThreshold
  <2>. QED BY <1>6, <2>1, <2>2, <2>3, <2>4, <2>5 DEF AsyncCheckpoint, EndOfCheckpoint
<1>7. ASSUME NEW v \in Waiters, WaitIfSyncing(v) \/ WaitOk(v) \/ WaitTimeout(v)
      PROVE  AsyncInv'
  <2>. \A c \in Checkpointers : pc'[c] = pc[c]
    BY <1>7 DEF TypeOK, WaitIfSyncing, Goto, WaitOk, WaitTimeout, WaitEnds
  <2>. QED BY <1>0, <1>7 DEF WaitIfSyncing, WaitOk, WaitTimeout, WaitEnds
<1>8. CASE UNCHANGED <<vars, ioErrors>>
  BY <1>0, <1>8 DEF vars
<1>. QED
  BY <1>1, <1>2, <1>3, <1>4, <1>5, <1>6, <1>7, <1>8
  DEF Next, Increments, Commits, Checkpoints, Waits

\* When the one checkpointer's coordinated_checkpoint_async has finished without
\* an I/O error, all that was acknowledged before the call is durable, although
\* the finish phase skips every shard that is not dirty.
THEOREM AsyncCheckpointIsDurable ==
    ASSUME OneCheckpointer
    PROVE  Spec => []AsyncCheckpointDurable
<1>1. Init => AsyncInv
  BY AcknowledgedIs DEF Init, AsyncInv, Threads
<1>2. AsyncInv => AsyncCheckpointDurable
  BY DEF AsyncInv, AsyncCheckpointDurable
<1>3. TypeOK /\ SyncingHasOneOwner /\ AsyncInv /\ [Next]_<<vars, ioErrors>> => AsyncInv'
  BY AsyncStep
<1>. QED BY <1>1, <1>2, <1>3, Typing, OneSyncPerShard, PTL DEF Spec
=========================================================================
