---------------------------- MODULE ShardSync ----------------------------
(***************************************************************************)
(* One shard of the sharded n-gram store: the sync state machine of        *)
(* sharding/shard.rs (ShardSyncCoordinator), the RwLock the coordinator    *)
(* wraps around the shard, the writers of sharding/coordinator/routing.rs  *)
(* and transactions.rs, and the two checkpoint procedures of               *)
(* sharding/coordinator/sync.rs that run beside them.                      *)
(*                                                                         *)
(* What a write leaves behind is a member of Writes.  It is `applied' when *)
(* readers of the trie see it and `durable' when a crash keeps it: a       *)
(* checkpoint() of the trie makes every applied write durable, a WAL sync  *)
(* only those that went through a document transaction (`wal'), because    *)
(* the lock-free increments are not in the WAL (shard.rs:795-802).         *)
(***************************************************************************)
EXTENDS Naturals, FiniteSets

CONSTANTS
    Workers,        \* import worker threads
    Checkpointers,  \* threads that run a coordinator checkpoint
    Waiters,        \* threads that call wait_if_syncing
    Counts,         \* the lock-free increments made to the shard
    Docs            \* the transactions' batches of SET writes

ASSUME ThreadsAreDistinct ==
    /\ Workers \cap Checkpointers = {}
    /\ Workers \cap Waiters = {}
    /\ Checkpointers \cap Waiters = {}

ASSUME WritesAreDistinct == Counts \cap Docs = {}

Writes == Counts \cup Docs

VARIABLES
    syncState,   \* ShardSyncCoordinator.state
    completed,   \* the flag that sync_complete's mutex protects
    readers,     \* threads that hold shard.read()
    queued,      \* workers blocked in shard.write()
    applied, wal, durable,
    unacked,     \* applied writes whose call has not returned Ok to the worker
    pc,          \* where each thread stands
    snap,        \* what the checkpoint or rotation under way captured
    floor,       \* what was applied when the thread's checkpoint was called
    ioErrors     \* whether the disk may fail in this behaviour

sync  == <<syncState, completed>>
lock  == <<readers, queued>>
data  == <<applied, wal, durable, unacked>>
marks == <<snap, floor>>
vars  == <<sync, lock, data, marks, pc>>

Threads == Workers \cup Checkpointers \cup Waiters

SyncStates == {"Clean", "Dirty", "Syncing", "SyncFailed"}

WorkerPCs == {"idle", "mark", "queued"}
CheckpointPCs == {"idle", "start", "clearFlag", "sync", "write", "setClean",
                  "setFailed", "notify", "notifyErr", "collect",
                  "image", "saved",
                  "waitHandle", "finish", "imageAsync", "finished"}
WaiterPCs == {"idle", "waiting"}

\* The program counters at which a checkpointer owns the Syncing state.
Owning == {"clearFlag", "sync", "write", "setClean", "setFailed"}

Init ==
    /\ syncState = "Clean"
    /\ completed = TRUE
    /\ readers = {}
    /\ queued = {}
    /\ applied = {} /\ wal = {} /\ durable = {}
    /\ unacked = [w \in Workers |-> {}]
    /\ pc = [t \in Threads |-> "idle"]
    /\ snap = [c \in Checkpointers |-> {}]
    /\ floor = [c \in Checkpointers |-> {}]
    /\ ioErrors \in BOOLEAN

\* The writes whose call has returned Ok.
Acknowledged == applied \ UNION {unacked[w] : w \in Workers}

Goto(t, from, to) == pc[t] = from /\ pc' = [pc EXCEPT ![t] = to]


\* Mutant of CanRead: a lock that lets readers pass a queued writer.
CanReadBarging == TRUE

\* parking_lot's RwLock is task-fair: a reader waits behind a queued writer.
CanRead == queued = {}

AcquireRead(t) == CanRead /\ readers' = readers \cup {t}
ReleaseRead(t) == readers' = readers \ {t}

\* mark_dirty: the CAS loop ends without a change in every state but Clean.
MarkedDirty == IF syncState = "Clean" THEN "Dirty" ELSE syncState

---------------------------------------------------------------------------
(* Writers. *)


\* store_in_shard under shard.read(): increment_cas applies the count ...
Increment(w, x) ==
    /\ Goto(w, "idle", "mark")
    /\ AcquireRead(w)
    /\ x \notin applied
    /\ applied' = applied \cup {x}
    /\ unacked' = [unacked EXCEPT ![w] = @ \cup {x}]
    /\ UNCHANGED <<sync, queued, wal, durable, marks>>

\* ... and mark_dirty runs before the guard is dropped.
IncrementMark(w) ==
    /\ Goto(w, "mark", "idle")
    /\ syncState' = MarkedDirty
    /\ unacked' = [unacked EXCEPT ![w] = @ \ Counts]
    /\ ReleaseRead(w)
    /\ UNCHANGED <<completed, queued, applied, wal, durable, marks>>

\* commit_chunk_tx and commit_prefix_tx block in tx.shard.write().
QueueWrite(w) ==
    /\ Goto(w, "idle", "queued")
    /\ queued' = queued \cup {w}
    /\ UNCHANGED <<sync, readers, data, marks>>

\* The exclusive guard is granted, and dropped when the commit returns.
ExclusiveGuard(w) ==
    /\ Goto(w, "queued", "idle")
    /\ readers = {}
    /\ queued' = queued \ {w}
    /\ UNCHANGED <<completed, readers, marks>>

\* commit_document logs the transaction's writes and applies them.
CommitDocument(w, x) ==
    /\ ExclusiveGuard(w)
    /\ applied' = applied \cup {x}
    /\ wal' = wal \cup {x}

Acknowledge(x) == unacked' = [v \in Workers |-> unacked[v] \ {x}]

CommitChunk(w, x) ==
    /\ CommitDocument(w, x)
    /\ Acknowledge(x)
    /\ syncState' = MarkedDirty
    /\ UNCHANGED durable

\* commit_prefix also records the prefix and syncs the WAL ...
CommitPrefix(w, x) ==
    /\ CommitDocument(w, x)
    /\ Acknowledge(x)
    /\ durable' = durable \cup wal'
    /\ syncState' = MarkedDirty

\* ... and when that sync fails it returns before mark_dirty.
CommitPrefixPersistFails(w, x) ==
    /\ CommitDocument(w, x)
    /\ unacked' = [unacked EXCEPT ![w] = @ \cup {x}]
    /\ UNCHANGED <<durable, syncState>>

\* commit_document itself fails: nothing was applied.
CommitFails(w) ==
    /\ ExclusiveGuard(w)
    /\ UNCHANGED <<syncState, applied, wal, durable, unacked>>

---------------------------------------------------------------------------
(* sync_all_parallel on this shard, as coordinated_checkpoint_parallel     *)
(* calls it.                                                               *)

CheckpointCalled(c) ==
    /\ CanRead
    /\ floor' = [floor EXCEPT ![c] = Acknowledged]


\* Mutant of StartSync: a store in place of the compare-exchange.
StartSyncNoCas(c) ==
    /\ CheckpointCalled(c)
    /\ syncState \in {"Dirty", "Syncing"}
    /\ Goto(c, "idle", "clearFlag")
    /\ syncState' = "Syncing"
    /\ AcquireRead(c)
    /\ UNCHANGED <<completed, queued, data, snap>>

\* The dirty filter and the CAS Dirty -> Syncing of try_start_sync are one
\* test of the state, because a shard that fails either one is skipped.
StartSync(c) ==
    /\ CheckpointCalled(c)
    /\ syncState = "Dirty"
    /\ Goto(c, "idle", "clearFlag")
    /\ syncState' = "Syncing"
    /\ AcquireRead(c)
    /\ UNCHANGED <<completed, queued, data, snap>>

SkipSync(c) ==
    /\ CheckpointCalled(c)
    /\ syncState # "Dirty"
    /\ Goto(c, "idle", "collect")
    /\ UNCHANGED <<sync, lock, data, snap>>

\* try_start_sync resets the flag only after the CAS; the guard is dropped.
ClearFlag(c) ==
    /\ Goto(c, "clearFlag", "sync")
    /\ completed' = FALSE
    /\ ReleaseRead(c)
    /\ UNCHANGED <<syncState, queued, data, marks>>

\* trie.checkpoint() captures the overlay under shard.read().
CaptureImage(c) ==
    /\ AcquireRead(c)
    /\ snap' = [snap EXCEPT ![c] = applied]
    /\ UNCHANGED <<sync, queued, data, floor>>


\* Mutant of SyncSnapshot: the guard of try_start_sync's block is not retaken.
SyncSnapshotNoGuard(c) ==
    /\ Goto(c, "sync", "write")
    /\ snap' = [snap EXCEPT ![c] = applied]
    /\ UNCHANGED <<sync, lock, data, floor>>

\* ShardHandle::sync takes the overlay snapshot under a new read guard ...
SyncSnapshot(c) == Goto(c, "sync", "write") /\ CaptureImage(c)

\* ... and writes it out, or fails.
SyncWritten(c) ==
    /\ Goto(c, "write", "setClean")
    /\ durable' = durable \cup snap[c]
    /\ UNCHANGED <<sync, lock, applied, wal, unacked, marks>>

SyncError(c) ==
    /\ Goto(c, "write", "setFailed")
    /\ UNCHANGED <<sync, lock, data, marks>>


\* Mutant of CompleteSync: the state is not reset.
CompleteSyncNoReset(c) ==
    Goto(c, "setClean", "notify") /\ UNCHANGED <<sync, lock, data, marks>>

\* complete_sync stores Clean whatever was written since the snapshot ...
CompleteSync(c) ==
    /\ Goto(c, "setClean", "notify")
    /\ syncState' = "Clean"
    /\ UNCHANGED <<completed, lock, data, marks>>

FailSync(c) ==
    /\ Goto(c, "setFailed", "notifyErr")
    /\ syncState' = "SyncFailed"
    /\ UNCHANGED <<completed, lock, data, marks>>

\* ... and then sets the flag and wakes the waiters.
NotifyWaiters(c) ==
    /\ \/ Goto(c, "notify", "collect")
       \/ Goto(c, "notifyErr", "idle")     \* ParallelSyncFailed is returned
    /\ completed' = TRUE
    /\ ReleaseRead(c)
    /\ UNCHANGED <<syncState, queued, data, marks>>

---------------------------------------------------------------------------
(* The checkpoints that publish a shard's state in the global checkpoint.  *)


\* Mutant of Collect: clean shards are published without a checkpoint, as the
\* finish phase of the asynchronous checkpoint does.
CollectSkipsClean(c) ==
    \/ syncState = "Dirty" /\ Goto(c, "collect", "image") /\ CaptureImage(c)
    \/ /\ syncState # "Dirty"
       /\ Goto(c, "collect", "saved")
       /\ UNCHANGED <<sync, lock, data, marks>>

\* Step 2 of coordinated_checkpoint_parallel checkpoints every shard.
Collect(c) == Goto(c, "collect", "image") /\ CaptureImage(c)

\* The image is written and the shard's record copied into the checkpoint.
ImageWritten(c) ==
    /\ \/ Goto(c, "image", "saved")
       \/ Goto(c, "imageAsync", "finished")
    /\ durable' = durable \cup snap[c]
    /\ ReleaseRead(c)
    /\ UNCHANGED <<sync, queued, applied, wal, unacked, marks>>

ImageError(c) ==
    /\ Goto(c, "image", "idle") \/ Goto(c, "imageAsync", "idle")
    /\ ReleaseRead(c)
    /\ UNCHANGED <<sync, queued, data, marks>>

\* sync_all_async: a dirty shard rotates its WAL and returns a handle, a
\* shard in any other state returns none.
RotateWal(c) ==
    /\ CheckpointCalled(c)
    /\ \/ syncState = "Dirty" /\ Goto(c, "idle", "waitHandle")
       \/ syncState # "Dirty" /\ Goto(c, "idle", "finish")
    /\ snap' = [snap EXCEPT ![c] = wal]
    /\ UNCHANGED <<sync, lock, data>>

\* wait_all_parallel: the rotated segment has reached the disk, or not.
HandleSynced(c) ==
    /\ Goto(c, "waitHandle", "finish")
    /\ durable' = durable \cup snap[c]
    /\ UNCHANGED <<sync, lock, applied, wal, unacked, marks>>

HandleError(c) ==
    /\ Goto(c, "waitHandle", "idle")
    /\ UNCHANGED <<sync, lock, data, marks>>


\* Mutant of FinishSkipsShard: no shard is checkpointed again.
FinishSkipsAny(c) ==
    /\ CanRead
    /\ Goto(c, "finish", "finished")
    /\ UNCHANGED <<sync, lock, data, marks>>

\* coordinated_checkpoint_finish_with_progress publishes the state of a shard
\* that is not dirty without checkpointing it.
FinishSkipsShard(c) ==
    /\ CanRead
    /\ syncState # "Dirty"
    /\ Goto(c, "finish", "finished")
    /\ UNCHANGED <<sync, lock, data, marks>>

FinishCheckpoints(c) ==
    /\ syncState = "Dirty"
    /\ Goto(c, "finish", "imageAsync")
    /\ CaptureImage(c)

\* The checkpoint returned Ok to the import loop.
CheckpointReturns(c) ==
    /\ Goto(c, "saved", "idle") \/ Goto(c, "finished", "idle")
    /\ UNCHANGED <<sync, lock, data, marks>>

\* flush_lockfree_over_threshold, called by the import loop between results.
FlushOverThreshold(c) ==
    /\ pc[c] = "idle"
    /\ CanRead
    /\ durable' = durable \cup applied
    /\ UNCHANGED <<sync, lock, applied, wal, unacked, marks, pc>>

---------------------------------------------------------------------------
(* wait_if_syncing: the read guard is held for the whole wait. *)

WaitIfSyncing(v) ==
    /\ syncState = "Syncing"
    /\ Goto(v, "idle", "waiting")
    /\ AcquireRead(v)
    /\ UNCHANGED <<sync, queued, data, marks>>

WaitEnds(v) ==
    /\ pc[v] = "waiting"
    /\ pc' = [pc EXCEPT ![v] = "idle"]
    /\ ReleaseRead(v)
    /\ UNCHANGED <<sync, queued, data, marks>>

WaitOk(v) == completed /\ WaitEnds(v)

WaitTimeout(v) == ~completed /\ WaitEnds(v)

---------------------------------------------------------------------------
Increments == \E w \in Workers :
    IncrementMark(w) \/ \E x \in Counts : Increment(w, x)

Commits == \E w \in Workers :
    \/ QueueWrite(w)
    \/ \E x \in Docs : CommitChunk(w, x) \/ CommitPrefix(w, x)

CommitErrors == \E w \in Workers :
    \/ CommitFails(w)
    \/ \E x \in Docs : CommitPrefixPersistFails(w, x)

ParallelCheckpoint(c) ==
    \/ StartSync(c) \/ SkipSync(c) \/ ClearFlag(c) \/ SyncSnapshot(c)
    \/ SyncWritten(c) \/ CompleteSync(c) \/ NotifyWaiters(c) \/ Collect(c)

AsyncCheckpoint(c) ==
    \/ RotateWal(c) \/ HandleSynced(c) \/ FinishSkipsShard(c)
    \/ FinishCheckpoints(c)

EndOfCheckpoint(c) == ImageWritten(c) \/ CheckpointReturns(c)

CheckpointErrors(c) ==
    SyncError(c) \/ FailSync(c) \/ ImageError(c) \/ HandleError(c)

Checkpoints == \E c \in Checkpointers :
    \/ ParallelCheckpoint(c) \/ AsyncCheckpoint(c) \/ EndOfCheckpoint(c)
    \/ FlushOverThreshold(c)

Waits == \E v \in Waiters :
    WaitIfSyncing(v) \/ WaitOk(v) \/ WaitTimeout(v)

Next ==
    /\ \/ Increments \/ Commits \/ Checkpoints \/ Waits
       \/ ioErrors /\ CommitErrors
       \/ ioErrors /\ \E c \in Checkpointers : CheckpointErrors(c)
    /\ UNCHANGED ioErrors

Spec == Init /\ [][Next]_<<vars, ioErrors>>

\* The threads run on: an increment under way is marked, a queued commit gets
\* the lock once the readers are gone, a wait ends by the flag or its timeout.
\* A started checkpoint goes on under strong fairness, because the task-fair
\* lock lets its read guard through between one writer and the next.
Fairness ==
    /\ \A w \in Workers :
          /\ WF_vars(IncrementMark(w))
          /\ WF_vars(\E x \in Docs : CommitChunk(w, x))
    /\ \A c \in Checkpointers : SF_vars(
          /\ pc[c] # "idle"
          /\ \/ ParallelCheckpoint(c) \/ AsyncCheckpoint(c)
             \/ EndOfCheckpoint(c) \/ FailSync(c))
    /\ \A v \in Waiters : WF_vars(WaitOk(v) \/ WaitTimeout(v))

FairSpec == Spec /\ Fairness
---------------------------------------------------------------------------
(* Properties. *)

TypeOK ==
    /\ syncState \in SyncStates
    /\ completed \in BOOLEAN
    /\ readers \subseteq Threads
    /\ queued \subseteq Workers
    /\ unacked \in [Workers -> SUBSET Writes]
    /\ applied \subseteq Writes /\ wal \subseteq Docs /\ durable \subseteq Writes
    /\ pc \in [Threads -> WorkerPCs \cup CheckpointPCs \cup WaiterPCs]
    /\ snap \in [Checkpointers -> SUBSET Writes]
    /\ floor \in [Checkpointers -> SUBSET Writes]
    /\ ioErrors \in BOOLEAN

\* Owning the Syncing state is exclusive, although it is taken by a CAS and
\* given back by a plain store: the state is Syncing exactly while one
\* checkpointer is between its try_start_sync and its complete_sync or
\* fail_sync (shard.rs:241-305, sync.rs:189 "only one sync operation per
\* shard at a time").
SyncingHasOneOwner ==
    /\ syncState = "Syncing" <=> \E c \in Checkpointers : pc[c] \in Owning
    /\ \A c, d \in Checkpointers :
          pc[c] \in Owning /\ pc[d] \in Owning => c = d

\* When coordinated_checkpoint_parallel returns Ok, every write acknowledged
\* before the call survives a crash, whatever the other checkpointers
\* and the writers did meanwhile (sync.rs:568-628).
ParallelCheckpointDurable ==
    \A c \in Checkpointers : pc[c] = "saved" => floor[c] \subseteq durable

\* What makes it inductive: the writes the call promises stay applied, and
\* the image that the last step writes holds them.
ImageHoldsFloor ==
    \A c \in Checkpointers :
        /\ floor[c] \subseteq applied
        /\ pc[c] = "image" => floor[c] \subseteq snap[c]

\* The same promise of the asynchronous checkpoint (coordinator/mod.rs,
\* CheckpointHandle::wait_all: "all data written before
\* coordinated_checkpoint_async() is durable"), which it keeps with one
\* checkpointer, as the importer has, and without I/O errors: after one, a
\* shard that is SyncFailed, or Clean with a lost increment, is skipped.
AsyncCheckpointDurable ==
    ~ ioErrors =>
        \A c \in Checkpointers : pc[c] = "finished" => floor[c] \subseteq durable

\* A Clean shard is "fully persisted" (shard.rs:127) as far as the transactions
\* go: complete_sync never hides a commit that a crash would lose.  For the
\* increments, which run beside a sync, it does.
CleanKeepsCommits ==
    syncState = "Clean" => Acknowledged \cap Docs \subseteq durable

\* No shard stays Syncing: workers that defer on is_syncing get it back, even
\* with a waiter's guard and a queued writer in the way.
SyncingEnds == syncState = "Syncing" ~> syncState # "Syncing"

\* A queued commit is not starved by checkpoints and waiters.
CommitsGoThrough == \A w \in Workers : w \in queued ~> w \notin queued

===========================================================================
