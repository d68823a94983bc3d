-------------------------- MODULE ReactiveImport --------------------------
(***************************************************************************)
(* One call of import_http_reactive (importer/import_ops.rs): the main     *)
(* task, its pool of worker_task's (importer/worker_pool.rs), the shared   *)
(* job queue, the bounded result and exit channels, the commands of the    *)
(* TUI, the checkpoints the main task saves and the clean-up of            *)
(* state_machine.rs.                                                       *)
(*                                                                         *)
(* A file is one prefix of one n-gram order.  What the tries hold of a     *)
(* file is its `content': nothing; some of its counts, none of them twice  *)
(* (part); all of them once; some missing and some twice (mixed); all of   *)
(* them and some twice (over).  Backoff and the jitter of the all-deferred *)
(* sleep are time: a job that is not ready yet has `wait'.                 *)
(***************************************************************************)
EXTENDS Integers, FiniteSets, Sequences, Functions

CONSTANTS
    Files,          \* the prefixes of all orders
    Orders,         \* the orders of the configuration, 1 first
    OrderOf,        \* the order of each file
    Histories,      \* what earlier sessions may have left on disk
    Parallelism,    \* config.parallel_downloads
    MaxRetries,     \* MAX_RETRIES, 5 in the code
    Interval,       \* files between periodic checkpoints, 5 or 10
    Transactional,  \* are prefixes imported through a transaction?
    SaveMayFail,    \* can a checkpoint end in an I/O error?
    Commands,       \* the commands the user gives besides SetParallelism
    Targets,        \* the arguments of SetParallelism
    MaxResizes,     \* bound: how often SetParallelism is given
    MaxWorkers      \* bound: how many workers are ever spawned

ASSUME FilesAssumption ==
    /\ IsFiniteSet(Files)
    /\ Orders \subseteq Nat /\ IsFiniteSet(Orders)
    /\ OrderOf \in [Files -> Orders]

ASSUME NumbersAssumption ==
    /\ Parallelism \in Nat \ {0} /\ Parallelism <= MaxWorkers
    /\ MaxRetries \in Nat /\ Interval \in Nat \ {0}
    /\ MaxResizes \in Nat /\ MaxWorkers \in Nat
    /\ Targets \subseteq Nat
    /\ Transactional \in BOOLEAN /\ SaveMayFail \in BOOLEAN

PrefixStates == {"none", "Completed", "Failed"}
Contents     == {"none", "part", "once", "mixed", "over"}
Ledgers      == [Files -> PrefixStates]

ASSUME HistoriesAssumption ==
    Histories \subseteq [ledger : Ledgers, closed : SUBSET Orders,
                         content : [Files -> Contents]]

\* All of a file's counts are there.
Whole == {"once", "over"}

\* The data of a Completed file is there when a session starts.
ASSUME HistoriesAreDurable ==
    \A h \in Histories : \A f \in Files :
        h.ledger[f] = "Completed" => h.content[f] \in Whole

Workers  == 0 .. (MaxWorkers - 1)
Jobs     == [file : Files, attempt : 0 .. MaxRetries, wait : BOOLEAN]
Outcomes == {"Success", "Failed"}   \* JobOutcome; Skipped is handled as Failed
Results  == [file : Files, outcome : Outcomes]
Nothing  == [file |-> "none"]

WorkerPCs == {"unborn", "idle", "got", "pausing", "work", "half", "send",
              "exit", "gone"}
MainPCs   == {"plan", "head", "select", "drain", "sync", "write", "join", "done"}
SaveReasons == {"none", "failure", "periodic", "emergency", "cancel", "final"}
Endings   == {"running", "nothing", "ok", "interrupted", "error", "abandoned"}

VARIABLES
    ledger, closed,      \* self.checkpoint: prefix_states and is_complete
    saved, durable,      \* the checkpoint and the contents a crash keeps
    stuck,               \* files in shards whose sync has failed
    content,             \* what the tries hold of each file
    mpc, why, ending,    \* the main task: where, why it saves, what it returns
    pendingOf, done,     \* jobs_per_order, order_files_completed
    pending, retries,    \* total_pending, failed_retry_count
    received,            \* results_received
    active, handles,     \* active_workers, the keys of worker_handles
    nextId,              \* next_worker_id
    queue, results,      \* the job queue and the result channel
    exits, resize,       \* the exit and the parallelism channel
    queueSize,           \* shared.queue_size
    pc, hold,            \* the workers: where, and the job or result they hold
    stopping, aborted,   \* workers told to shut down, workers aborted
    paused, cancelled, forced, \* the flags the commands set
    target,              \* current_parallelism
    resizes              \* SetParallelism commands given so far

book    == <<ledger, closed>>
disk    == <<saved, durable, stuck>>
data    == <<content, durable>>
phase   == <<mpc, why, ending>>
plan    == <<pendingOf, pending, retries>>
tally   == <<done, received>>
crew    == <<active, handles, nextId>>
signals == <<stopping, aborted>>
flags   == <<paused, cancelled, forced, target, resizes>>
work    == <<queue, queueSize>>
place   == <<pc, hold>>
vars    == <<book, disk, content, phase, plan, tally, crew, work, results,
             exits, resize, place, signals, flags>>

\* What only the main task changes.
mainVars == <<book, saved, stuck, phase, plan, tally, crew, resize, signals>>

FilesOf(o) == {f \in Files : OrderOf[f] = o}

\* needs_prefix: neither completed nor of an order that is complete.
Needs(f) == OrderOf[f] \notin closed /\ ledger[f] # "Completed"

FailedFiles == {f \in Files : ledger[f] = "Failed"}

ChannelSize == 2 * Parallelism

\* Mutant of QueueCapacity: no room for the failed prefixes.
QueueCapacityForPending == pending

\* The capacity of the job queue.
QueueCapacity == pending + retries + Parallelism * MaxRetries + 1

Init ==
    /\ \E h \in Histories :
        /\ ledger = h.ledger /\ closed = h.closed
        /\ saved = [ledger |-> h.ledger, closed |-> h.closed]
        /\ content = h.content /\ durable = h.content
    /\ stuck = {}
    /\ mpc = "plan" /\ why = "none" /\ ending = "running"
    /\ pendingOf = [o \in Orders |-> 0] /\ done = [o \in Orders |-> 0]
    /\ pending = 0 /\ retries = 0 /\ received = 0
    /\ active = 0 /\ handles = {} /\ nextId = 0
    /\ queue = <<>> /\ results = <<>> /\ exits = <<>> /\ resize = <<>>
    /\ queueSize = 0
    /\ pc = [w \in Workers |-> "unborn"]
    /\ hold = [w \in Workers |-> Nothing]
    /\ stopping = {} /\ aborted = {}
    /\ paused = FALSE /\ cancelled = FALSE /\ forced = FALSE
    /\ target = Parallelism /\ resizes = 0

---------------------------------------------------------------------------
(* The main task counts and queues the work, before anything else runs.    *)

PendingIn(o) == {f \in FilesOf(o) : Needs(f)}

\* Orders with nothing pending are completed on the spot.
ClosedByPlan == closed \cup {o \in Orders : FilesOf(o) # {} /\ PendingIn(o) = {}}

CountPending ==
    /\ closed' = ClosedByPlan
    /\ pendingOf' = [o \in Orders |-> Cardinality(PendingIn(o))]
    /\ pending' = Cardinality({f \in Files : Needs(f)})

\* Every order is complete already: build_stats, before any retry is queued.
PlanNothing ==
    /\ mpc = "plan"
    /\ \A f \in Files : ~ Needs(f)
    /\ CountPending
    /\ mpc' = "done" /\ ending' = "nothing"
    /\ UNCHANGED <<ledger, disk, content, why, retries, tally, crew, work,
                   results, exits, resize, place, signals, flags>>

\* The times a file is queued: as a failed prefix and as a pending one.
TimesQueued(f) ==
    (IF ledger[f] = "Failed" THEN 1 ELSE 0) + (IF Needs(f) THEN 1 ELSE 0)

JobCount == Cardinality({f \in Files : Needs(f)}) + Cardinality(FailedFiles)

\* The queue holds each file that often, lower orders first.  The sequence
\* within an order is that of a HashMap and of the prefix list: any.
Fillings ==
    {q \in [1 .. JobCount -> [file : Files, attempt : {0}, wait : {FALSE}]] :
        /\ \A f \in Files :
             Cardinality({i \in DOMAIN q : q[i].file = f}) = TimesQueued(f)
        /\ \A i, j \in DOMAIN q :
             i < j => OrderOf[q[i].file] <= OrderOf[q[j].file]}

SpawnFirst ==
    /\ active' = Parallelism
    /\ handles' = 0 .. (Parallelism - 1)
    /\ nextId' = Parallelism
    /\ pc' = [w \in Workers |-> IF w < Parallelism THEN "idle" ELSE "unborn"]

PlanWork ==
    /\ mpc = "plan"
    /\ \E f \in Files : Needs(f)
    /\ CountPending
    /\ retries' = Cardinality(FailedFiles)
    /\ done' = [o \in Orders |->
                 IF PendingIn(o) = {} THEN 0
                 ELSE Cardinality(FilesOf(o)) - Cardinality(PendingIn(o))]
    /\ ledger' = [f \in Files |->
                   IF ledger[f] = "Failed" THEN "none" ELSE ledger[f]]
    /\ queue' \in Fillings
    /\ queueSize' = JobCount
    /\ SpawnFirst
    /\ mpc' = "head"
    /\ UNCHANGED <<disk, content, why, ending, received, results, exits,
                   resize, hold, signals, flags>>

---------------------------------------------------------------------------
(* Checkpoints and clean-up. *)

SaveFor(reason) == mpc' = "sync" /\ why' = reason

\* The bitmap chunk of an order is written only when it is not empty, and no
\* key is ever removed, so an order without states keeps its old chunk.
OnDisk ==
    [ledger |-> [f \in Files |->
                  IF \E g \in FilesOf(OrderOf[f]) : ledger[g] # "none"
                  THEN ledger[f] ELSE saved.ledger[f]],
     closed |-> saved.closed \cup closed]

\* cleanup_reactive_import_resources: abort, signal everyone, then await them.
EnterCleanup(result, abort) ==
    /\ mpc' = "join"
    /\ ending' = result
    /\ aborted' = IF abort THEN aborted \cup handles ELSE aborted
    /\ stopping' = stopping \cup handles

\* What the main task does once save_checkpoint has returned.
AfterSave(ok) ==
    /\ why' = "none"
    /\ \/ /\ why = "failure" \/ (why = "periodic" /\ ok)
          /\ mpc' = "head"
          /\ UNCHANGED <<ending, signals>>
       \/ /\ why = "periodic" /\ ~ ok
          /\ mpc' = "done" /\ ending' = "abandoned"
          /\ UNCHANGED signals
       \/ /\ why \in {"emergency", "cancel"}
          /\ EnterCleanup(IF ok THEN "interrupted" ELSE "error", FALSE)
       \/ /\ why = "final"
          /\ mpc' = "done" /\ ending' = IF ok THEN "ok" ELSE "error"
          /\ UNCHANGED signals

\* Mutant of SyncShards: the shards are not synced before the ledger is saved.
SyncShardsSkipped ==
    /\ mpc = "sync"
    /\ mpc' = "write"
    /\ UNCHANGED <<book, disk, content, why, ending, plan, tally, crew, work,
                   results, exits, resize, place, signals, flags>>

\* sync_parallel and checkpoint_parallel write an image of every shard.  The
\* periodic variant leaves out the shards that are not Dirty, and a shard that
\* is SyncFailed never is again.
SyncShards ==
    /\ mpc = "sync"
    /\ mpc' = "write"
    /\ durable' = [f \in Files |-> IF why = "periodic" /\ f \in stuck
                                   THEN durable[f] ELSE content[f]]
    /\ UNCHANGED <<book, saved, stuck, content, why, ending, plan, tally, crew,
                   work, results, exits, resize, place, signals, flags>>

\* save_import_checkpoint comes last.
WriteLedger ==
    /\ mpc = "write"
    /\ saved' = OnDisk
    /\ AfterSave(TRUE)
    /\ UNCHANGED <<book, durable, stuck, content, plan, tally, crew, work,
                   results, exits, resize, place, flags>>

\* The save ends in an error, perhaps one that some shards keep in mind.
SaveFails ==
    /\ SaveMayFail
    /\ mpc \in {"sync", "write"}
    /\ \E fs \in SUBSET Files :
        /\ mpc = "write" => fs = {}
        /\ stuck' = stuck \cup fs
    /\ AfterSave(FALSE)
    /\ UNCHANGED <<book, saved, durable, content, plan, tally, crew, work,
                   results, exits, resize, place, flags>>

\* The last worker handle has been awaited.
Joined ==
    /\ mpc = "join"
    /\ \A w \in handles : pc[w] = "gone"
    /\ IF ending = "running" THEN SaveFor("final")
                             ELSE mpc' = "done" /\ UNCHANGED why
    /\ UNCHANGED <<book, disk, content, ending, plan, tally, crew, work,
                   results, exits, resize, place, signals, flags>>

---------------------------------------------------------------------------
(* The loop of the main task. *)

\* Mutant of LoopEnds: the last result is not waited for.
LoopEndsEarly ==
    /\ mpc = "head" /\ received + 1 >= pending
    /\ EnterCleanup("running", FALSE)
    /\ UNCHANGED <<book, disk, content, why, plan, tally, crew, work, results,
                   exits, resize, place, flags>>

LoopEnds ==
    /\ mpc = "head" /\ received >= pending
    /\ EnterCleanup("running", FALSE)
    /\ UNCHANGED <<book, disk, content, why, plan, tally, crew, work, results,
                   exits, resize, place, flags>>

AllWorkersGone ==
    /\ mpc = "head" /\ received < pending
    /\ active = 0
    /\ SaveFor("emergency")
    /\ UNCHANGED <<book, disk, content, ending, plan, tally, crew, work,
                   results, exits, resize, place, signals, flags>>

InLoop == mpc = "head" /\ received < pending /\ active > 0

ForceQuits ==
    /\ InLoop /\ forced
    /\ EnterCleanup("interrupted", TRUE)
    /\ UNCHANGED <<book, disk, content, why, plan, tally, crew, work, results,
                   exits, resize, place, flags>>

Cancels ==
    /\ InLoop /\ ~ forced /\ cancelled
    /\ mpc' = "drain"
    /\ stopping' = stopping \cup handles
    /\ UNCHANGED <<book, disk, content, why, ending, plan, tally, crew, work,
                   results, exits, resize, place, aborted, flags>>

\* The flags are looked at once, when select! is entered; then it waits.
Waits ==
    /\ InLoop /\ ~ forced /\ ~ cancelled
    /\ mpc' = "select"
    /\ UNCHANGED <<book, disk, content, why, ending, plan, tally, crew, work,
                   results, exits, resize, place, signals, flags>>

ForgetWorker ==
    /\ active' = IF active > 0 THEN active - 1 ELSE 0
    /\ handles' = handles \ {Head(exits)}
    /\ exits' = Tail(exits)
    /\ UNCHANGED nextId

\* The branches of the biased select!: exits, parallelism changes, results.
WorkerExits ==
    /\ mpc = "select" /\ exits # <<>>
    /\ ForgetWorker
    /\ mpc' = "head"
    /\ UNCHANGED <<book, disk, content, why, ending, plan, tally, work,
                   results, resize, place, signals, flags>>

\* Spawn what is missing; the bound keeps the identifiers in Workers.
Grow(n) ==
    LET missing == n - Cardinality(handles) IN
    /\ missing > 0
    /\ nextId + missing <= MaxWorkers
    /\ LET new == nextId .. (nextId + missing - 1) IN
       /\ handles' = handles \cup new
       /\ pc' = [w \in Workers |-> IF w \in new THEN "idle" ELSE pc[w]]
    /\ nextId' = nextId + missing
    /\ active' = active + missing
    /\ UNCHANGED stopping

\* Signal the highest identifiers; their handles stay until they exit.
Shrink(n) ==
    LET excess == Cardinality(handles) - n IN
    /\ n <= Cardinality(handles)
    /\ stopping' = stopping \cup
         {w \in handles : Cardinality({v \in handles : v >= w}) <= excess}
    /\ UNCHANGED <<crew, pc>>

ParallelismChanges ==
    /\ mpc = "select" /\ exits = <<>> /\ resize # <<>>
    /\ Grow(Head(resize)) \/ Shrink(Head(resize))
    /\ resize' = Tail(resize)
    /\ mpc' = "head"
    /\ UNCHANGED <<book, disk, content, why, ending, plan, tally, work,
                   results, exits, hold, aborted, flags>>

TakeResult(outcome) ==
    /\ mpc = "select" /\ exits = <<>> /\ resize = <<>>
    /\ results # <<>> /\ Head(results).outcome = outcome
    /\ results' = Tail(results)
    /\ received' = received + 1
    /\ done' = [done EXCEPT ![OrderOf[Head(results).file]] = @ + 1]

\* JobOutcome::Failed and ::Skipped.
RecordFailure ==
    /\ TakeResult("Failed")
    /\ ledger' = [ledger EXCEPT ![Head(results).file] = "Failed"]
    /\ SaveFor("failure")
    /\ UNCHANGED <<closed, disk, content, ending, plan, crew, work, exits,
                   resize, place, signals, flags>>

\* files_completed counts what order_files_completed counts per order.
FilesCompleted == SumFunction(done)

\* Mutant of OrderIsComplete: off by one.
OrderIsCompleteEarly(o) == done'[o] + 1 >= pendingOf[o]

OrderIsComplete(o) == done'[o] >= pendingOf[o]

RecordSuccess ==
    /\ TakeResult("Success")
    /\ LET f == Head(results).file IN
       /\ ledger' = [ledger EXCEPT ![f] = "Completed"]
       /\ closed' = IF OrderIsComplete(OrderOf[f])
                    THEN closed \cup {OrderOf[f]} ELSE closed
    /\ IF (FilesCompleted + 1) % Interval = 0
       THEN SaveFor("periodic")
       ELSE mpc' = "head" /\ UNCHANGED why
    /\ UNCHANGED <<disk, content, ending, plan, crew, work, exits, resize,
                   place, signals, flags>>

---------------------------------------------------------------------------
(* wait_for_worker_exits_before_checkpoint *)

DrainForced ==
    /\ mpc = "drain" /\ active > 0 /\ forced
    /\ EnterCleanup("interrupted", TRUE)
    /\ UNCHANGED <<book, disk, content, why, plan, tally, crew, work, results,
                   exits, resize, place, flags>>

DrainExit ==
    /\ mpc = "drain" /\ active > 0 /\ exits # <<>>
    /\ ForgetWorker
    /\ UNCHANGED <<book, disk, content, phase, plan, tally, work, results,
                   resize, place, signals, flags>>

\* The result is counted and dropped: the ledger does not learn of the file.
DrainResult ==
    /\ mpc = "drain" /\ active > 0 /\ exits = <<>> /\ results # <<>>
    /\ received' = received + 1
    /\ results' = Tail(results)
    /\ UNCHANGED <<book, disk, content, phase, plan, done, crew, work, exits,
                   resize, place, signals, flags>>

\* Mutant of Drained: the results are drained, the exits not waited for.
DrainedEarly ==
    /\ mpc = "drain"
    /\ received' = received + Len(results)
    /\ results' = <<>>
    /\ SaveFor("cancel")
    /\ UNCHANGED <<book, disk, content, ending, plan, done, crew, work, exits,
                   resize, place, signals, flags>>

Drained ==
    /\ mpc = "drain" /\ active = 0
    /\ received' = received + Len(results)
    /\ results' = <<>>
    /\ SaveFor("cancel")
    /\ UNCHANGED <<book, disk, content, ending, plan, done, crew, work, exits,
                   resize, place, signals, flags>>

---------------------------------------------------------------------------
(* worker_task.  A shutdown that arrives while select! is polling the job  *)
(* queue is as good as one that arrives after the job was taken.           *)

Goto(w, from, to) == pc[w] \in from /\ pc' = [pc EXCEPT ![w] = to]
Release(w) == hold' = [hold EXCEPT ![w] = Nothing]

Abandoned == ending = "abandoned"

StopWorker(w) ==
    /\ w \in stopping
    /\ Goto(w, {"idle"}, "exit")
    /\ UNCHANGED <<mainVars, data, work, results, exits, hold, flags>>

\* With its watch sender dropped, changed() returns at once, for ever, and
\* the biased select! never polls the job queue again.
TakeJob(w) ==
    /\ w \notin stopping /\ ~ Abandoned
    /\ queue # <<>>
    /\ Goto(w, {"idle"}, "got")
    /\ hold' = [hold EXCEPT ![w] = Head(queue)]
    /\ queue' = Tail(queue)
    /\ UNCHANGED <<mainVars, data, queueSize, results, exits, flags>>

\* A job goes back to the end of the queue; queue_size does not change.
Requeue(w, from, job) ==
    /\ Goto(w, from, "idle")
    /\ queue' = Append(queue, job)
    /\ Release(w)
    /\ UNCHANGED <<mainVars, queueSize, results, exits, flags>>

Waiting(job) == [job EXCEPT !.wait = TRUE]

DeferWaiting(w) ==
    /\ pc[w] = "got" /\ hold[w].wait
    /\ Requeue(w, {"got"}, hold[w])
    /\ UNCHANGED data

\* is_prefix_shard_syncing: only while the main task syncs the shards.
DeferSyncing(w) ==
    /\ pc[w] = "got" /\ ~ hold[w].wait
    /\ mpc = "sync"
    /\ Requeue(w, {"got"}, Waiting(hold[w]))
    /\ UNCHANGED data

AcceptJob(w) ==
    /\ pc[w] = "got" /\ ~ hold[w].wait
    /\ Goto(w, {"got"}, "pausing")
    /\ UNCHANGED <<mainVars, data, work, results, exits, hold, flags>>

\* The pause loop ends on a shutdown too, and the job is processed then.
BeginJob(w) ==
    /\ ~ paused \/ w \in stopping \/ Abandoned
    /\ Goto(w, {"pausing"}, "work")
    /\ UNCHANGED <<mainVars, data, work, results, exits, hold, flags>>

\* A pass over the file writes counts: a committed chunk of SET values, or
\* increments, which add to whatever an earlier pass has left.
AfterPart(c) ==
    IF c = "none" THEN "part"
    ELSE IF Transactional THEN c
    ELSE IF c \in Whole THEN "over" ELSE "mixed"

\* The pass gets to its end.
AfterWhole(c) == IF Transactional \/ c = "part" THEN "once" ELSE "over"

WritePart(w) ==
    /\ Goto(w, {"work"}, "half")
    /\ content' = [content EXCEPT ![hold[w].file] = AfterPart(@)]
    /\ UNCHANGED durable
    /\ UNCHANGED <<mainVars, work, results, exits, hold, flags>>

\* The job is over for this session: queue_size shrinks, a result is due.
Conclude(w, outcome) ==
    /\ hold' = [hold EXCEPT ![w] = [file |-> hold[w].file, outcome |-> outcome]]
    /\ queueSize' = queueSize - 1
    /\ UNCHANGED <<mainVars, queue, results, exits, flags>>

\* commit_prefix_tx, which syncs the WAL of the shard, or the last increment.
FinishFile(w) ==
    /\ Goto(w, {"half"}, "send")
    /\ content' = [content EXCEPT ![hold[w].file] = AfterWhole(@)]
    /\ durable' = IF Transactional
                  THEN [durable EXCEPT ![hold[w].file] = "once"] ELSE durable
    /\ Conclude(w, "Success")

\* Mutant of RetryJob: the retried job is counted as finished.
RetryJobCounted(w) ==
    /\ pc[w] \in {"work", "half"} /\ hold[w].attempt < MaxRetries
    /\ Goto(w, {"work", "half"}, "idle")
    /\ queue' = Append(queue, Waiting([hold[w] EXCEPT !.attempt = @ + 1]))
    /\ Release(w)
    /\ queueSize' = queueSize - 1
    /\ UNCHANGED <<mainVars, results, exits, flags, data>>

\* A retryable error with attempts left.
RetryJob(w) ==
    /\ pc[w] \in {"work", "half"} /\ hold[w].attempt < MaxRetries
    /\ Requeue(w, {"work", "half"}, Waiting([hold[w] EXCEPT !.attempt = @ + 1]))
    /\ UNCHANGED data

\* Mutant of GiveUp: the worker goes on without reporting the failure.
GiveUpSilently(w) ==
    /\ Goto(w, {"work", "half"}, "idle")
    /\ Release(w)
    /\ queueSize' = queueSize - 1
    /\ UNCHANGED <<mainVars, queue, results, exits, flags, data>>

\* An error that is not retryable, or one after the last attempt.
GiveUp(w) ==
    /\ Goto(w, {"work", "half"}, "send")
    /\ Conclude(w, "Failed")
    /\ UNCHANGED data

SendResult(w) ==
    /\ mpc # "done" /\ Len(results) < ChannelSize
    /\ Goto(w, {"send"}, "idle")
    /\ results' = Append(results, hold[w])
    /\ Release(w)
    /\ UNCHANGED <<mainVars, data, work, exits, flags>>

\* Mutant of SendExit: the worker returns without its exit notice.
SendExitNever(w) ==
    /\ mpc # "done"
    /\ Goto(w, {"exit"}, "gone")
    /\ UNCHANGED <<mainVars, data, work, results, exits, hold, flags>>

SendExit(w) ==
    /\ mpc # "done" /\ Len(exits) < ChannelSize
    /\ Goto(w, {"exit"}, "gone")
    /\ exits' = Append(exits, w)
    /\ UNCHANGED <<mainVars, data, work, results, hold, flags>>

\* The receivers are gone: both sends fail and the worker returns.
SendToNobody(w) ==
    /\ mpc = "done"
    /\ Goto(w, {"send", "exit"}, "gone")
    /\ Release(w)
    /\ UNCHANGED <<mainVars, data, work, results, exits, flags>>

\* JoinHandle::abort takes effect at the next await of the worker.
AbortWorker(w) ==
    /\ w \in aborted
    /\ Goto(w, WorkerPCs \ {"unborn", "gone"}, "gone")
    /\ Release(w)
    /\ UNCHANGED <<mainVars, data, work, results, exits, flags>>

\* The ready_at of a job passes, be the job in the queue or in a hand.
BackoffElapses ==
    /\ \/ \E i \in DOMAIN queue :
            /\ queue[i].wait
            /\ queue' = [queue EXCEPT ![i].wait = FALSE]
            /\ UNCHANGED hold
       \/ \E w \in Workers :
            /\ pc[w] = "got" /\ hold[w].wait
            /\ hold' = [hold EXCEPT ![w].wait = FALSE]
            /\ UNCHANGED queue
    /\ UNCHANGED <<mainVars, data, queueSize, results, exits, pc, flags>>

---------------------------------------------------------------------------
(* The command handler, which runs until the import returns. *)

NotInControl == <<book, disk, content, phase, plan, tally, crew, work, results,
                  exits, place, signals>>

Pause ==
    /\ "Pause" \in Commands /\ mpc # "done"
    /\ ~ paused /\ paused' = TRUE
    /\ UNCHANGED <<NotInControl, resize, cancelled, forced, target, resizes>>

Resume ==
    /\ mpc # "done"
    /\ paused /\ paused' = FALSE
    /\ UNCHANGED <<NotInControl, resize, cancelled, forced, target, resizes>>

Cancel ==
    /\ "Cancel" \in Commands /\ mpc # "done"
    /\ ~ cancelled /\ cancelled' = TRUE
    /\ UNCHANGED <<NotInControl, resize, paused, forced, target, resizes>>

ForceQuit ==
    /\ "ForceQuit" \in Commands /\ mpc # "done"
    /\ ~ forced /\ forced' = TRUE
    /\ UNCHANGED <<NotInControl, resize, paused, cancelled, target, resizes>>

SetParallelism(n) ==
    /\ mpc # "done" /\ resizes < MaxResizes
    /\ resizes' = resizes + 1
    /\ target' = n
    /\ resize' = Append(resize, n)
    /\ UNCHANGED <<NotInControl, paused, cancelled, forced>>

---------------------------------------------------------------------------

MainNext ==
    \/ PlanNothing \/ PlanWork
    \/ LoopEnds \/ AllWorkersGone \/ ForceQuits \/ Cancels \/ Waits
    \/ WorkerExits \/ ParallelismChanges \/ RecordFailure \/ RecordSuccess
    \/ DrainForced \/ DrainExit \/ DrainResult \/ Drained
    \/ SyncShards \/ WriteLedger \/ SaveFails \/ Joined

\* What a worker does of itself, and what the network makes of its download.
Progress(w) ==
    \/ StopWorker(w) \/ TakeJob(w) \/ DeferWaiting(w) \/ AcceptJob(w)
    \/ BeginJob(w) \/ WritePart(w) \/ FinishFile(w)
    \/ SendResult(w) \/ SendExit(w) \/ SendToNobody(w) \/ AbortWorker(w)

WorkerNext(w) == Progress(w) \/ DeferSyncing(w) \/ RetryJob(w) \/ GiveUp(w)

CommandNext ==
    \/ Pause \/ Resume \/ Cancel \/ ForceQuit
    \/ \E n \in Targets : SetParallelism(n)

\* The import has returned; nothing else has to happen.
Returned == mpc = "done" /\ UNCHANGED vars

Next ==
    \/ MainNext
    \/ \E w \in Workers : WorkerNext(w)
    \/ BackoffElapses
    \/ CommandNext
    \/ Returned

Spec == Init /\ [][Next]_vars

\* tokio runs every task that is ready, and time passes.
Fairness ==
    /\ WF_vars(MainNext)
    /\ \A w \in Workers : WF_vars(WorkerNext(w))
    /\ WF_vars(BackoffElapses)

FairSpec == Spec /\ Fairness

---------------------------------------------------------------------------
(* Properties. *)

\* Every variable has its type.
TypeOK ==
    /\ ledger \in Ledgers /\ closed \subseteq Orders
    /\ saved \in [ledger : Ledgers, closed : SUBSET Orders]
    /\ stuck \subseteq Files
    /\ durable \in [Files -> Contents] /\ content \in [Files -> Contents]
    /\ mpc \in MainPCs /\ why \in SaveReasons /\ ending \in Endings
    /\ pendingOf \in [Orders -> Nat] /\ done \in [Orders -> Nat]
    /\ pending \in Nat /\ retries \in Nat /\ received \in Nat
    /\ active \in Nat /\ handles \subseteq Workers /\ nextId \in 0 .. MaxWorkers
    /\ queue \in Seq(Jobs) /\ results \in Seq(Results)
    /\ exits \in Seq(Workers) /\ resize \in Seq(Targets)
    /\ queueSize \in Int
    /\ pc \in [Workers -> WorkerPCs]
    /\ hold \in [Workers -> Jobs \cup Results \cup {Nothing}]
    /\ \A w \in Workers :
         /\ pc[w] \in {"got", "pausing", "work", "half"} => hold[w] \in Jobs
         /\ pc[w] = "send" => hold[w] \in Results
    /\ stopping \subseteq Workers /\ aborted \subseteq Workers
    /\ paused \in BOOLEAN /\ cancelled \in BOOLEAN /\ forced \in BOOLEAN
    /\ target \in Nat /\ resizes \in Nat

Running(w) == pc[w] \notin {"unborn", "gone"}

\* "NOW safe to checkpoint - no more vocabulary writes can occur"
\* (import_ops.rs:1413): whenever the main task saves the checkpoint of a
\* cancelled, emptied or finished import, every worker it ever spawned is gone.
LastCheckpointIsQuiet ==
    (mpc \in {"sync", "write"} /\ why \in {"emergency", "cancel", "final"})
        => \A w \in Workers : ~ Running(w)

\* "CRITICAL: Sync and checkpoint n-gram shards" before the checkpoint that
\* marks prefixes as completed (checkpoint_ops.rs:101): the checkpoint on disk
\* never calls a file completed whose counts a crash would lose.
RecordedIsDurable ==
    \A f \in Files :
        saved.ledger[f] = "Completed" => durable[f] \in Whole

\* The same as a refinement, which also says that counts never leave the disk.
Promise == INSTANCE CheckpointPromise WITH
    stored   <- {f \in Files : durable[f] \in Whole},
    recorded <- {f \in Files : saved.ledger[f] = "Completed"}

CheckpointsAreHonest == Promise!Spec

Busy    == {w \in Workers : pc[w] \in {"got", "pausing", "work", "half"}}
Sending == {w \in Workers : pc[w] = "send"}

\* queue_size "represents jobs remaining to complete" (worker_pool.rs:888):
\* retries and deferrals neither lose a job nor count it twice.
QueueSizeIsExact ==
    /\ queueSize >= Len(queue) + Cardinality(Busy)
    /\ aborted = {} => queueSize = Len(queue) + Cardinality(Busy)

\* No job disappears between the queue and the main task: what is queued, in
\* work, reported and received always adds up to what was planned.
ResultsAccounted ==
    (aborted = {} /\ mpc # "done") =>
        queueSize + Cardinality(Sending) + Len(results) + received
            = pending + retries

\* A worker that requeues a job never waits for room in the queue, which
\* would be a deadlock: only workers take jobs out.
RequeueNeverBlocks ==
    \A w \in Busy : Len(queue) < QueueCapacity

\* "Order is complete when all files have been processed (success + fail +
\* skip)" (import_ops.rs:1638): a complete order has no unprocessed file.
ClosedIsProcessed ==
    \A f \in Files : OrderOf[f] \in closed => ledger[f] # "none"

\* An import that returns its statistics has processed every file.
OkMeansAllProcessed ==
    ending \in {"ok", "nothing"} => \A f \in Files : ledger[f] # "none"

\* The import returns, unless the user keeps it paused: no worker waits for room
\* in a channel that is not read any more while the clean-up waits for the worker
\* (into_cleanup_guard).  The exit channel has room for as many workers as it was
\* made for, and the result channel for the second results of that many files
\* that failed before.
ImportReturns ==
    /\ Cardinality(FailedFiles) <= ChannelSize
    /\ [](target <= ChannelSize)
    /\ <>[] ~ paused
    => <>(mpc = "done")
=============================================================================
