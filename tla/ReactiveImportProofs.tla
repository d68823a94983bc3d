----------------------- MODULE ReactiveImportProofs -----------------------
(***************************************************************************)
(* Proofs about ReactiveImport, for any files, orders and histories, any   *)
(* parallelism and any number of retries: the type invariant, the          *)
(* durability of what the checkpoint records, the quiet of the last        *)
(* checkpoint, the account of every job from the queue to its result, and  *)
(* what an import that ends well and an order that is complete have left   *)
(* undone: nothing, for the histories that their theorems name.  The last  *)
(* section is about ImportSessions, for any number of sessions.            *)
(***************************************************************************)
EXTENDS ImportSessions, FiniteSetTheorems, SequenceTheorems, TLAPS

---------------------------------------------------------------------------
(* Types. *)

\* The constants, in one place.
LEMMA Numbers ==
    /\ Parallelism \in Nat /\ Parallelism > 0 /\ Parallelism <= MaxWorkers
    /\ MaxRetries \in Nat /\ MaxWorkers \in Nat /\ Targets \subseteq Nat
    /\ 0 .. (Parallelism - 1) \subseteq Workers
BY NumbersAssumption DEF Workers

\* Sets of files have natural cardinalities, and the pending files of an
\* order are no more than its files.
LEMMA CountsAreNat ==
    /\ Cardinality({f \in Files : Needs(f)}) \in Nat
    /\ Cardinality(FailedFiles) \in Nat
    /\ \A o \in Orders :
         /\ Cardinality(PendingIn(o)) \in Nat
         /\ Cardinality(FilesOf(o)) - Cardinality(PendingIn(o)) \in Nat
<1>1. \A S \in SUBSET Files : IsFiniteSet(S) /\ Cardinality(S) \in Nat
  BY FilesAssumption, FS_Subset, FS_CardinalityType
<1>2. ASSUME NEW o \in Orders
      PROVE  Cardinality(PendingIn(o)) <= Cardinality(FilesOf(o))
  <2>1. FilesOf(o) \in SUBSET Files /\ PendingIn(o) \in SUBSET FilesOf(o)
    BY DEF FilesOf, PendingIn
  <2>. QED BY <1>1, <2>1, FS_Subset
<1>3. ASSUME NEW o \in Orders
      PROVE  /\ Cardinality(PendingIn(o)) \in Nat
             /\ Cardinality(FilesOf(o)) \in Nat
  BY <1>1 DEF PendingIn, FilesOf
<1>. QED BY <1>1, <1>2, <1>3 DEF FailedFiles

\* What fills the queue is a sequence of jobs.
LEMMA FillingsAreJobs == \A q \in Fillings : q \in Seq(Jobs)
<1>1. JobCount \in Nat
  BY CountsAreNat DEF JobCount
<1>2. [file : Files, attempt : {0}, wait : {FALSE}] \subseteq Jobs
  <2>. SUFFICES ASSUME NEW j \in [file : Files, attempt : {0}, wait : {FALSE}]
                PROVE  j \in Jobs
    OBVIOUS
  <2>1. j = [file |-> j.file, attempt |-> 0, wait |-> FALSE] /\ j.file \in Files
    OBVIOUS
  <2>2. 0 \in 0 .. MaxRetries
    BY Numbers
  <2>. QED BY <2>1, <2>2, Zenon DEF Jobs
<1>3. \A q \in [1 .. JobCount -> Jobs] : q \in Seq(Jobs)
  BY <1>1
<1>4. Fillings \subseteq [1 .. JobCount -> Jobs]
  BY <1>2 DEF Fillings
<1>. QED BY <1>3, <1>4

\* The heads and the tails of the channels have the types of the channels.
LEMMA ChannelTypes ==
    ASSUME TypeOK
    PROVE  /\ queue # <<>> => Head(queue) \in Jobs /\ Tail(queue) \in Seq(Jobs)
           /\ results # <<>> =>
                Head(results) \in Results /\ Tail(results) \in Seq(Results)
           /\ exits # <<>> => Head(exits) \in Workers /\ Tail(exits) \in Seq(Workers)
           /\ resize # <<>> => Head(resize) \in Nat /\ Tail(resize) \in Seq(Targets)
           /\ Len(results) \in Nat /\ Len(queue) \in Nat
<1>1. queue # <<>> => Head(queue) \in Jobs /\ Tail(queue) \in Seq(Jobs)
  BY HeadTailProperties DEF TypeOK
<1>2. results # <<>> => Head(results) \in Results /\ Tail(results) \in Seq(Results)
  BY HeadTailProperties DEF TypeOK
<1>3. exits # <<>> => Head(exits) \in Workers /\ Tail(exits) \in Seq(Workers)
  BY HeadTailProperties DEF TypeOK
<1>4. resize # <<>> => Head(resize) \in Targets /\ Tail(resize) \in Seq(Targets)
  BY HeadTailProperties DEF TypeOK
<1>5. Len(results) \in Nat /\ Len(queue) \in Nat
  BY LenProperties DEF TypeOK
<1>. QED BY <1>1, <1>2, <1>3, <1>4, <1>5, Numbers

\* Sets of workers have natural cardinalities.
LEMMA CrewIsFinite ==
    /\ IsFiniteSet(Workers)
    /\ \A S \in SUBSET Workers : IsFiniteSet(S) /\ Cardinality(S) \in Nat
<1>1. IsFiniteSet(Workers)
  BY Numbers, FS_Interval DEF Workers
<1>. QED BY <1>1, FS_Subset, FS_CardinalityType

\* Every step of the main task keeps the variables in their types.
LEMMA MainTypes == TypeOK /\ MainNext => TypeOK'
<1>. SUFFICES ASSUME TypeOK, MainNext PROVE TypeOK'
  OBVIOUS
<1>. USE Numbers
     DEF Ledgers, PrefixStates, MainPCs, SaveReasons, Endings,
         book, disk, data, phase, plan, tally, crew, signals, flags, work,
         place
<1>1. CASE PlanNothing
  BY <1>1, CountsAreNat DEF TypeOK, PlanNothing, CountPending, ClosedByPlan
<1>2. CASE PlanWork
  <2>1. queue' \in Seq(Jobs) /\ queueSize' \in Int
    BY <1>2, FillingsAreJobs, CountsAreNat DEF PlanWork, JobCount
  <2>2. /\ pc' \in [Workers -> WorkerPCs] /\ handles' \subseteq Workers
        /\ active' \in Nat /\ nextId' \in 0 .. MaxWorkers
        /\ \A w \in Workers : pc'[w] \in {"idle", "unborn"}
    BY <1>2 DEF PlanWork, SpawnFirst, WorkerPCs, Workers
  <2>3. /\ pendingOf' \in [Orders -> Nat] /\ done' \in [Orders -> Nat]
        /\ pending' \in Nat /\ retries' \in Nat
    BY <1>2, CountsAreNat DEF PlanWork, CountPending
  <2>4. ledger' \in Ledgers /\ closed' \subseteq Orders
    BY <1>2 DEF TypeOK, PlanWork, CountPending, ClosedByPlan
  <2>. QED BY <1>2, <2>1, <2>2, <2>3, <2>4 DEF TypeOK, PlanWork
<1>3. CASE LoopEnds \/ ForceQuits \/ DrainForced
  BY <1>3 DEF TypeOK, LoopEnds, ForceQuits, DrainForced, EnterCleanup, InLoop
<1>4. CASE AllWorkersGone \/ Cancels \/ Waits
  BY <1>4 DEF TypeOK, AllWorkersGone, SaveFor, Cancels, Waits, InLoop
<1>5. CASE WorkerExits \/ DrainExit
  <2>1. exits' \in Seq(Workers)
    BY <1>5, ChannelTypes DEF WorkerExits, DrainExit, ForgetWorker
  <2>2. active' \in Nat /\ handles' \subseteq Workers
    BY <1>5 DEF TypeOK, WorkerExits, DrainExit, ForgetWorker
  <2>3. mpc' \in MainPCs
    BY <1>5 DEF TypeOK, WorkerExits, DrainExit
  <2>4. UNCHANGED <<book, disk, content, why, ending, plan, tally, nextId,
                    work, results, resize, place, signals, flags>>
    BY <1>5 DEF WorkerExits, DrainExit, ForgetWorker
  <2>. QED BY <2>1, <2>2, <2>3, <2>4 DEF TypeOK
<1>6. CASE ParallelismChanges
  <2>1. resize' \in Seq(Targets) /\ Head(resize) \in Nat
    BY <1>6, ChannelTypes DEF ParallelismChanges
  <2>2. Cardinality(handles) \in Nat
    BY CrewIsFinite DEF TypeOK
  <2>3. CASE Grow(Head(resize))
    <3>. DEFINE missing == Head(resize) - Cardinality(handles)
    <3>a. /\ missing \in Nat /\ nextId + missing <= MaxWorkers
          /\ nextId' = nextId + missing /\ active' = active + missing
          /\ handles' = handles \cup (nextId .. (nextId + missing - 1))
      BY <2>1, <2>2, <2>3 DEF Grow
    <3>b. nextId \in 0 .. MaxWorkers /\ active \in Nat /\ handles \subseteq Workers
      BY DEF TypeOK
    <3>. HIDE DEF missing
    <3>1. /\ nextId' \in 0 .. MaxWorkers /\ active' \in Nat
          /\ handles' \subseteq Workers
      BY <3>a, <3>b DEF Workers
    <3>2. /\ pc' \in [Workers -> WorkerPCs]
          /\ \A w \in Workers : pc'[w] # pc[w] => pc'[w] = "idle"
      BY <2>3 DEF TypeOK, Grow, WorkerPCs
    <3>. QED BY <1>6, <2>1, <2>3, <3>1, <3>2 DEF TypeOK, ParallelismChanges, Grow
  <2>4. CASE Shrink(Head(resize))
    BY <1>6, <2>1, <2>4 DEF TypeOK, ParallelismChanges, Shrink
  <2>. QED BY <1>6, <2>3, <2>4 DEF ParallelismChanges
<1>7. ASSUME NEW outcome, TakeResult(outcome)
      PROVE  /\ results' \in Seq(Results) /\ received' \in Nat
             /\ done' \in [Orders -> Nat] /\ mpc = "select"
             /\ Head(results).file \in Files
  <2>1. Head(results) \in Results /\ results' \in Seq(Results) /\ mpc = "select"
    BY <1>7, ChannelTypes DEF TakeResult
  <2>2. OrderOf[Head(results).file] \in Orders /\ Head(results).file \in Files
    BY <2>1, FilesAssumption DEF Results
  <2>3. received' \in Nat /\ done' \in [Orders -> Nat]
    BY <1>7, <2>2 DEF TypeOK, TakeResult
  <2>. QED BY <2>1, <2>2, <2>3
<1>8. CASE RecordFailure
  BY <1>7, <1>8 DEF TypeOK, RecordFailure, SaveFor
<1>9. CASE RecordSuccess
  BY <1>7, <1>9, FilesAssumption DEF TypeOK, RecordSuccess, SaveFor
<1>10. CASE DrainResult \/ Drained
  <2>1. results' \in Seq(Results) /\ Len(results) \in Nat
    <3>1. (results' = Tail(results) /\ results # <<>>) \/ results' = <<>>
      BY <1>10 DEF DrainResult, Drained
    <3>. QED BY <3>1, ChannelTypes, EmptySeq
  <2>2. received' \in Nat
    BY <1>10, <2>1 DEF TypeOK, DrainResult, Drained
  <2>. QED BY <1>10, <2>1, <2>2 DEF TypeOK, DrainResult, Drained, SaveFor
<1>11. CASE SyncShards
  BY <1>11 DEF TypeOK, SyncShards
<1>12. CASE WriteLedger
  <2>1. saved' \in [ledger : Ledgers, closed : SUBSET Orders]
    BY <1>12 DEF TypeOK, WriteLedger, OnDisk
  <2>. QED BY <1>12, <2>1 DEF TypeOK, WriteLedger, AfterSave, EnterCleanup
<1>13. CASE Joined
  BY <1>13 DEF TypeOK, Joined, SaveFor
<1>14. CASE SaveFails
  BY <1>14 DEF TypeOK, SaveFails, AfterSave, EnterCleanup
<1>. QED BY <1>1, <1>2, <1>3, <1>4, <1>5, <1>6, <1>8, <1>9, <1>10, <1>11,
            <1>12, <1>13, <1>14 DEF MainNext

\* Every step of a worker keeps the variables in their types.
LEMMA WorkerTypes ==
    ASSUME TypeOK, NEW w \in Workers, WorkerNext(w)
    PROVE  TypeOK'
<1>. USE DEF data, mainVars, book, phase, plan, tally, crew, signals, flags,
             work
<1>1. CASE StopWorker(w) \/ AcceptJob(w) \/ BeginJob(w)
  BY <1>1 DEF TypeOK, StopWorker, AcceptJob, BeginJob, Goto, WorkerPCs
<1>2. CASE TakeJob(w)
  <2>1. Head(queue) \in Jobs /\ queue' \in Seq(Jobs)
    BY <1>2, ChannelTypes DEF TakeJob
  <2>. QED BY <1>2, <2>1 DEF TypeOK, TakeJob, Goto, WorkerPCs
<1>3. ASSUME NEW from \in SUBSET WorkerPCs, NEW job \in Jobs,
             Requeue(w, from, job), UNCHANGED data
      PROVE  TypeOK'
  <2>1. queue' \in Seq(Jobs)
    BY <1>3 DEF TypeOK, Requeue
  <2>. QED BY <1>3, <2>1 DEF TypeOK, Requeue, Release, Goto, WorkerPCs
<1>4. \A job \in Jobs : Waiting(job) \in Jobs
  BY DEF Waiting, Jobs
<1>5. CASE DeferWaiting(w)
  BY <1>3, <1>5 DEF TypeOK, DeferWaiting, WorkerPCs
<1>6. CASE DeferSyncing(w)
  BY <1>3, <1>4, <1>6 DEF TypeOK, DeferSyncing, WorkerPCs
<1>7. CASE RetryJob(w)
  <2>1. hold[w] \in Jobs /\ hold[w].attempt < MaxRetries
    BY <1>7 DEF TypeOK, RetryJob
  <2>2. [hold[w] EXCEPT !.attempt = @ + 1] \in Jobs
    BY <2>1, Numbers DEF Jobs
  <2>. QED BY <1>3, <1>4, <1>7, <2>2 DEF RetryJob, WorkerPCs
<1>8. CASE WritePart(w)
  BY <1>8 DEF TypeOK, WritePart, AfterPart, Contents, Whole, Goto, WorkerPCs
<1>9. ASSUME NEW outcome \in Outcomes, hold[w] \in Jobs, Conclude(w, outcome)
      PROVE  /\ hold' \in [Workers -> Jobs \cup Results \cup {Nothing}]
             /\ hold'[w] \in Results /\ \A v \in Workers \ {w} : hold'[v] = hold[v]
             /\ queueSize' \in Int
  BY <1>9 DEF TypeOK, Conclude, Jobs, Results
<1>10. CASE FinishFile(w)
  <2>1. hold[w] \in Jobs
    BY <1>10 DEF TypeOK, FinishFile, Goto
  <2>2. content' \in [Files -> Contents] /\ durable' \in [Files -> Contents]
    BY <1>10, <2>1 DEF TypeOK, FinishFile, AfterWhole, Contents
  <2>. QED BY <1>9, <1>10, <2>1, <2>2
           DEF TypeOK, FinishFile, Conclude, Goto, WorkerPCs, Outcomes
<1>11. CASE GiveUp(w)
  <2>1. hold[w] \in Jobs
    BY <1>11 DEF TypeOK, GiveUp, Goto
  <2>. QED BY <1>9, <1>11, <2>1 DEF TypeOK, GiveUp, Conclude, Goto, WorkerPCs, Outcomes
<1>12. CASE SendResult(w)
  <2>1. results' \in Seq(Results)
    BY <1>12 DEF TypeOK, SendResult, Goto
  <2>. QED BY <1>12, <2>1 DEF TypeOK, SendResult, Release, Goto, WorkerPCs
<1>13. CASE SendExit(w)
  <2>1. exits' \in Seq(Workers)
    BY <1>13 DEF TypeOK, SendExit
  <2>. QED BY <1>13, <2>1 DEF TypeOK, SendExit, Goto, WorkerPCs
<1>14. CASE SendToNobody(w) \/ AbortWorker(w)
  BY <1>14 DEF TypeOK, SendToNobody, AbortWorker, Release, Goto, WorkerPCs
<1>. QED BY <1>1, <1>2, <1>5, <1>6, <1>7, <1>8, <1>10, <1>11, <1>12, <1>13,
            <1>14 DEF WorkerNext, Progress

\* So do the clock and the commands.
LEMMA OtherTypes == TypeOK /\ (BackoffElapses \/ CommandNext) => TypeOK'
<1>. SUFFICES ASSUME TypeOK, BackoffElapses \/ CommandNext PROVE TypeOK'
  OBVIOUS
<1>. USE Numbers
     DEF data, mainVars, NotInControl, disk, book, phase, plan, tally, crew,
         signals, flags, work, place
<1>1. CASE BackoffElapses
  <2>1. \A job \in Jobs : [job EXCEPT !.wait = FALSE] \in Jobs
    BY DEF Jobs
  <2>2. ASSUME NEW i \in DOMAIN queue, queue' = [queue EXCEPT ![i].wait = FALSE]
        PROVE  queue' \in Seq(Jobs)
    <3>1. queue \in Seq(Jobs) /\ i \in 1 .. Len(queue)
      BY <2>2, LenProperties DEF TypeOK
    <3>2. [queue[i] EXCEPT !.wait = FALSE] \in Jobs
      BY <2>1, <3>1, ElementOfSeq
    <3>. QED BY <2>2, <3>1, <3>2, ExceptSeq
  <2>3. ASSUME NEW w \in Workers, pc[w] = "got",
               hold' = [hold EXCEPT ![w].wait = FALSE]
        PROVE  /\ hold' \in [Workers -> Jobs \cup Results \cup {Nothing}]
               /\ hold'[w] \in Jobs
               /\ \A v \in Workers \ {w} : hold'[v] = hold[v]
    BY <2>1, <2>3 DEF TypeOK
  <2>4. CASE \E i \in DOMAIN queue :
                queue' = [queue EXCEPT ![i].wait = FALSE] /\ UNCHANGED hold
    <3>1. queue' \in Seq(Jobs)
      BY <2>2, <2>4
    <3>. QED BY <1>1, <2>4, <3>1 DEF TypeOK, BackoffElapses
  <2>5. ASSUME NEW w \in Workers, pc[w] = "got", UNCHANGED queue,
               hold' = [hold EXCEPT ![w].wait = FALSE]
        PROVE  TypeOK'
    BY <1>1, <2>3, <2>5 DEF TypeOK, BackoffElapses
  <2>. QED BY <1>1, <2>4, <2>5 DEF BackoffElapses
<1>2. CASE Pause \/ Resume \/ Cancel \/ ForceQuit
  BY <1>2 DEF TypeOK, Pause, Resume, Cancel, ForceQuit
<1>3. ASSUME NEW n \in Targets, SetParallelism(n) PROVE TypeOK'
  <2>1. resize' \in Seq(Targets)
    BY <1>3 DEF TypeOK, SetParallelism
  <2>. QED BY <1>3, <2>1 DEF TypeOK, SetParallelism
<1>. QED BY <1>1, <1>2, <1>3 DEF CommandNext

LEMMA TypeStep == TypeOK /\ [Next]_vars => TypeOK'
<1>. SUFFICES ASSUME TypeOK, [Next]_vars PROVE TypeOK'
  OBVIOUS
<1>1. CASE UNCHANGED vars
  BY <1>1 DEF vars, TypeOK, book, disk, phase, plan, tally, crew, work, place,
              signals, flags
<1>. QED BY <1>1, MainTypes, WorkerTypes, OtherTypes DEF Next, Returned

\* An import starts in its types.
LEMMA InitTypes == Init => TypeOK
<1>. SUFFICES ASSUME Init PROVE TypeOK
  OBVIOUS
<1>1. PICK h \in Histories :
          /\ ledger = h.ledger /\ closed = h.closed
          /\ saved = [ledger |-> h.ledger, closed |-> h.closed]
          /\ content = h.content /\ durable = h.content
  BY DEF Init
<1>2. h \in [ledger : Ledgers, closed : SUBSET Orders,
             content : [Files -> Contents]]
  BY HistoriesAssumption
<1>. QED BY <1>1, <1>2, Numbers
         DEF Init, TypeOK, MainPCs, SaveReasons, Endings, WorkerPCs

\* Every reachable state of an import is well typed.
THEOREM Typing == Spec => []TypeOK
BY InitTypes, TypeStep, PTL DEF Spec

---------------------------------------------------------------------------
(* What the checkpoint calls completed is durable. *)

\* With increments, a shard whose sync has failed is left out of the periodic
\* checkpoints; a transaction does not need them.
Dependable == Transactional \/ ~ SaveMayFail

\* All the counts of a file are in the tries, and a commit has synced them.
Reached(f) == content[f] \in Whole /\ (Transactional => durable[f] \in Whole)

\* A success is reported only once all the counts of the file are there.
SuccessHasReached ==
    /\ \A i \in DOMAIN results :
         results[i].outcome = "Success" => Reached(results[i].file)
    /\ \A w \in Workers :
         pc[w] = "send" /\ hold[w].outcome = "Success" => Reached(hold[w].file)

\* The ledger in memory is true of the tries in memory.
LedgerIsTrue == \A f \in Files : ledger[f] = "Completed" => Reached(f)

\* What is durable has not left the tries.
DurableIsThere ==
    \A f \in Files : durable[f] \in Whole => content[f] \in Whole

NothingIsStuck == ~ SaveMayFail => stuck = {}

\* Between the sync of the shards and the write of the ledger, the ledger is
\* true of the disk: only the main task changes it, and it does neither.
SyncedBeforeWritten ==
    mpc = "write" =>
        \A f \in Files : ledger[f] = "Completed" => durable[f] \in Whole

DurabilityInv ==
    SuccessHasReached /\ LedgerIsTrue /\ DurableIsThere /\ NothingIsStuck
        /\ SyncedBeforeWritten /\ RecordedIsDurable

\* No step takes counts of a file that is whole out of the tries.
LEMMA WholeStaysWhole ==
    ASSUME TypeOK, [Next]_vars
    PROVE  /\ \A f \in Files : content[f] \in Whole => content'[f] \in Whole
           /\ \A f \in Files : durable[f] \in Whole /\ content[f] \in Whole
                => durable'[f] \in Whole
<1>. USE DEF TypeOK, book, disk, data, mainVars, NotInControl
<1>1. CASE MainNext
  BY <1>1 DEF MainNext, PlanNothing, PlanWork, LoopEnds, AllWorkersGone,
     ForceQuits, Cancels, Waits, WorkerExits, ParallelismChanges,
     RecordFailure, RecordSuccess, DrainForced, DrainExit, DrainResult,
     Drained, SyncShards, WriteLedger, SaveFails, Joined
<1>2. ASSUME NEW w \in Workers, WorkerNext(w)
      PROVE  /\ \A f \in Files : content[f] \in Whole => content'[f] \in Whole
             /\ \A f \in Files : durable[f] \in Whole => durable'[f] \in Whole
  <2>1. CASE WritePart(w)
    BY <2>1 DEF WritePart, AfterPart, Whole
  <2>2. CASE FinishFile(w)
    BY <2>2 DEF FinishFile, AfterWhole, Whole
  <2>3. CASE UNCHANGED data
    BY <2>3
  <2>. QED BY <1>2, <2>1, <2>2, <2>3
           DEF WorkerNext, Progress, StopWorker, TakeJob, DeferWaiting,
               AcceptJob, BeginJob, SendResult, SendExit, SendToNobody,
               AbortWorker, DeferSyncing, RetryJob, GiveUp
<1>3. CASE BackoffElapses \/ CommandNext
  BY <1>3 DEF BackoffElapses, CommandNext, Pause, Resume, Cancel, ForceQuit,
     SetParallelism
<1>4. CASE UNCHANGED vars
  BY <1>4 DEF vars
<1>. QED BY <1>1, <1>2, <1>3, <1>4 DEF Next, Returned

\* Taking the first result off the channel leaves true reports there.
LEMMA TailIsWhole ==
    ASSUME TypeOK, SuccessHasReached, results # <<>>, results' = Tail(results),
           UNCHANGED <<content, durable, pc, hold>>
    PROVE  /\ SuccessHasReached'
           /\ Head(results).outcome = "Success" => Reached(Head(results).file)
<1>1. results \in Seq(Results) /\ 1 \in DOMAIN results /\ Head(results) = results[1]
  BY LenProperties, EmptySeq DEF TypeOK
<1>2. \A i \in DOMAIN results' : i + 1 \in DOMAIN results /\ results'[i] = results[i + 1]
  <2>1. /\ Tail(results) \in Seq(Results) /\ Len(Tail(results)) = Len(results) - 1
        /\ \A i \in 1 .. Len(Tail(results)) : Tail(results)[i] = results[i + 1]
    BY <1>1, HeadTailProperties
  <2>2. DOMAIN results = 1 .. Len(results) /\ Len(results) \in Nat
        /\ DOMAIN Tail(results) = 1 .. Len(Tail(results))
    BY <1>1, <2>1, LenProperties
  <2>. QED BY <2>1, <2>2
<1>. QED BY <1>1, <1>2 DEF SuccessHasReached, Reached

\* A report names a file.
LEMMA ReportsNameFiles ==
    ASSUME TypeOK
    PROVE  /\ \A i \in DOMAIN results : results[i].file \in Files
           /\ \A w \in Workers : pc[w] = "send" => hold[w].file \in Files
<1>1. \A i \in DOMAIN results : results[i] \in Results
  BY ElementOfSeq, LenProperties DEF TypeOK
<1>. QED BY <1>1 DEF TypeOK, Results

\* The durability invariant is inductive: the steps of the main task.
LEMMA MainKeepsDurability ==
    ASSUME Dependable, TypeOK, DurabilityInv, MainNext
    PROVE  DurabilityInv'
<1>. USE DEF DurabilityInv, NothingIsStuck, Reached, book, disk, data, phase, place
<1>1. CASE PlanNothing \/ PlanWork
  <2>1. /\ UNCHANGED <<content, durable, stuck, saved, results, hold>> /\ mpc' # "write"
        /\ \A f \in Files : ledger'[f] = "Completed" => ledger[f] = "Completed"
        /\ \A w \in Workers : pc'[w] = "send" => pc[w] = "send"
    BY <1>1 DEF TypeOK, Ledgers, PrefixStates, PlanNothing, PlanWork, SpawnFirst
  <2>. QED BY <2>1 DEF SuccessHasReached, LedgerIsTrue, DurableIsThere,
              SyncedBeforeWritten, RecordedIsDurable
<1>2. CASE LoopEnds \/ ForceQuits \/ DrainForced \/ AllWorkersGone \/ Cancels
            \/ Waits \/ WorkerExits \/ DrainExit \/ Joined
  <2>1. UNCHANGED <<content, durable, stuck, saved, ledger, results, pc, hold>> /\ mpc' # "write"
    BY <1>2 DEF LoopEnds, ForceQuits, DrainForced, EnterCleanup, AllWorkersGone,
       Cancels, Waits, WorkerExits, DrainExit, Joined, SaveFor
  <2>. QED BY <2>1 DEF SuccessHasReached, LedgerIsTrue, DurableIsThere,
              SyncedBeforeWritten, RecordedIsDurable
<1>3. CASE ParallelismChanges
  <2>1. UNCHANGED <<content, durable, stuck, saved, ledger, results, hold>> /\ mpc' # "write"
        /\ \A w \in Workers : pc'[w] = "send" => pc[w] = "send"
    BY <1>3 DEF ParallelismChanges, Grow, Shrink, crew
  <2>. QED BY <2>1 DEF SuccessHasReached, LedgerIsTrue, DurableIsThere,
              SyncedBeforeWritten, RecordedIsDurable
<1>4. CASE RecordFailure
  <2>1. /\ results # <<>> /\ results' = Tail(results) /\ mpc' # "write"
        /\ UNCHANGED <<content, durable, stuck, saved, pc, hold>>
        /\ \A f \in Files : ledger'[f] = "Completed" => ledger[f] = "Completed"
    BY <1>4 DEF TypeOK, Ledgers, RecordFailure, TakeResult, SaveFor
  <2>2. SuccessHasReached'
    BY <2>1, TailIsWhole
  <2>. QED BY <2>1, <2>2 DEF LedgerIsTrue, DurableIsThere, SyncedBeforeWritten,
              RecordedIsDurable
<1>5. CASE RecordSuccess
  <2>1. /\ results # <<>> /\ results' = Tail(results) /\ mpc' # "write"
        /\ UNCHANGED <<content, durable, stuck, saved, pc, hold>>
        /\ Head(results).outcome = "Success"
        /\ \A f \in Files : ledger'[f] = "Completed" =>
                ledger[f] = "Completed" \/ f = Head(results).file
    BY <1>5 DEF TypeOK, Ledgers, RecordSuccess, TakeResult, SaveFor
  <2>2. SuccessHasReached' /\ Reached(Head(results).file)
    BY <2>1, TailIsWhole
  <2>. QED BY <2>1, <2>2 DEF LedgerIsTrue, DurableIsThere, SyncedBeforeWritten,
              RecordedIsDurable
<1>6. CASE DrainResult
  <2>1. /\ results # <<>> /\ results' = Tail(results)
        /\ UNCHANGED <<content, durable, stuck, saved, ledger, mpc, pc, hold>>
    BY <1>6 DEF DrainResult
  <2>2. SuccessHasReached'
    BY <2>1, TailIsWhole
  <2>. QED BY <2>1, <2>2 DEF LedgerIsTrue, DurableIsThere, SyncedBeforeWritten,
              RecordedIsDurable
<1>7. CASE Drained
  BY <1>7 DEF Drained, SaveFor, SuccessHasReached, LedgerIsTrue, DurableIsThere,
     SyncedBeforeWritten, RecordedIsDurable
<1>8. CASE SyncShards
  <2>1. /\ UNCHANGED <<content, stuck, saved, ledger, results, pc, hold>>
        /\ \A f \in Files : durable'[f] \in {durable[f], content[f]}
        /\ stuck = {} => \A f \in Files : durable'[f] = content[f]
    BY <1>8 DEF SyncShards, TypeOK
  <2>2. \A f \in Files : Reached(f) => durable'[f] \in Whole
    BY <2>1 DEF Dependable
  <2>3. SuccessHasReached'
    BY <2>1, <2>2, ReportsNameFiles DEF SuccessHasReached
  <2>4. RecordedIsDurable' /\ DurableIsThere'
    BY <2>1 DEF RecordedIsDurable, DurableIsThere
  <2>. QED BY <2>1, <2>2, <2>3, <2>4 DEF LedgerIsTrue, SyncedBeforeWritten
<1>9. CASE WriteLedger
  <2>1. /\ UNCHANGED <<content, durable, stuck, ledger, results, pc, hold>>
        /\ mpc = "write" /\ mpc' # "write"
        /\ \A f \in Files : saved'.ledger[f] = "Completed" =>
                ledger[f] = "Completed" \/ saved.ledger[f] = "Completed"
    BY <1>9 DEF WriteLedger, OnDisk, AfterSave, EnterCleanup
  <2>. QED BY <2>1 DEF SuccessHasReached, LedgerIsTrue, DurableIsThere,
              SyncedBeforeWritten, RecordedIsDurable
<1>10. CASE SaveFails
  <2>1. /\ UNCHANGED <<content, durable, saved, ledger, results, pc, hold>>
        /\ mpc' # "write" /\ SaveMayFail
    BY <1>10 DEF SaveFails, AfterSave, EnterCleanup
  <2>. QED BY <2>1 DEF SuccessHasReached, LedgerIsTrue, DurableIsThere,
              SyncedBeforeWritten, RecordedIsDurable
<1>. QED BY <1>1, <1>2, <1>3, <1>4, <1>5, <1>6, <1>7, <1>8, <1>9, <1>10
         DEF MainNext

\* The steps of the workers, the clock and the commands.
LEMMA OthersKeepDurability ==
    ASSUME TypeOK, DurabilityInv, [Next]_vars,
           (\E w \in Workers : WorkerNext(w)) \/ BackoffElapses \/ CommandNext
    PROVE  DurabilityInv'
<1>. USE DEF DurabilityInv, NothingIsStuck, Reached
<1>1. UNCHANGED <<ledger, saved, stuck, mpc>>
  BY DEF WorkerNext, Progress, StopWorker, TakeJob, DeferWaiting, DeferSyncing,
     AcceptJob, BeginJob, WritePart, FinishFile, SendResult, SendExit,
     SendToNobody, AbortWorker, RetryJob, GiveUp, Requeue, Conclude,
     BackoffElapses, CommandNext, Pause, Resume, Cancel, ForceQuit,
     SetParallelism, NotInControl, mainVars, book, disk, phase
<1>2. /\ \A f \in Files : content[f] \in Whole => content'[f] \in Whole
      /\ \A f \in Files : durable[f] \in Whole => durable'[f] \in Whole
  BY WholeStaysWhole DEF DurableIsThere
<1>3. LedgerIsTrue' /\ NothingIsStuck' /\ SyncedBeforeWritten' /\ RecordedIsDurable'
  BY <1>1, <1>2 DEF LedgerIsTrue, SyncedBeforeWritten, RecordedIsDurable
<1>4. DurableIsThere'
  <2>1. ASSUME NEW w \in Workers, FinishFile(w), NEW f \in Files,
               durable'[f] \in Whole
        PROVE  content'[f] \in Whole
    BY <1>2, <2>1 DEF TypeOK, FinishFile, AfterWhole, Whole, DurableIsThere
  <2>2. CASE UNCHANGED durable
    BY <1>2, <2>2 DEF DurableIsThere
  <2>. QED BY <2>1, <2>2
       DEF DurableIsThere, WorkerNext, Progress, StopWorker, TakeJob,
           DeferWaiting, DeferSyncing, AcceptJob, BeginJob, WritePart,
           SendResult, SendExit, SendToNobody, AbortWorker, RetryJob, GiveUp,
           BackoffElapses, CommandNext, Pause, Resume, Cancel, ForceQuit,
           SetParallelism, NotInControl, disk, data
<1>5. /\ \A i \in DOMAIN results : results[i].file \in Files
      /\ \A w \in Workers : pc[w] = "send" => hold[w].file \in Files
  BY ReportsNameFiles
<1>6. ASSUME NEW w \in Workers, WorkerNext(w) PROVE SuccessHasReached'
  <2>1. CASE FinishFile(w)
    <3>1. /\ hold[w] \in Jobs /\ UNCHANGED results
          /\ \A v \in Workers \ {w} : pc'[v] = pc[v] /\ hold'[v] = hold[v]
          /\ hold'[w].file = hold[w].file
          /\ content'[hold[w].file] \in Whole
          /\ Transactional => durable'[hold[w].file] \in Whole
      BY <2>1 DEF TypeOK, FinishFile, Goto, Conclude, AfterWhole, Whole, Jobs
    <3>. QED BY <1>2, <1>5, <3>1 DEF SuccessHasReached
  <2>2. CASE SendResult(w)
    <3>1. /\ pc[w] = "send" /\ results' = Append(results, hold[w])
          /\ UNCHANGED <<content, durable>>
          /\ \A v \in Workers : pc'[v] = "send" => pc[v] = "send" /\ hold'[v] = hold[v]
      BY <2>2 DEF TypeOK, SendResult, Goto, Release, data
    <3>2. results \in Seq(Results) /\ hold[w] \in Results
      BY <3>1 DEF TypeOK
    <3>. QED BY <3>1, <3>2 DEF SuccessHasReached
  <2>3. CASE GiveUp(w)
    <3>1. /\ UNCHANGED <<results, content, durable>> /\ hold'[w].outcome = "Failed"
          /\ \A v \in Workers \ {w} : pc'[v] = pc[v] /\ hold'[v] = hold[v]
      BY <2>3 DEF TypeOK, GiveUp, Goto, Conclude, data
    <3>. QED BY <3>1 DEF SuccessHasReached
  <2>4. CASE \/ StopWorker(w) \/ TakeJob(w) \/ DeferWaiting(w) \/ DeferSyncing(w)
             \/ AcceptJob(w) \/ BeginJob(w) \/ WritePart(w) \/ RetryJob(w)
             \/ SendExit(w) \/ SendToNobody(w) \/ AbortWorker(w)
    <3>1. UNCHANGED results
      BY <2>4 DEF StopWorker, TakeJob, DeferWaiting, DeferSyncing, AcceptJob,
         BeginJob, WritePart, RetryJob, SendExit, SendToNobody, AbortWorker,
         Requeue
    <3>2. \A v \in Workers : pc'[v] = "send" => pc[v] = "send" /\ hold'[v] = hold[v]
      BY <2>4 DEF TypeOK, StopWorker, TakeJob, DeferWaiting, DeferSyncing,
         AcceptJob, BeginJob, WritePart, RetryJob, SendExit, SendToNobody,
         AbortWorker, Requeue, Release, Goto
    <3>. QED BY <1>2, <1>5, <3>1, <3>2 DEF SuccessHasReached
  <2>. QED BY <1>6, <2>1, <2>2, <2>3, <2>4 DEF WorkerNext, Progress
<1>7. ASSUME BackoffElapses \/ CommandNext PROVE SuccessHasReached'
  <2>1. /\ UNCHANGED <<results, content, durable, pc>>
        /\ \A v \in Workers : pc[v] = "send" => hold'[v] = hold[v]
    BY <1>7 DEF TypeOK, BackoffElapses, CommandNext, Pause, Resume, Cancel,
       ForceQuit, SetParallelism, NotInControl, disk, data, place
  <2>. QED BY <2>1 DEF SuccessHasReached
<1>. QED BY <1>3, <1>4, <1>6, <1>7

LEMMA DurabilityStep ==
    ASSUME Dependable
    PROVE  TypeOK /\ DurabilityInv /\ [Next]_vars => DurabilityInv'
<1>. SUFFICES ASSUME TypeOK, DurabilityInv, [Next]_vars PROVE DurabilityInv'
  OBVIOUS
<1>1. CASE UNCHANGED vars
  BY <1>1 DEF vars, DurabilityInv, SuccessHasReached, LedgerIsTrue,
     DurableIsThere, NothingIsStuck, SyncedBeforeWritten, RecordedIsDurable,
     Reached, book, disk, phase, place
<1>. QED BY <1>1, MainKeepsDurability, OthersKeepDurability DEF Next, Returned

\* What earlier sessions left is durable.
LEMMA InitDurability == Init => DurabilityInv
<1>. SUFFICES ASSUME Init PROVE DurabilityInv
  OBVIOUS
<1>1. PICK h \in Histories :
          /\ ledger = h.ledger
          /\ saved = [ledger |-> h.ledger, closed |-> h.closed]
          /\ content = h.content /\ durable = h.content
  BY DEF Init
<1>. QED BY <1>1, HistoriesAreDurable
         DEF Init, DurabilityInv, SuccessHasReached, LedgerIsTrue,
             DurableIsThere, NothingIsStuck, SyncedBeforeWritten,
             RecordedIsDurable, Reached

\* The checkpoint on disk never calls a file completed whose counts a crash
\* would lose: save_checkpoint syncs the shards first, the main task records a
\* file only after its worker has reported it, and the worker reports after
\* its last count.  This takes transactions, or saves that do not fail.
THEOREM CompletedIsDurable ==
    ASSUME Dependable
    PROVE  Spec => []RecordedIsDurable
<1>1. DurabilityInv => RecordedIsDurable
  BY DEF DurabilityInv
<1>. QED BY <1>1, InitTypes, TypeStep, InitDurability, DurabilityStep, PTL
         DEF Spec

Stored   == {f \in Files : durable[f] \in Whole}
Recorded == {f \in Files : saved.ledger[f] = "Completed"}

\* The initial states of an import are initial states of its promise.
LEMMA PromiseInit == DurabilityInv => Promise!Init
BY DEF DurabilityInv, RecordedIsDurable, Promise!Init, Promise!TypeOK

\* Every step of an import stores files, records stored files, or stutters.
LEMMA PromiseStep ==
    ASSUME TypeOK, DurabilityInv, DurabilityInv', [Next]_vars
    PROVE  [Promise!Next]_<<Stored, Recorded>>
<1>. USE DEF Stored, Recorded
<1>1. Stored \subseteq Stored'
  BY WholeStaysWhole DEF DurabilityInv, DurableIsThere
<1>2. CASE UNCHANGED saved
  <2>1. Stored' = Stored \cup Stored' /\ UNCHANGED Recorded
    BY <1>1, <1>2
  <2>2. Stored' \in SUBSET Files
    OBVIOUS
  <2>. QED BY <2>1, <2>2 DEF Promise!Next, Promise!Store
<1>3. CASE WriteLedger
  <2>1. UNCHANGED Stored
    BY <1>3 DEF WriteLedger
  <2>2. Recorded' \in SUBSET Files /\ Recorded' \subseteq Stored
    BY <2>1 DEF DurabilityInv, RecordedIsDurable
  <2>. QED BY <2>1, <2>2 DEF Promise!Next, Promise!Record
<1>4. WriteLedger \/ UNCHANGED saved
  BY DEF Next, MainNext, PlanNothing, PlanWork, LoopEnds, AllWorkersGone,
     ForceQuits, Cancels, Waits, WorkerExits, ParallelismChanges,
     RecordFailure, RecordSuccess, DrainForced, DrainExit, DrainResult,
     Drained, SyncShards, SaveFails, Joined, WorkerNext, Progress,
     StopWorker, TakeJob, DeferWaiting, DeferSyncing, AcceptJob, BeginJob,
     WritePart, FinishFile, SendResult, SendExit, SendToNobody, AbortWorker,
     RetryJob, GiveUp, Requeue, Conclude, BackoffElapses, CommandNext,
     Pause, Resume, Cancel, ForceQuit, SetParallelism, NotInControl,
     mainVars, disk, vars, Returned
<1>. QED BY <1>2, <1>3, <1>4

\* So an import keeps the promise of CheckpointPromise, step by step.
THEOREM ImportKeepsPromise ==
    ASSUME Dependable
    PROVE  Spec => CheckpointsAreHonest
BY InitTypes, TypeStep, InitDurability, DurabilityStep, PromiseInit,
   PromiseStep, PTL
DEF Spec, CheckpointsAreHonest, Promise!Spec, Stored, Recorded

---------------------------------------------------------------------------
(* The last checkpoint is quiet. *)

\* The main task counts its handles, and holds one for every worker that is
\* running.  Identifiers are never used twice.
CrewIsKnown ==
    /\ active = Cardinality(handles)
    /\ \A w \in handles : w < nextId
    /\ \A w \in Workers : Running(w) => w \in handles
    /\ \A w \in Workers : pc[w] # "unborn" => w < nextId

\* An exit notice is the last thing a worker does, and it gives only one.
NoticesAreTrue ==
    /\ \A i \in DOMAIN exits : exits[i] \in handles /\ pc[exits[i]] = "gone"
    /\ \A i, j \in DOMAIN exits : exits[i] = exits[j] => i = j

QuietInv ==
    /\ CrewIsKnown /\ NoticesAreTrue
    /\ mpc = "plan" => nextId = 0
    /\ LastCheckpointIsQuiet

\* A worker that takes a step is running, and it moves nobody else.
LEMMA WorkerMoves ==
    ASSUME TypeOK, NEW w \in Workers, WorkerNext(w)
    PROVE  /\ Running(w) /\ pc'[w] # "unborn"
           /\ \A v \in Workers \ {w} : pc'[v] = pc[v]
           /\ UNCHANGED <<mpc, why, active, handles, nextId>>
           /\ UNCHANGED exits \/ (exits' = Append(exits, w) /\ pc'[w] = "gone")
<1>. USE DEF Running, WorkerPCs, Goto, mainVars, phase, crew
<1>1. CASE StopWorker(w) \/ TakeJob(w) \/ AcceptJob(w) \/ BeginJob(w)
  BY <1>1 DEF TypeOK, StopWorker, TakeJob, AcceptJob, BeginJob
<1>2. CASE DeferWaiting(w) \/ DeferSyncing(w) \/ RetryJob(w)
  BY <1>2 DEF TypeOK, DeferWaiting, DeferSyncing, RetryJob, Requeue
<1>3. CASE WritePart(w) \/ FinishFile(w) \/ GiveUp(w) \/ SendResult(w)
  BY <1>3 DEF TypeOK, WritePart, FinishFile, GiveUp, Conclude, SendResult
<1>4. CASE SendExit(w)
  BY <1>4 DEF TypeOK, SendExit
<1>5. CASE SendToNobody(w) \/ AbortWorker(w)
  BY <1>5 DEF TypeOK, SendToNobody, AbortWorker
<1>. QED BY <1>1, <1>2, <1>3, <1>4, <1>5 DEF WorkerNext, Progress

\* A step of a worker.
LEMMA WorkersKeepQuiet ==
    ASSUME TypeOK, QuietInv, NEW w \in Workers, WorkerNext(w)
    PROVE  QuietInv'
<1>. USE WorkerMoves DEF QuietInv
<1>1. CrewIsKnown'
  BY DEF CrewIsKnown, Running
<1>2. w \in handles /\ \A i \in DOMAIN exits : exits[i] # w
  BY DEF CrewIsKnown, NoticesAreTrue, Running
<1>3. exits \in Seq(Workers)
  BY DEF TypeOK
<1>4. NoticesAreTrue'
  <2>1. CASE UNCHANGED exits
    BY <1>2, <1>3, <2>1, ElementOfSeq, LenProperties DEF NoticesAreTrue
  <2>2. CASE exits' = Append(exits, w) /\ pc'[w] = "gone"
    <3>1. /\ DOMAIN exits = 1 .. Len(exits) /\ Len(exits) \in Nat
          /\ \A i \in DOMAIN exits : exits[i] \in Workers
      BY <1>3, ElementOfSeq, LenProperties
    <3>2. /\ DOMAIN exits' = 1 .. Len(exits) + 1
          /\ \A i \in DOMAIN exits' : exits'[i] = IF i = Len(exits) + 1 THEN w ELSE exits[i]
      BY <1>3, <2>2
    <3>3. /\ handles' = handles
          /\ \A v \in Workers \ {w} : pc'[v] = pc[v]
      BY WorkerMoves
    <3>4. \A i \in DOMAIN exits' : exits'[i] \in handles' /\ pc'[exits'[i]] = "gone"
      <4>1. ASSUME NEW i \in DOMAIN exits
            PROVE  exits[i] \in handles' /\ pc'[exits[i]] = "gone"
        BY <1>2, <3>1, <3>3 DEF NoticesAreTrue
      <4>2. w \in handles' /\ pc'[w] = "gone"
        BY <1>2, <2>2, <3>3
      <4>. QED BY <3>1, <3>2, <4>1, <4>2
    <3>5. \A i, j \in DOMAIN exits' : exits'[i] = exits'[j] => i = j
      BY <1>2, <3>1, <3>2 DEF NoticesAreTrue
    <3>. QED BY <3>4, <3>5 DEF NoticesAreTrue
  <2>. QED BY <2>1, <2>2
<1>5. LastCheckpointIsQuiet'
  BY DEF LastCheckpointIsQuiet
<1>. QED BY <1>1, <1>4, <1>5

\* The first exit notice names a worker that is gone; without it the rest of
\* the invariant holds as before.
LEMMA ForgettingIsSafe ==
    ASSUME TypeOK, CrewIsKnown, NoticesAreTrue, exits # <<>>, ForgetWorker,
           UNCHANGED pc
    PROVE  CrewIsKnown' /\ NoticesAreTrue'
<1>. DEFINE x == Head(exits)
<1>1. /\ exits \in Seq(Workers) /\ DOMAIN exits = 1 .. Len(exits)
      /\ Len(exits) \in Nat \ {0} /\ x = exits[1]
  BY LenProperties, EmptySeq DEF TypeOK
<1>2. /\ exits' = Tail(exits) /\ DOMAIN exits' = 1 .. (Len(exits) - 1)
      /\ \A i \in DOMAIN exits' : i + 1 \in DOMAIN exits /\ exits'[i] = exits[i + 1]
  <2>1. /\ Tail(exits) \in Seq(Workers) /\ Len(Tail(exits)) = Len(exits) - 1
        /\ \A i \in 1 .. Len(Tail(exits)) : Tail(exits)[i] = exits[i + 1]
    BY <1>1, HeadTailProperties
  <2>. QED BY <1>1, <2>1, LenProperties DEF ForgetWorker
<1>3. x \in handles /\ pc[x] = "gone"
  BY <1>1 DEF NoticesAreTrue
<1>4. /\ Cardinality(handles \ {x}) = Cardinality(handles) - 1
      /\ Cardinality(handles) \in Nat /\ Cardinality(handles \ {x}) \in Nat
  <2>1. handles \in SUBSET Workers /\ handles \ {x} \in SUBSET Workers
    BY DEF TypeOK
  <2>2. IsFiniteSet(handles) /\ Cardinality(handles) \in Nat
        /\ Cardinality(handles \ {x}) \in Nat
    BY <2>1, CrewIsFinite
  <2>. QED BY <1>3, <2>2, FS_RemoveElement
<1>5. active' = Cardinality(handles')
  <2>1. active = Cardinality(handles) /\ handles' = handles \ {x}
        /\ active' = IF active > 0 THEN active - 1 ELSE 0
    BY DEF CrewIsKnown, ForgetWorker
  <2>. QED BY <1>4, <2>1
<1>6. CrewIsKnown'
  BY <1>3, <1>5 DEF CrewIsKnown, ForgetWorker, Running
<1>7. NoticesAreTrue'
  <2>1. \A i \in DOMAIN exits' : exits'[i] # x
    BY <1>1, <1>2 DEF NoticesAreTrue
  <2>. QED BY <1>1, <1>2, <2>1 DEF NoticesAreTrue, ForgetWorker
<1>. QED BY <1>6, <1>7

\* New workers have new identifiers.
LEMMA GrowingIsSafe ==
    ASSUME TypeOK, CrewIsKnown, NoticesAreTrue, NEW n \in Nat, Grow(n),
           UNCHANGED exits
    PROVE  CrewIsKnown' /\ NoticesAreTrue'
<1>. DEFINE missing == n - Cardinality(handles)
            new     == nextId .. (nextId + missing - 1)
<1>1. Cardinality(handles) \in Nat /\ IsFiniteSet(handles)
  BY CrewIsFinite DEF TypeOK
<1>2. /\ missing \in Nat /\ nextId \in Nat /\ nextId + missing <= MaxWorkers
      /\ handles' = handles \cup new /\ nextId' = nextId + missing
      /\ active' = active + missing
      /\ pc' = [w \in Workers |-> IF w \in new THEN "idle" ELSE pc[w]]
  BY <1>1 DEF TypeOK, Grow
<1>. HIDE DEF missing
<1>3. IsFiniteSet(new) /\ Cardinality(new) = missing
  <2>1. nextId \in Int /\ nextId + missing - 1 \in Int
    BY <1>2
  <2>2. /\ IsFiniteSet(new)
        /\ Cardinality(new) = IF nextId > nextId + missing - 1 THEN 0
                              ELSE (nextId + missing - 1) - nextId + 1
    BY <2>1, FS_Interval
  <2>. QED BY <1>2, <2>2
<1>4. handles \cap new = {}
  BY <1>2 DEF CrewIsKnown, TypeOK, Workers
<1>5. Cardinality(handles \cup new) = Cardinality(handles) + missing
  <2>. HIDE DEF new
  <2>1. Cardinality(handles \cap new) = 0
    BY <1>4, FS_EmptySet
  <2>2. Cardinality(handles \cup new)
            = Cardinality(handles) + Cardinality(new) - Cardinality(handles \cap new)
    BY <1>1, <1>3, FS_Union
  <2>. QED BY <1>1, <1>2, <1>3, <2>1, <2>2
<1>6. CrewIsKnown'
  BY <1>2, <1>5 DEF CrewIsKnown, TypeOK, Workers, Running
<1>7. \A w \in handles : w \in Workers /\ pc'[w] = pc[w]
  BY <1>2, <1>4 DEF TypeOK
<1>8. NoticesAreTrue'
  BY <1>2, <1>7 DEF NoticesAreTrue
<1>. QED BY <1>6, <1>8

\* A step of the main task.
LEMMA MainKeepsQuiet ==
    ASSUME TypeOK, QuietInv, MainNext
    PROVE  QuietInv'
<1>. USE DEF QuietInv, phase, crew, place
<1>1. CASE PlanNothing
  BY <1>1 DEF PlanNothing, CrewIsKnown, NoticesAreTrue, LastCheckpointIsQuiet,
     Running
<1>2. CASE PlanWork
  <2>1. /\ mpc = "plan" /\ mpc' = "head" /\ UNCHANGED exits
        /\ active' = Parallelism /\ nextId' = Parallelism
        /\ handles' = 0 .. (Parallelism - 1)
        /\ pc' = [w \in Workers |-> IF w < Parallelism THEN "idle" ELSE "unborn"]
    BY <1>2 DEF PlanWork, SpawnFirst
  <2>2. Cardinality(0 .. (Parallelism - 1)) = Parallelism
    <3>1. 0 \in Int /\ Parallelism - 1 \in Int
      BY Numbers
    <3>. QED BY <3>1, FS_Interval, Numbers
  <2>3. CrewIsKnown'
    BY <2>1, <2>2, Numbers DEF CrewIsKnown, Running, Workers
  <2>4. handles = {}
    BY <2>1 DEF CrewIsKnown, TypeOK, Workers
  <2>5. NoticesAreTrue'
    BY <2>1, <2>4 DEF NoticesAreTrue
  <2>. QED BY <2>1, <2>3, <2>5 DEF LastCheckpointIsQuiet
<1>3. CASE LoopEnds \/ ForceQuits \/ DrainForced \/ Cancels \/ Waits
            \/ RecordFailure \/ RecordSuccess \/ DrainResult
  <2>1. /\ UNCHANGED <<active, handles, nextId, exits, pc>>
        /\ mpc' # "plan"
        /\ mpc' = "sync" => why' \in {"failure", "periodic"}
        /\ mpc' # "write"
    BY <1>3 DEF LoopEnds, ForceQuits, DrainForced, EnterCleanup, Cancels, Waits,
       InLoop, RecordFailure, RecordSuccess, TakeResult, SaveFor, DrainResult
  <2>. QED BY <2>1 DEF CrewIsKnown, NoticesAreTrue, LastCheckpointIsQuiet, Running
<1>4. CASE AllWorkersGone \/ Drained
  <2>1. /\ UNCHANGED <<active, handles, nextId, exits, pc>>
        /\ active = 0 /\ mpc' = "sync"
    BY <1>4 DEF AllWorkersGone, Drained, SaveFor
  <2>2. handles = {}
    BY <2>1, CrewIsFinite, FS_EmptySet DEF CrewIsKnown, TypeOK
  <2>. QED BY <2>1, <2>2 DEF CrewIsKnown, NoticesAreTrue, LastCheckpointIsQuiet, Running
<1>5. CASE WorkerExits \/ DrainExit
  <2>1. /\ exits # <<>> /\ ForgetWorker /\ UNCHANGED <<pc, nextId>>
        /\ mpc' \in {"head", "drain"}
    BY <1>5 DEF WorkerExits, DrainExit, ForgetWorker
  <2>2. CrewIsKnown' /\ NoticesAreTrue'
    BY <2>1, ForgettingIsSafe
  <2>. QED BY <2>1, <2>2 DEF LastCheckpointIsQuiet
<1>6. CASE ParallelismChanges
  <2>1. /\ mpc' = "head" /\ UNCHANGED exits /\ Head(resize) \in Nat
        /\ Grow(Head(resize)) \/ Shrink(Head(resize))
    BY <1>6, ChannelTypes DEF ParallelismChanges
  <2>2. CASE Grow(Head(resize))
    BY <2>1, <2>2, GrowingIsSafe DEF LastCheckpointIsQuiet
  <2>3. CASE Shrink(Head(resize))
    BY <2>1, <2>3 DEF Shrink, CrewIsKnown, NoticesAreTrue, Running,
       LastCheckpointIsQuiet
  <2>. QED BY <2>1, <2>2, <2>3
<1>7. CASE SyncShards
  <2>1. UNCHANGED <<active, handles, nextId, exits, pc, why>> /\ mpc = "sync" /\ mpc' = "write"
    BY <1>7 DEF SyncShards
  <2>. QED BY <2>1 DEF CrewIsKnown, NoticesAreTrue, LastCheckpointIsQuiet, Running
<1>8. CASE WriteLedger \/ SaveFails
  <2>1. /\ UNCHANGED <<active, handles, nextId, exits, pc>>
        /\ mpc' \in {"head", "join", "done"}
    BY <1>8 DEF WriteLedger, SaveFails, AfterSave, EnterCleanup
  <2>. QED BY <2>1 DEF CrewIsKnown, NoticesAreTrue, LastCheckpointIsQuiet, Running
<1>9. CASE Joined
  <2>1. /\ UNCHANGED <<active, handles, nextId, exits, pc>>
        /\ mpc' \in {"sync", "done"}
        /\ \A w \in handles : pc[w] = "gone"
    BY <1>9 DEF Joined, SaveFor
  <2>. QED BY <2>1 DEF CrewIsKnown, NoticesAreTrue, LastCheckpointIsQuiet, Running
<1>. QED BY <1>1, <1>2, <1>3, <1>4, <1>5, <1>6, <1>7, <1>8, <1>9 DEF MainNext

LEMMA QuietStep == TypeOK /\ QuietInv /\ [Next]_vars => QuietInv'
<1>. SUFFICES ASSUME TypeOK, QuietInv, [Next]_vars PROVE QuietInv'
  OBVIOUS
<1>1. CASE BackoffElapses \/ CommandNext \/ UNCHANGED vars
  <2>1. UNCHANGED <<active, handles, nextId, exits, pc, mpc, why>>
    BY <1>1 DEF BackoffElapses, CommandNext, Pause, Resume, Cancel, ForceQuit,
       SetParallelism, NotInControl, mainVars, vars, phase, crew, place
  <2>. QED BY <2>1 DEF QuietInv, CrewIsKnown, NoticesAreTrue,
              LastCheckpointIsQuiet, Running
<1>. QED BY <1>1, MainKeepsQuiet, WorkersKeepQuiet DEF Next, Returned

\* When the checkpoint of a cancelled, emptied or finished import is saved,
\* no worker is left that could still write counts: active_workers is the
\* number of handles, every running worker has one, and an exit notice is
\* sent once, at the end.
THEOREM LastCheckpointQuiet == Spec => []LastCheckpointIsQuiet
<1>1. Init => QuietInv
  BY FS_EmptySet
  DEF Init, QuietInv, CrewIsKnown, NoticesAreTrue, LastCheckpointIsQuiet, Running
<1>2. QuietInv => LastCheckpointIsQuiet
  BY DEF QuietInv
<1>. QED BY <1>1, <1>2, Typing, QuietStep, PTL DEF Spec
---------------------------------------------------------------------------
(* No job is lost between the queue and the main task. *)

\* The jobs that are still to be answered for, wherever they are.
Due == queueSize + Cardinality(Sending) + Len(results) + received

\* Before the plan is made there is nothing; then no more is due than planned,
\* and an abort only takes away.
AccountsInv ==
    /\ QueueSizeIsExact /\ ResultsAccounted
    /\ Due <= pending + retries
    /\ mpc = "plan" => queueSize = 0 /\ results = <<>> /\ received = 0
                       /\ pending = 0 /\ retries = 0 /\ queue = <<>>
                       /\ aborted = {} /\ \A w \in Workers : pc[w] = "unborn"

\* The counters are numbers.
LEMMA CountersAreNumbers ==
    ASSUME TypeOK
    PROVE  /\ Cardinality(Busy) \in Nat /\ Cardinality(Sending) \in Nat
           /\ Len(queue) \in Nat /\ Len(results) \in Nat /\ received \in Nat
           /\ queueSize \in Int /\ pending \in Nat /\ retries \in Nat
           /\ Due \in Int
<1>1. Busy \in SUBSET Workers /\ Sending \in SUBSET Workers
  BY DEF Busy, Sending
<1>2. /\ Cardinality(Busy) \in Nat /\ Cardinality(Sending) \in Nat
      /\ Len(queue) \in Nat /\ Len(results) \in Nat /\ received \in Nat
      /\ queueSize \in Int /\ pending \in Nat /\ retries \in Nat
  BY <1>1, CrewIsFinite, ChannelTypes DEF TypeOK
<1>. QED BY <1>2 DEF Due

LEMMA CountersStayNumbers ==
    ASSUME TypeOK'
    PROVE  /\ Cardinality(Busy') \in Nat /\ Cardinality(Sending') \in Nat
           /\ Len(queue') \in Nat /\ Len(results') \in Nat /\ received' \in Nat
           /\ queueSize' \in Int /\ Due' \in Int
<1>1. Busy' \in SUBSET Workers /\ Sending' \in SUBSET Workers
  BY DEF Busy, Sending
<1>2. Len(queue') \in Nat /\ Len(results') \in Nat /\ received' \in Nat
      /\ queueSize' \in Int
  BY DEF TypeOK
<1>3. Cardinality(Busy') \in Nat /\ Cardinality(Sending') \in Nat
  BY <1>1, CrewIsFinite
<1>. QED BY <1>2, <1>3 DEF Due

\* One worker enters or leaves the two sets that are counted.
LEMMA OneWorkerCounts ==
    ASSUME NEW S \in SUBSET Workers, NEW T \in SUBSET Workers, NEW w \in Workers,
           S \ {w} = T \ {w}
    PROVE  /\ (w \in S <=> w \in T) => Cardinality(T) = Cardinality(S)
           /\ w \in S /\ w \notin T => Cardinality(T) = Cardinality(S) - 1
           /\ w \notin S /\ w \in T => Cardinality(T) = Cardinality(S) + 1
<1>1. IsFiniteSet(S) /\ IsFiniteSet(T) /\ Cardinality(S) \in Nat /\ Cardinality(T) \in Nat
  BY CrewIsFinite
<1>2. (w \in S <=> w \in T) => S = T
  OBVIOUS
<1>3. w \in S /\ w \notin T => T = S \ {w}
  OBVIOUS
<1>4. w \notin S /\ w \in T => S = T \ {w}
  OBVIOUS
<1>5. /\ w \in S => Cardinality(S \ {w}) = Cardinality(S) - 1
      /\ w \in T => Cardinality(T \ {w}) = Cardinality(T) - 1
  BY <1>1, FS_RemoveElement
<1>6. CASE w \in S /\ w \notin T
  BY <1>1, <1>3, <1>5, <1>6
<1>7. CASE w \notin S /\ w \in T
  <2>1. Cardinality(S) = Cardinality(T) - 1
    BY <1>4, <1>5, <1>7
  <2>. QED BY <1>1, <1>7, <2>1
<1>. QED BY <1>2, <1>6, <1>7

BusyPCs == {"got", "pausing", "work", "half"}

LEMMA WorkerCounts ==
    ASSUME TypeOK, NEW w \in Workers, \A v \in Workers \ {w} : pc'[v] = pc[v]
    PROVE  /\ (pc[w] \in BusyPCs <=> pc'[w] \in BusyPCs)
                => Cardinality(Busy') = Cardinality(Busy)
           /\ pc[w] \in BusyPCs /\ pc'[w] \notin BusyPCs
                => Cardinality(Busy') = Cardinality(Busy) - 1
           /\ pc[w] \notin BusyPCs /\ pc'[w] \in BusyPCs
                => Cardinality(Busy') = Cardinality(Busy) + 1
           /\ (pc[w] = "send" <=> pc'[w] = "send")
                => Cardinality(Sending') = Cardinality(Sending)
           /\ pc[w] = "send" /\ pc'[w] # "send"
                => Cardinality(Sending') = Cardinality(Sending) - 1
           /\ pc[w] # "send" /\ pc'[w] = "send"
                => Cardinality(Sending') = Cardinality(Sending) + 1
<1>1. Busy \in SUBSET Workers /\ Busy' \in SUBSET Workers /\ Busy \ {w} = Busy' \ {w}
      /\ (w \in Busy <=> pc[w] \in BusyPCs) /\ (w \in Busy' <=> pc'[w] \in BusyPCs)
  BY DEF Busy, BusyPCs
<1>2. Sending \in SUBSET Workers /\ Sending' \in SUBSET Workers
      /\ Sending \ {w} = Sending' \ {w}
      /\ (w \in Sending <=> pc[w] = "send") /\ (w \in Sending' <=> pc'[w] = "send")
  BY DEF Sending
<1>3. /\ (w \in Busy <=> w \in Busy') => Cardinality(Busy') = Cardinality(Busy)
      /\ w \in Busy /\ w \notin Busy' => Cardinality(Busy') = Cardinality(Busy) - 1
      /\ w \notin Busy /\ w \in Busy' => Cardinality(Busy') = Cardinality(Busy) + 1
  BY <1>1, OneWorkerCounts
<1>4. /\ (w \in Sending <=> w \in Sending') => Cardinality(Sending') = Cardinality(Sending)
      /\ w \in Sending /\ w \notin Sending' => Cardinality(Sending') = Cardinality(Sending) - 1
      /\ w \notin Sending /\ w \in Sending' => Cardinality(Sending') = Cardinality(Sending) + 1
  BY <1>2, OneWorkerCounts
<1>. QED BY <1>1, <1>2, <1>3, <1>4

\* The lengths of the channels after a step.
LEMMA ChannelLengths ==
    ASSUME TypeOK
    PROVE  /\ queue # <<>> => Len(Tail(queue)) = Len(queue) - 1
           /\ \A job : Len(Append(queue, job)) = Len(queue) + 1
           /\ results # <<>> => Len(Tail(results)) = Len(results) - 1
           /\ \A r : Len(Append(results, r)) = Len(results) + 1
BY DEF TypeOK

LEMMA InitAccounts == Init => AccountsInv
<1>. SUFFICES ASSUME Init PROVE AccountsInv
  OBVIOUS
<1>1. Busy = {} /\ Sending = {}
  BY DEF Init, Busy, Sending
<1>2. Cardinality(Busy) = 0 /\ Cardinality(Sending) = 0 /\ Len(queue) = 0 /\ Len(results) = 0
  BY <1>1, FS_EmptySet DEF Init
<1>. QED BY <1>2 DEF Init, AccountsInv, QueueSizeIsExact, ResultsAccounted, Due

\* What a step adds to the numbers of queued, busy, unfinished, sending and
\* reported jobs has to add up.
LEMMA CountsMove ==
    ASSUME TypeOK, TypeOK', AccountsInv, mpc # "plan", mpc' # "plan",
           UNCHANGED <<pending, retries>>, aborted \subseteq aborted',
           mpc' # "done" => mpc # "done",
           Len(queue') + Cardinality(Busy') - queueSize'
               <= Len(queue) + Cardinality(Busy) - queueSize,
           aborted' = {} => Len(queue') + Cardinality(Busy') - queueSize'
                              = Len(queue) + Cardinality(Busy) - queueSize,
           Due' <= Due, aborted' = {} /\ mpc' # "done" => Due' = Due
    PROVE  AccountsInv'
<1>1. /\ Cardinality(Busy) \in Nat /\ Cardinality(Sending) \in Nat
      /\ Len(queue) \in Nat /\ Len(results) \in Nat /\ received \in Nat
      /\ queueSize \in Int /\ pending \in Nat /\ retries \in Nat
  BY CountersAreNumbers
<1>2. Cardinality(Busy') \in Nat /\ Len(queue') \in Nat /\ queueSize' \in Int
      /\ Due \in Int /\ Due' \in Int
  BY CountersAreNumbers, CountersStayNumbers
<1>3. QueueSizeIsExact'
  <2>1. Len(queue') + Cardinality(Busy') - queueSize' <= 0
    BY <1>1, <1>2 DEF AccountsInv, QueueSizeIsExact
  <2>2. aborted' = {} => Len(queue') + Cardinality(Busy') - queueSize' = 0
    BY <1>1, <1>2 DEF AccountsInv, QueueSizeIsExact
  <2>. QED BY <1>2, <2>1, <2>2 DEF QueueSizeIsExact
<1>4. Due' <= pending' + retries'
  BY <1>1, <1>2 DEF AccountsInv
<1>5. ResultsAccounted'
  BY DEF AccountsInv, ResultsAccounted, Due
<1>. QED BY <1>3, <1>4, <1>5 DEF AccountsInv

LEMMA WorkersKeepAccounts ==
    ASSUME TypeOK, AccountsInv, NEW w \in Workers, WorkerNext(w)
    PROVE  AccountsInv'
<1>0. /\ \A v \in Workers \ {w} : pc'[v] = pc[v]
      /\ mpc # "plan" /\ mpc' = mpc
      /\ UNCHANGED <<aborted, pending, retries, received>>
  <2>1. UNCHANGED <<aborted, pending, retries, received>>
    BY DEF WorkerNext, Progress, StopWorker, TakeJob, DeferWaiting, DeferSyncing,
       AcceptJob, BeginJob, WritePart, FinishFile, SendResult, SendExit,
       SendToNobody, AbortWorker, RetryJob, GiveUp, Requeue, Conclude,
       mainVars, plan, tally, signals
  <2>. QED BY <2>1, WorkerMoves DEF AccountsInv, Running
<1>1. TypeOK'
  BY WorkerTypes
<1>2. /\ Cardinality(Busy) \in Nat /\ Cardinality(Sending) \in Nat
      /\ Len(queue) \in Nat /\ Len(results) \in Nat /\ received \in Nat
      /\ queueSize \in Int
  BY CountersAreNumbers
<1>3. /\ (pc[w] \in BusyPCs <=> pc'[w] \in BusyPCs)
            => Cardinality(Busy') = Cardinality(Busy)
      /\ pc[w] \in BusyPCs /\ pc'[w] \notin BusyPCs
            => Cardinality(Busy') = Cardinality(Busy) - 1
      /\ pc[w] \notin BusyPCs /\ pc'[w] \in BusyPCs
            => Cardinality(Busy') = Cardinality(Busy) + 1
      /\ (pc[w] = "send" <=> pc'[w] = "send")
            => Cardinality(Sending') = Cardinality(Sending)
      /\ pc[w] = "send" /\ pc'[w] # "send"
            => Cardinality(Sending') = Cardinality(Sending) - 1
      /\ pc[w] # "send" /\ pc'[w] = "send"
            => Cardinality(Sending') = Cardinality(Sending) + 1
  BY <1>0, WorkerCounts
\* It is enough to know the two numbers the invariant compares.
<1>4. ASSUME Len(queue') + Cardinality(Busy') - queueSize'
                = Len(queue) + Cardinality(Busy) - queueSize,
             Due' = Due
      PROVE  AccountsInv'
  BY <1>0, <1>1, <1>2, <1>4, CountersAreNumbers, CountsMove
<1>5. CASE StopWorker(w) \/ AcceptJob(w) \/ BeginJob(w) \/ WritePart(w) \/ SendExit(w)
  <2>1. UNCHANGED <<queue, queueSize, results>>
    BY <1>5, ChannelLengths DEF StopWorker, AcceptJob, BeginJob, WritePart, SendExit, work
  <2>2. /\ pc[w] \in BusyPCs <=> pc'[w] \in BusyPCs
        /\ pc[w] # "send" /\ pc'[w] # "send"
    BY <1>5 DEF TypeOK, StopWorker, AcceptJob, BeginJob, WritePart, SendExit, Goto, BusyPCs
  <2>3. /\ Cardinality(Busy') = Cardinality(Busy)
        /\ Cardinality(Sending') = Cardinality(Sending)
    BY <1>3, <2>2 DEF BusyPCs
  <2>4. Len(queue') + Cardinality(Busy') - queueSize'
            = Len(queue) + Cardinality(Busy) - queueSize
    BY <1>2, <2>1, <2>3
  <2>5. Due' = Due
    BY <1>0, <1>2, <2>1, <2>3 DEF Due
  <2>. QED BY <1>4, <2>4, <2>5
<1>6. CASE TakeJob(w)
  <2>1. UNCHANGED <<queueSize, results>> /\ Len(queue') = Len(queue) - 1
    BY <1>6, ChannelLengths DEF TakeJob, work
  <2>2. pc[w] = "idle" /\ pc'[w] = "got"
    BY <1>6 DEF TypeOK, TakeJob, Goto, BusyPCs
  <2>3. /\ Cardinality(Busy') = Cardinality(Busy) + 1
        /\ Cardinality(Sending') = Cardinality(Sending)
    BY <1>3, <2>2 DEF BusyPCs
  <2>4. Len(queue') + Cardinality(Busy') - queueSize'
            = Len(queue) + Cardinality(Busy) - queueSize
    BY <1>2, <2>1, <2>3
  <2>5. Due' = Due
    BY <1>0, <1>2, <2>1, <2>3 DEF Due
  <2>. QED BY <1>4, <2>4, <2>5
<1>7. CASE DeferWaiting(w) \/ DeferSyncing(w) \/ RetryJob(w)
  <2>1. UNCHANGED <<queueSize, results>> /\ Len(queue') = Len(queue) + 1
    BY <1>7, ChannelLengths DEF DeferWaiting, DeferSyncing, RetryJob, Requeue, work
  <2>2. pc[w] \in BusyPCs /\ pc'[w] = "idle"
    BY <1>7 DEF TypeOK, DeferWaiting, DeferSyncing, RetryJob, Requeue, Goto, BusyPCs
  <2>3. /\ Cardinality(Busy') = Cardinality(Busy) - 1
        /\ Cardinality(Sending') = Cardinality(Sending)
    BY <1>3, <2>2 DEF BusyPCs
  <2>4. Len(queue') + Cardinality(Busy') - queueSize'
            = Len(queue) + Cardinality(Busy) - queueSize
    BY <1>2, <2>1, <2>3
  <2>5. Due' = Due
    BY <1>0, <1>2, <2>1, <2>3 DEF Due
  <2>. QED BY <1>4, <2>4, <2>5
<1>8. CASE FinishFile(w) \/ GiveUp(w)
  <2>1. UNCHANGED <<queue, results>> /\ queueSize' = queueSize - 1
    BY <1>8, ChannelLengths DEF FinishFile, GiveUp, Conclude, work
  <2>2. pc[w] \in BusyPCs /\ pc'[w] = "send"
    BY <1>8 DEF TypeOK, FinishFile, GiveUp, Conclude, Goto, BusyPCs
  <2>3. /\ Cardinality(Busy') = Cardinality(Busy) - 1
        /\ Cardinality(Sending') = Cardinality(Sending) + 1
    BY <1>3, <2>2 DEF BusyPCs
  <2>4. Len(queue') + Cardinality(Busy') - queueSize'
            = Len(queue) + Cardinality(Busy) - queueSize
    BY <1>2, <2>1, <2>3
  <2>5. Due' = Due
    BY <1>0, <1>2, <2>1, <2>3 DEF Due
  <2>. QED BY <1>4, <2>4, <2>5
<1>9. CASE SendResult(w)
  <2>1. UNCHANGED <<queue, queueSize>> /\ Len(results') = Len(results) + 1
    BY <1>9, ChannelLengths DEF SendResult, work
  <2>2. pc[w] = "send" /\ pc'[w] = "idle"
    BY <1>9 DEF TypeOK, SendResult, Goto, BusyPCs
  <2>3. /\ Cardinality(Busy') = Cardinality(Busy)
        /\ Cardinality(Sending') = Cardinality(Sending) - 1
    BY <1>3, <2>2 DEF BusyPCs
  <2>4. Len(queue') + Cardinality(Busy') - queueSize'
            = Len(queue) + Cardinality(Busy) - queueSize
    BY <1>2, <2>1, <2>3
  <2>5. Due' = Due
    <3>1. /\ queueSize' + Cardinality(Sending') = queueSize + Cardinality(Sending) - 1
          /\ Len(results') = Len(results) + 1 /\ received' = received
      BY <1>0, <1>2, <2>1, <2>3
    <3>. QED BY <1>2, <3>1 DEF Due
  <2>. QED BY <1>4, <2>4, <2>5
<1>10. CASE SendToNobody(w) \/ AbortWorker(w)
  <2>1. /\ UNCHANGED <<queue, queueSize, results>>
        /\ mpc = "done" \/ aborted # {}
    BY <1>10 DEF SendToNobody, AbortWorker, work
  <2>2. /\ pc'[w] = "gone"
        /\ SendToNobody(w) => pc[w] \notin BusyPCs
    BY <1>10 DEF TypeOK, SendToNobody, AbortWorker, Goto, BusyPCs
  <2>3. /\ Cardinality(Busy') \in {Cardinality(Busy), Cardinality(Busy) - 1}
        /\ Cardinality(Sending') \in {Cardinality(Sending), Cardinality(Sending) - 1}
        /\ SendToNobody(w) => Cardinality(Busy') = Cardinality(Busy)
    BY <1>3, <2>2 DEF BusyPCs
  <2>4. /\ Len(queue') + Cardinality(Busy') - queueSize'
              <= Len(queue) + Cardinality(Busy) - queueSize
        /\ SendToNobody(w) => Len(queue') + Cardinality(Busy') - queueSize'
                                = Len(queue) + Cardinality(Busy) - queueSize
    BY <1>2, <2>1, <2>3
  <2>5. Due' <= Due
    BY <1>0, <1>2, <2>1, <2>3 DEF Due
  <2>6. AbortWorker(w) => aborted' # {}
    BY <1>0 DEF AbortWorker
  <2>. QED BY <1>0, <1>1, <1>10, <2>1, <2>4, <2>5, <2>6, CountsMove
<1>. QED BY <1>5, <1>6, <1>7, <1>8, <1>9, <1>10 DEF WorkerNext, Progress

\* A result that is received is still accounted for.
LEMMA ResultsKeepAccounts ==
    ASSUME TypeOK, AccountsInv, MainNext,
           RecordFailure \/ RecordSuccess \/ DrainResult \/ Drained
    PROVE  AccountsInv'
<1>1. /\ UNCHANGED <<queue, queueSize, pending, retries, pc, aborted>>
      /\ mpc \in {"select", "drain"} /\ mpc' \notin {"plan", "done"}
  BY DEF RecordFailure, RecordSuccess, TakeResult, DrainResult, Drained,
     SaveFor, plan, work, place, signals, phase
<1>2. UNCHANGED <<Busy, Sending>>
  BY <1>1 DEF Busy, Sending
<1>3. /\ Cardinality(Sending) \in Nat /\ queueSize \in Int
      /\ Len(results) \in Nat /\ received \in Nat
  BY CountersAreNumbers
<1>4. TypeOK'
  BY MainTypes
<1>5. Len(results') \in Nat /\ received' \in Nat
  BY <1>4, CountersStayNumbers
<1>6. Len(results') + received' = Len(results) + received
  <2>1. CASE Drained
    BY <1>3, <2>1 DEF Drained
  <2>2. CASE RecordFailure \/ RecordSuccess \/ DrainResult
    <3>1. results # <<>> /\ results' = Tail(results) /\ received' = received + 1
      BY <2>2 DEF RecordFailure, RecordSuccess, TakeResult, DrainResult
    <3>2. Len(results') = Len(results) - 1
      BY <3>1, ChannelLengths
    <3>. QED BY <1>3, <3>1, <3>2
  <2>. QED BY <2>1, <2>2
<1>7. Due' = Due
  BY <1>1, <1>2, <1>3, <1>5, <1>6 DEF Due
<1>8. Due' <= Due
  BY <1>7, CountersAreNumbers
<1>9. Len(queue') + Cardinality(Busy') - queueSize'
          = Len(queue) + Cardinality(Busy) - queueSize
      /\ Len(queue') + Cardinality(Busy') - queueSize'
          <= Len(queue) + Cardinality(Busy) - queueSize
  BY <1>1, <1>2, <1>3, CountersAreNumbers
<1>. QED BY <1>1, <1>4, <1>7, <1>8, <1>9, CountsMove

LEMMA MainKeepsAccounts ==
    ASSUME TypeOK, CrewIsKnown, AccountsInv, MainNext
    PROVE  AccountsInv'
<1>. USE CountersAreNumbers DEF AccountsInv, QueueSizeIsExact, ResultsAccounted, Due
<1>1. CASE PlanNothing
  <2>1. /\ mpc = "plan" /\ mpc' = "done" /\ pending' \in Nat
        /\ UNCHANGED <<queue, queueSize, results, received, aborted, pc, retries>>
    BY <1>1, CountsAreNat DEF PlanNothing, CountPending, work, tally, place, signals
  <2>2. UNCHANGED <<Busy, Sending>>
    BY <2>1 DEF Busy, Sending
  <2>. QED BY <2>1, <2>2
<1>2. CASE PlanWork
  <2>1. /\ mpc = "plan" /\ mpc' = "head" /\ queueSize' = JobCount
        /\ pending' + retries' = JobCount
        /\ UNCHANGED <<results, received, aborted>>
    BY <1>2 DEF PlanWork, CountPending, JobCount, signals
  <2>2. Len(queue') = JobCount /\ JobCount \in Nat
    <3>1. JobCount \in Nat
      BY CountsAreNat DEF JobCount
    <3>2. queue' \in [1 .. JobCount -> [file : Files, attempt : {0}, wait : {FALSE}]]
      BY <1>2 DEF PlanWork, Fillings
    <3>. QED BY <3>1, <3>2
  <2>3. Busy' = {} /\ Sending' = {}
    BY <1>2 DEF PlanWork, SpawnFirst, Busy, Sending
  <2>4. Cardinality(Busy') = 0 /\ Cardinality(Sending') = 0 /\ Len(results) = 0
    BY <2>1, <2>3, FS_EmptySet
  <2>. QED BY <2>1, <2>2, <2>4
<1>3. CASE LoopEnds \/ AllWorkersGone \/ ForceQuits \/ Cancels \/ Waits
            \/ WorkerExits \/ DrainForced \/ DrainExit
            \/ SyncShards \/ WriteLedger \/ SaveFails \/ Joined
  <2>1. /\ UNCHANGED <<queue, queueSize, results, received, pending, retries, pc>>
        /\ mpc \notin {"plan", "done"} /\ mpc' # "plan"
        /\ aborted \subseteq aborted'
    BY <1>3 DEF LoopEnds, AllWorkersGone, ForceQuits, Cancels, Waits, InLoop,
       WorkerExits, ForgetWorker, DrainForced, DrainExit, EnterCleanup, SaveFor,
       SyncShards, WriteLedger, SaveFails, AfterSave, Joined, plan, tally, work,
       place, signals, phase
  <2>2. UNCHANGED <<Busy, Sending>>
    BY <2>1 DEF Busy, Sending
  <2>. QED BY <2>1, <2>2
<1>4. CASE ParallelismChanges
  <2>1. /\ UNCHANGED <<queue, queueSize, results, received, pending, retries, aborted>>
        /\ mpc = "select" /\ mpc' = "head"
        /\ Grow(Head(resize)) \/ Shrink(Head(resize))
    BY <1>4 DEF ParallelismChanges, plan, tally, work
  <2>2. \A v \in Workers : pc'[v] # pc[v] => pc[v] = "unborn" /\ pc'[v] = "idle"
    <3>1. CASE Grow(Head(resize))
      <4>1. nextId \in Nat /\ \A v \in Workers : pc[v] # "unborn" => v < nextId
        BY DEF CrewIsKnown, TypeOK
      <4>. QED BY <3>1, <4>1 DEF Grow, Workers, TypeOK
    <3>2. CASE Shrink(Head(resize))
      BY <3>2 DEF Shrink
    <3>. QED BY <2>1, <3>1, <3>2
  <2>3. UNCHANGED <<Busy, Sending>>
    <3>1. \A v \in Workers : pc'[v] \in BusyPCs \cup {"send"} => pc'[v] = pc[v]
      BY <2>2 DEF BusyPCs
    <3>2. \A v \in Workers : pc[v] \in BusyPCs \cup {"send"} => pc'[v] = pc[v]
      BY <2>2 DEF BusyPCs
    <3>. QED BY <3>1, <3>2 DEF Busy, Sending, BusyPCs
  <2>. QED BY <2>1, <2>3
<1>5. CASE RecordFailure \/ RecordSuccess \/ DrainResult \/ Drained
  BY <1>5, ResultsKeepAccounts
<1>. QED BY <1>1, <1>2, <1>3, <1>4, <1>5 DEF MainNext

LEMMA AccountsStep ==
    TypeOK /\ QuietInv /\ AccountsInv /\ [Next]_vars => AccountsInv'
<1>. SUFFICES ASSUME TypeOK, QuietInv, AccountsInv, [Next]_vars PROVE AccountsInv'
  OBVIOUS
<1>1. CASE CommandNext \/ UNCHANGED vars
  <2>1. UNCHANGED <<queue, queueSize, results, received, pending, retries, pc,
                    aborted, mpc>>
    BY <1>1 DEF CommandNext, Pause, Resume, Cancel, ForceQuit, SetParallelism,
       NotInControl, vars, work, tally, plan, place, signals, phase
  <2>2. UNCHANGED <<Busy, Sending>>
    BY <2>1 DEF Busy, Sending
  <2>. QED BY <2>1, <2>2 DEF AccountsInv, QueueSizeIsExact, ResultsAccounted, Due
<1>2. CASE BackoffElapses
  <2>1. /\ UNCHANGED <<queueSize, results, received, pending, retries, pc,
                       aborted, mpc>>
    BY <1>2 DEF BackoffElapses, mainVars, tally, plan, signals, phase
  <2>2. UNCHANGED <<Busy, Sending>>
    BY <2>1 DEF Busy, Sending
  <2>3. Len(queue') = Len(queue) /\ (queue = <<>> => queue' = <<>>)
    BY <1>2 DEF BackoffElapses, TypeOK
  <2>. QED BY <2>1, <2>2, <2>3 DEF AccountsInv, QueueSizeIsExact, ResultsAccounted, Due
<1>. QED BY <1>1, <1>2, MainKeepsAccounts, WorkersKeepAccounts
         DEF Next, Returned, QuietInv

LEMMA Accounts == Spec => []AccountsInv
<1>1. Init => QuietInv
  BY FS_EmptySet
  DEF Init, QuietInv, CrewIsKnown, NoticesAreTrue, LastCheckpointIsQuiet, Running
<1>. QED BY <1>1, InitAccounts, Typing, QuietStep, AccountsStep, PTL DEF Spec

\* queue_size is the number of jobs that are queued or in work, however often
\* they are deferred, retried and requeued; an abort leaves it too high.
THEOREM QueueSizeExact == Spec => []QueueSizeIsExact
BY Accounts, PTL DEF AccountsInv

\* No job disappears between the queue and the main task, unless its worker is
\* aborted: each one queued is in work, reported or received.
THEOREM EveryJobIsAccountedFor == Spec => []ResultsAccounted
BY Accounts, PTL DEF AccountsInv

\* The queue has room for every job a worker may have to put back, so that a
\* worker never waits for another one to take a job out.
THEOREM RequeueHasRoom == Spec => []RequeueNeverBlocks
<1>1. TypeOK /\ AccountsInv => RequeueNeverBlocks
  <2>. SUFFICES ASSUME TypeOK, AccountsInv, NEW w \in Busy
                PROVE  Len(queue) < QueueCapacity
    BY DEF RequeueNeverBlocks
  <2>1. Len(queue) <= pending + retries
    BY CountersAreNumbers DEF AccountsInv, QueueSizeIsExact, Due
  <2>2. Parallelism * MaxRetries \in Nat
    BY Numbers
  <2>. QED BY <2>1, <2>2, CountersAreNumbers DEF QueueCapacity
<1>. QED BY <1>1, Typing, Accounts, PTL

---------------------------------------------------------------------------
(* Every file is processed once, if no earlier session has recorded a      *)
(* failure.                                                                *)

\* The files that the entries of a channel name, and that none is named twice.
FilesIn(s) == {s[i].file : i \in DOMAIN s}
Distinct(s) == \A i, j \in DOMAIN s : s[i].file = s[j].file => i = j

Holds(w) == pc[w] \in BusyPCs \cup {"send"}

\* A file is in one place at a time.
EachFileOnce ==
    /\ Distinct(queue) /\ Distinct(results)
    /\ FilesIn(queue) \cap FilesIn(results) = {}
    /\ \A w \in Workers : Holds(w) =>
          hold[w].file \notin FilesIn(queue) \cup FilesIn(results)
    /\ \A v, w \in Workers :
          Holds(v) /\ Holds(w) /\ hold[v].file = hold[w].file => v = w

Unprocessed == {f \in Files : ledger[f] = "none"}

\* What is under way has no entry in the ledger.
UnderWayIsOpen ==
    /\ FilesIn(queue) \cup FilesIn(results) \subseteq Unprocessed
    /\ \A w \in Workers : Holds(w) => hold[w].file \in Unprocessed

OnceInv == EachFileOnce /\ UnderWayIsOpen

\* What an earlier session may have left: files that it completed, and others.
\* A failed prefix would be queued twice.
Settled(l, c) ==
    \A f \in Files : l[f] # "Failed" /\ (OrderOf[f] \in c => l[f] = "Completed")

\* Appending to a channel, and taking from it.
LEMMA AppendedFiles ==
    ASSUME NEW S, NEW s \in Seq(S), NEW e \in S
    PROVE  /\ FilesIn(Append(s, e)) = FilesIn(s) \cup {e.file}
           /\ Distinct(s) /\ e.file \notin FilesIn(s) => Distinct(Append(s, e))
<1>. DEFINE r == Append(s, e)
<1>1. /\ DOMAIN s = 1 .. Len(s) /\ Len(s) \in Nat /\ DOMAIN r = 1 .. Len(s) + 1
      /\ \A i \in DOMAIN r : r[i] = IF i = Len(s) + 1 THEN e ELSE s[i]
  BY LenProperties
<1>. HIDE DEF r
<1>2. \A i \in DOMAIN r : i \in DOMAIN s \/ i = Len(s) + 1
  BY <1>1
<1>3. \A i \in DOMAIN s : i \in DOMAIN r /\ i # Len(s) + 1
  BY <1>1
<1>4. Len(s) + 1 \in DOMAIN r
  BY <1>1
<1>5. FilesIn(r) = FilesIn(s) \cup {e.file}
  BY <1>1, <1>2, <1>3, <1>4 DEF FilesIn
<1>6. Distinct(s) /\ e.file \notin FilesIn(s) => Distinct(r)
  BY <1>1, <1>2, <1>3 DEF Distinct, FilesIn
<1>. QED BY <1>5, <1>6 DEF r

LEMMA TailFiles ==
    ASSUME NEW S, NEW s \in Seq(S), s # <<>>, Distinct(s)
    PROVE  /\ Distinct(Tail(s)) /\ FilesIn(Tail(s)) \subseteq FilesIn(s)
           /\ Head(s).file \in FilesIn(s) /\ Head(s).file \notin FilesIn(Tail(s))
<1>. DEFINE r == Tail(s)
<1>1. /\ DOMAIN s = 1 .. Len(s) /\ Len(s) \in Nat \ {0} /\ Head(s) = s[1]
      /\ DOMAIN r = 1 .. Len(s) - 1 /\ \A i \in DOMAIN r : r[i] = s[i + 1]
  <2>1. Len(s) \in Nat /\ Len(s) # 0 /\ DOMAIN s = 1 .. Len(s)
    BY EmptySeq, LenProperties
  <2>2. r \in Seq(S) /\ Len(r) = Len(s) - 1 /\ \A i \in 1 .. Len(r) : r[i] = s[i + 1]
    BY HeadTailProperties
  <2>3. DOMAIN r = 1 .. Len(r)
    BY <2>2, LenProperties
  <2>. QED BY <2>1, <2>2, <2>3
<1>. HIDE DEF r
<1>2. \A i \in DOMAIN r : i + 1 \in DOMAIN s /\ i + 1 # 1
  BY <1>1
<1>3. \A i, j \in DOMAIN r : i + 1 = j + 1 => i = j
  BY <1>1
<1>4. 1 \in DOMAIN s
  BY <1>1
<1>5. Distinct(r) /\ FilesIn(r) \subseteq FilesIn(s)
  BY <1>1, <1>2, <1>3 DEF Distinct, FilesIn
<1>6. Head(s).file \in FilesIn(s) /\ Head(s).file \notin FilesIn(r)
  BY <1>1, <1>2, <1>4 DEF Distinct, FilesIn
<1>. QED BY <1>5, <1>6 DEF r

\* The plan queues each file once.
LEMMA PlannedOnce ==
    ASSUME \A f \in Files : ledger[f] # "Failed", NEW q \in Fillings
    PROVE  Distinct(q) /\ \A f \in FilesIn(q) : f \in Files /\ Needs(f)
<1>1. JobCount \in Nat
  BY CountsAreNat DEF JobCount
<1>2. /\ q \in [1 .. JobCount -> [file : Files, attempt : {0}, wait : {FALSE}]]
      /\ \A f \in Files : Cardinality({i \in DOMAIN q : q[i].file = f}) = TimesQueued(f)
  BY DEF Fillings
<1>3. DOMAIN q = 1 .. JobCount /\ IsFiniteSet(DOMAIN q)
      /\ \A i \in DOMAIN q : q[i].file \in Files
  <2>1. DOMAIN q = 1 .. JobCount /\ \A i \in DOMAIN q : q[i].file \in Files
    BY <1>2
  <2>. QED BY <1>1, <2>1, FS_Interval
<1>4. ASSUME NEW i \in DOMAIN q
      PROVE  /\ Needs(q[i].file)
             /\ \A j \in DOMAIN q : q[j].file = q[i].file => j = i
  <2>. DEFINE f == q[i].file
              S == {j \in DOMAIN q : q[j].file = f}
  <2>1. f \in Files /\ i \in S /\ IsFiniteSet(S)
    BY <1>3, FS_Subset
  <2>2. Cardinality(S) = IF Needs(f) THEN 1 ELSE 0
    BY <1>2, <2>1 DEF TimesQueued
  <2>. HIDE DEF S
  <2>3. Cardinality(S) # 0
    BY <2>1, FS_EmptySet
  <2>4. \E x : S = {x}
    BY <2>1, <2>2, <2>3, FS_Singleton
  <2>. QED BY <2>1, <2>2, <2>3, <2>4 DEF S
<1>. QED BY <1>3, <1>4 DEF Distinct, FilesIn

\* A step after which no more is under way than before.
LEMMA OnceShrinks ==
    ASSUME OnceInv, Distinct(queue'), Distinct(results'),
           FilesIn(queue') \subseteq FilesIn(queue),
           FilesIn(results') \subseteq FilesIn(results),
           \A w \in Workers : Holds(w)' => Holds(w) /\ hold'[w].file = hold[w].file,
           \A f \in FilesIn(queue') \cup FilesIn(results') : f \in Unprocessed',
           \A w \in Workers : Holds(w)' => hold[w].file \in Unprocessed'
    PROVE  OnceInv'
<1>1. EachFileOnce'
  BY DEF OnceInv, EachFileOnce
<1>2. UnderWayIsOpen'
  BY DEF OnceInv, UnderWayIsOpen
<1>. QED BY <1>1, <1>2 DEF OnceInv

\* The steps of a worker.
LEMMA WorkersKeepOnce ==
    ASSUME TypeOK, OnceInv, NEW w \in Workers, WorkerNext(w)
    PROVE  OnceInv' /\ ledger' = ledger
<1>1. /\ ledger' = ledger /\ Unprocessed' = Unprocessed
      /\ \A v \in Workers \ {w} : pc'[v] = pc[v] /\ hold'[v] = hold[v]
  <2>1. ledger' = ledger
    BY DEF WorkerNext, Progress, StopWorker, TakeJob, DeferWaiting, DeferSyncing,
       AcceptJob, BeginJob, WritePart, FinishFile, SendResult, SendExit,
       SendToNobody, AbortWorker, RetryJob, GiveUp, Requeue, Conclude, mainVars, book
  <2>2. \A v \in Workers \ {w} : hold'[v] = hold[v]
    BY DEF WorkerNext, Progress, StopWorker, TakeJob, DeferWaiting, DeferSyncing,
       AcceptJob, BeginJob, WritePart, FinishFile, SendResult, SendExit, Release,
       SendToNobody, AbortWorker, RetryJob, GiveUp, Requeue, Conclude, TypeOK
  <2>. QED BY <2>1, <2>2, WorkerMoves DEF Unprocessed
<1>2. \A v \in Workers \ {w} : Holds(v)' <=> Holds(v)
  BY <1>1 DEF Holds
<1>3. /\ queue \in Seq(Jobs) /\ results \in Seq(Results)
      /\ pc[w] \in BusyPCs => hold[w] \in Jobs
      /\ pc[w] = "send" => hold[w] \in Results
  BY DEF TypeOK, BusyPCs
<1>4. CASE \/ StopWorker(w) \/ AcceptJob(w) \/ BeginJob(w) \/ WritePart(w)
           \/ FinishFile(w) \/ GiveUp(w) \/ SendExit(w) \/ SendToNobody(w)
           \/ AbortWorker(w)
  <2>1. UNCHANGED <<queue, results>>
    BY <1>4 DEF StopWorker, AcceptJob, BeginJob, WritePart, FinishFile, GiveUp, Conclude,
       SendExit, SendToNobody, AbortWorker, work
  <2>2. Holds(w)' => Holds(w) /\ hold'[w].file = hold[w].file
    BY <1>4 DEF StopWorker, AcceptJob, BeginJob, WritePart, FinishFile, GiveUp, Conclude,
       SendExit, SendToNobody, AbortWorker, Goto, Holds, BusyPCs, TypeOK
  <2>3. \A v \in Workers : Holds(v)' => Holds(v) /\ hold'[v].file = hold[v].file
    BY <1>1, <1>2, <2>2
  <2>. QED BY <1>1, <2>1, <2>3, OnceShrinks DEF OnceInv, EachFileOnce, UnderWayIsOpen
<1>5. CASE TakeJob(w)
  <2>1. /\ results' = results /\ queue # <<>> /\ queue' = Tail(queue)
        /\ ~ Holds(w) /\ hold'[w] = Head(queue)
    BY <1>5 DEF TakeJob, Goto, Holds, BusyPCs, TypeOK
  <2>2. /\ Distinct(queue') /\ FilesIn(queue') \subseteq FilesIn(queue)
        /\ hold'[w].file \in FilesIn(queue) /\ hold'[w].file \notin FilesIn(queue')
    BY <1>3, <2>1, TailFiles DEF OnceInv, EachFileOnce
  <2>3. EachFileOnce'
    BY <1>1, <1>2, <2>1, <2>2 DEF OnceInv, EachFileOnce
  <2>4. UnderWayIsOpen'
    BY <1>1, <1>2, <2>1, <2>2 DEF OnceInv, UnderWayIsOpen
  <2>. QED BY <1>1, <2>3, <2>4 DEF OnceInv
<1>6. CASE DeferWaiting(w) \/ DeferSyncing(w) \/ RetryJob(w)
  <2>1. PICK job \in Jobs :
           /\ job.file = hold[w].file /\ queue' = Append(queue, job)
           /\ results' = results /\ Holds(w) /\ ~ Holds(w)'
    <3>1. pc[w] \in BusyPCs /\ results' = results /\ Holds(w) /\ ~ Holds(w)'
      BY <1>6 DEF DeferWaiting, DeferSyncing, RetryJob, Requeue, Goto, Holds, BusyPCs,
         TypeOK
    <3>2. hold[w] \in Jobs
      BY <1>3, <3>1
    <3>3. \A j \in Jobs : Waiting(j) \in Jobs /\ Waiting(j).file = j.file
      BY DEF Waiting, Jobs
    <3>4. CASE RetryJob(w)
      <4>. DEFINE j == [hold[w] EXCEPT !.attempt = @ + 1]
      <4>1. hold[w].attempt < MaxRetries /\ queue' = Append(queue, Waiting(j))
        BY <3>4 DEF RetryJob, Requeue
      <4>2. j \in Jobs /\ j.file = hold[w].file
        BY <3>2, <4>1, Numbers DEF Jobs
      <4>. HIDE DEF j
      <4>. QED BY <3>1, <3>3, <4>1, <4>2
    <3>5. CASE DeferWaiting(w)
      BY <3>1, <3>2, <3>5 DEF DeferWaiting, Requeue
    <3>6. CASE DeferSyncing(w)
      BY <3>1, <3>2, <3>3, <3>6 DEF DeferSyncing, Requeue
    <3>. QED BY <1>6, <3>4, <3>5, <3>6
  <2>2. hold[w].file \notin FilesIn(queue) \cup FilesIn(results)
    BY <2>1 DEF OnceInv, EachFileOnce
  <2>3. /\ Distinct(queue') /\ FilesIn(queue') = FilesIn(queue) \cup {hold[w].file}
    BY <1>3, <2>1, <2>2, AppendedFiles DEF OnceInv, EachFileOnce
  <2>4. EachFileOnce'
    BY <1>1, <1>2, <2>1, <2>2, <2>3 DEF OnceInv, EachFileOnce
  <2>5. UnderWayIsOpen'
    BY <1>1, <1>2, <2>1, <2>3 DEF OnceInv, UnderWayIsOpen
  <2>. QED BY <1>1, <2>4, <2>5 DEF OnceInv
<1>7. CASE SendResult(w)
  <2>1. /\ results' = Append(results, hold[w]) /\ queue' = queue
        /\ pc[w] = "send" /\ Holds(w) /\ ~ Holds(w)'
    BY <1>7 DEF SendResult, Goto, Holds, BusyPCs, TypeOK, work
  <2>2. hold[w] \in Results /\ hold[w].file \notin FilesIn(queue) \cup FilesIn(results)
    BY <1>3, <2>1 DEF OnceInv, EachFileOnce
  <2>3. /\ Distinct(results') /\ FilesIn(results') = FilesIn(results) \cup {hold[w].file}
    BY <1>3, <2>1, <2>2, AppendedFiles DEF OnceInv, EachFileOnce
  <2>4. EachFileOnce'
    BY <1>1, <1>2, <2>1, <2>2, <2>3 DEF OnceInv, EachFileOnce
  <2>5. UnderWayIsOpen'
    BY <1>1, <1>2, <2>1, <2>3 DEF OnceInv, UnderWayIsOpen
  <2>. QED BY <1>1, <2>4, <2>5 DEF OnceInv
<1>. QED BY <1>4, <1>5, <1>6, <1>7 DEF WorkerNext, Progress

\* While the loop runs, what is pending is what was received and the rest; when
\* it has ended by itself, there is no rest.
InLoopOfMain ==
    mpc \in {"head", "select"} \/ (mpc \in {"sync", "write"} /\ why \in {"failure", "periodic"})

LoopHasEnded ==
    (mpc = "join" /\ ending = "running") \/ why = "final" \/ ending \in {"ok", "nothing"}

Tallied ==
    /\ mpc = "plan" => Settled(ledger, closed)
    /\ InLoopOfMain => pending = received + Cardinality(Unprocessed)
    /\ LoopHasEnded => Unprocessed = {}

ProcessedInv == OnceInv /\ Tallied

LEMMA UnprocessedIsFinite ==
    /\ IsFiniteSet(Unprocessed) /\ Cardinality(Unprocessed) \in Nat
    /\ Cardinality(Unprocessed) = 0 => Unprocessed = {}
BY FilesAssumption, FS_Subset, FS_CardinalityType, FS_EmptySet DEF Unprocessed

\* The steps of the main task that give a file its entry.
LEMMA RecordingProcesses ==
    ASSUME TypeOK, ProcessedInv, RecordFailure \/ RecordSuccess
    PROVE  /\ ProcessedInv'
           /\ Head(results).file \in Unprocessed
           /\ Unprocessed' = Unprocessed \ {Head(results).file}
           /\ done' = [done EXCEPT ![OrderOf[Head(results).file]] = @ + 1]
           /\ UNCHANGED pendingOf
           /\ mpc # "plan" /\ mpc' # "plan"
<1>. PICK f \in Files : f = Head(results).file
  <2>1. results # <<>>
    BY DEF RecordFailure, RecordSuccess, TakeResult
  <2>. QED BY <2>1, ChannelTypes DEF Results
<1>1. /\ results # <<>> /\ results' = Tail(results) /\ received' = received + 1
      /\ UNCHANGED <<queue, pc, hold, pending, ending, pendingOf>> /\ mpc = "select"
      /\ ledger' = [ledger EXCEPT ![f] = "Failed"]
            \/ ledger' = [ledger EXCEPT ![f] = "Completed"]
      /\ \/ mpc' = "sync" /\ why' \in {"failure", "periodic"}
         \/ mpc' = "head" /\ why' = why
      /\ done' = [done EXCEPT ![OrderOf[f]] = @ + 1]
  BY DEF RecordFailure, RecordSuccess, TakeResult, SaveFor, plan, work, place
<1>2. /\ Distinct(results') /\ FilesIn(results') \subseteq FilesIn(results)
      /\ f \in FilesIn(results) /\ f \notin FilesIn(results')
  <2>1. results \in Seq(Results) /\ Distinct(results)
    BY DEF TypeOK, ProcessedInv, OnceInv, EachFileOnce
  <2>. QED BY <1>1, <2>1, TailFiles
<1>3. f \in Unprocessed
  BY <1>2 DEF ProcessedInv, OnceInv, UnderWayIsOpen
<1>4. Unprocessed' = Unprocessed \ {f}
  BY <1>1 DEF Unprocessed, TypeOK, Ledgers
<1>5. OnceInv'
  <2>1. \A w \in Workers : Holds(w)' => Holds(w) /\ hold'[w].file = hold[w].file
    BY <1>1 DEF Holds
  <2>2. \A g \in FilesIn(queue') \cup FilesIn(results') : g \in Unprocessed'
    BY <1>1, <1>2, <1>4 DEF ProcessedInv, OnceInv, EachFileOnce, UnderWayIsOpen
  <2>3. \A w \in Workers : Holds(w)' => hold[w].file \in Unprocessed'
    BY <1>2, <1>4, <2>1 DEF ProcessedInv, OnceInv, EachFileOnce, UnderWayIsOpen
  <2>4. Distinct(queue') /\ FilesIn(queue') \subseteq FilesIn(queue)
    BY <1>1 DEF ProcessedInv, OnceInv, EachFileOnce
  <2>. QED BY <1>2, <2>1, <2>2, <2>3, <2>4, OnceShrinks DEF ProcessedInv
<1>6. Cardinality(Unprocessed') = Cardinality(Unprocessed) - 1
  BY <1>3, <1>4, UnprocessedIsFinite, FS_RemoveElement
<1>7. Tallied'
  <2>1. received \in Nat /\ Cardinality(Unprocessed) \in Nat
    BY UnprocessedIsFinite DEF TypeOK
  <2>2. pending = received + Cardinality(Unprocessed)
    BY <1>1 DEF ProcessedInv, Tallied, InLoopOfMain
  <2>3. pending' = received' + Cardinality(Unprocessed')
    BY <1>1, <1>6, <2>1, <2>2
  <2>4. LoopHasEnded' => LoopHasEnded
    BY <1>1 DEF LoopHasEnded
  <2>5. LoopHasEnded' => Unprocessed' = {}
    BY <1>4, <2>4 DEF ProcessedInv, Tallied
  <2>. QED BY <1>1, <2>3, <2>5 DEF Tallied
<1>. QED BY <1>1, <1>3, <1>4, <1>5, <1>7 DEF ProcessedInv

\* The plan.
LEMMA PlanIsTallied ==
    ASSUME TypeOK, AccountsInv, ProcessedInv, PlanWork \/ PlanNothing
    PROVE  ProcessedInv' /\ ledger' = ledger /\ Unprocessed' = {f \in Files : Needs(f)}
<1>1. mpc = "plan" /\ \A f \in Files : ledger[f] # "Failed"
      /\ (OrderOf[f] \in closed => ledger[f] = "Completed")
  BY DEF ProcessedInv, Tallied, Settled, PlanWork, PlanNothing
<1>2. ledger' = ledger
  BY <1>1 DEF PlanWork, PlanNothing, TypeOK, Ledgers
<1>3. Unprocessed' = {f \in Files : Needs(f)}
  BY <1>1, <1>2 DEF Unprocessed, Needs, TypeOK, Ledgers, PrefixStates
<1>4. /\ results = <<>> /\ queue = <<>> /\ received = 0 /\ results' = results
      /\ \A w \in Workers : ~ Holds(w)'
  BY <1>1 DEF AccountsInv, PlanWork, PlanNothing, SpawnFirst, Holds, BusyPCs, place
<1>5. Distinct(results') /\ FilesIn(results') = {}
  <2>1. DOMAIN results' = {}
    BY <1>4
  <2>. QED BY <2>1 DEF Distinct, FilesIn
<1>6. Distinct(queue') /\ FilesIn(queue') \subseteq {f \in Files : Needs(f)}
  <2>1. CASE PlanWork
    BY <1>1, <2>1, PlannedOnce DEF PlanWork
  <2>2. CASE PlanNothing
    <3>1. DOMAIN queue' = {}
      BY <1>4, <2>2 DEF PlanNothing, work
    <3>. QED BY <3>1 DEF Distinct, FilesIn
  <2>. QED BY <2>1, <2>2
<1>7. OnceInv'
  BY <1>3, <1>4, <1>5, <1>6 DEF OnceInv, EachFileOnce, UnderWayIsOpen
<1>8. Tallied'
  <2>1. CASE PlanWork
    <3>1. /\ mpc' = "head" /\ pending' = Cardinality(Unprocessed') /\ received' = 0
          /\ UNCHANGED <<why, ending>>
      BY <1>3, <1>4, <2>1 DEF PlanWork, CountPending
    <3>2. LoopHasEnded' => LoopHasEnded /\ Unprocessed = Unprocessed'
      BY <1>1, <1>2, <3>1 DEF LoopHasEnded, Unprocessed
    <3>3. Cardinality(Unprocessed') = 0 + Cardinality(Unprocessed')
      BY <1>3, CountsAreNat
    <3>. QED BY <3>1, <3>2, <3>3 DEF Tallied, ProcessedInv
  <2>2. CASE PlanNothing
    <3>1. Unprocessed' = {} /\ mpc' = "done"
      BY <1>3, <2>2 DEF PlanNothing
    <3>. QED BY <3>1 DEF Tallied, InLoopOfMain
  <2>. QED BY <2>1, <2>2
<1>. QED BY <1>2, <1>3, <1>7, <1>8 DEF ProcessedInv

\* The steps that leave the ledger alone, and at most take results away.
LEMMA QuietKeepsOnce ==
    ASSUME OnceInv, ledger' = ledger, queue' = queue,
           Distinct(results'), FilesIn(results') \subseteq FilesIn(results),
           \A w \in Workers : Holds(w)' => Holds(w) /\ hold'[w].file = hold[w].file
    PROVE  OnceInv' /\ Unprocessed' = Unprocessed
<1>1. Unprocessed' = Unprocessed
  BY DEF Unprocessed
<1>. QED BY <1>1, OnceShrinks DEF OnceInv, EachFileOnce, UnderWayIsOpen

LEMMA MainKeepsProcessed ==
    ASSUME TypeOK, CrewIsKnown, ProcessedInv, MainNext, ~ PlanWork, ~ PlanNothing,
           ~ RecordFailure, ~ RecordSuccess
    PROVE  ProcessedInv' /\ UNCHANGED <<ledger, done, pendingOf, Unprocessed>>
           /\ closed' = closed /\ mpc # "plan" /\ mpc' # "plan"
<1>1. /\ UNCHANGED <<ledger, closed, queue, pending, hold, done, pendingOf>>
      /\ mpc # "plan" /\ mpc' # "plan"
  BY DEF MainNext, LoopEnds, AllWorkersGone, ForceQuits, Cancels, Waits, InLoop,
     WorkerExits, ForgetWorker, ParallelismChanges, DrainForced, DrainExit, DrainResult,
     Drained, EnterCleanup, SaveFor, SyncShards, WriteLedger, SaveFails, AfterSave,
     Joined, book, plan, tally, work, place, phase
<1>2. \A w \in Workers : Holds(w)' => Holds(w) /\ hold'[w].file = hold[w].file
  <2>1. CASE ParallelismChanges
    <3>1. CASE Grow(Head(resize))
      BY <1>1, <3>1 DEF Grow, Holds, BusyPCs
    <3>2. CASE Shrink(Head(resize))
      BY <1>1, <3>2 DEF Shrink, Holds
    <3>. QED BY <2>1, <3>1, <3>2 DEF ParallelismChanges
  <2>2. CASE ~ ParallelismChanges
    <3>1. pc' = pc
      BY <2>2 DEF MainNext, LoopEnds, AllWorkersGone, ForceQuits, Cancels, Waits,
         WorkerExits, DrainForced, DrainExit, DrainResult, Drained, SyncShards,
         WriteLedger, SaveFails, Joined, place
    <3>. QED BY <1>1, <3>1 DEF Holds
  <2>. QED BY <2>1, <2>2
<1>3. Distinct(results') /\ FilesIn(results') \subseteq FilesIn(results)
  <2>1. Distinct(results) /\ results \in Seq(Results)
    BY DEF TypeOK, ProcessedInv, OnceInv, EachFileOnce
  <2>2. CASE DrainResult
    BY <2>1, <2>2, TailFiles DEF DrainResult
  <2>3. CASE Drained
    <3>1. DOMAIN results' = {}
      BY <2>3 DEF Drained
    <3>. QED BY <3>1 DEF Distinct, FilesIn
  <2>4. CASE ~ DrainResult /\ ~ Drained
    <3>1. results' = results
      BY <2>4 DEF MainNext, LoopEnds, AllWorkersGone, ForceQuits, Cancels, Waits,
         WorkerExits, ParallelismChanges, DrainForced, DrainExit, SyncShards,
         WriteLedger, SaveFails, Joined
    <3>. QED BY <2>1, <3>1
  <2>. QED BY <2>2, <2>3, <2>4
<1>4. OnceInv' /\ Unprocessed' = Unprocessed
  BY <1>1, <1>2, <1>3, QuietKeepsOnce DEF ProcessedInv
<1>5. InLoopOfMain' => InLoopOfMain /\ received' = received
  BY DEF MainNext, LoopEnds, AllWorkersGone, ForceQuits, Cancels, Waits, InLoop,
     WorkerExits, ForgetWorker, ParallelismChanges, DrainForced, DrainExit, DrainResult,
     Drained, EnterCleanup, SaveFor, SyncShards, WriteLedger, SaveFails, AfterSave,
     Joined, InLoopOfMain, phase, tally
<1>6. LoopHasEnded' => LoopHasEnded \/ (mpc = "head" /\ received >= pending)
  BY DEF MainNext, LoopEnds, AllWorkersGone, ForceQuits, Cancels, Waits, InLoop,
     WorkerExits, ForgetWorker, ParallelismChanges, DrainForced, DrainExit, DrainResult,
     Drained, EnterCleanup, SaveFor, SyncShards, WriteLedger, SaveFails, AfterSave,
     Joined, LoopHasEnded, phase, tally
<1>7. mpc = "head" /\ received >= pending => Unprocessed = {}
  BY UnprocessedIsFinite DEF TypeOK, ProcessedInv, Tallied, InLoopOfMain
<1>8. Tallied'
  BY <1>1, <1>4, <1>5, <1>6, <1>7 DEF Tallied, ProcessedInv
<1>. QED BY <1>1, <1>4, <1>8 DEF ProcessedInv

\* The clock, the commands and the workers.
LEMMA OthersKeepProcessed ==
    ASSUME TypeOK, ProcessedInv,
           \/ \E w \in Workers : WorkerNext(w)
           \/ BackoffElapses \/ CommandNext \/ UNCHANGED vars
    PROVE  ProcessedInv' /\ UNCHANGED <<ledger, closed, done, pendingOf, Unprocessed, mpc>>
<1>1. UNCHANGED <<ledger, closed, done, pendingOf, mpc, why, ending, pending, received>>
  BY DEF WorkerNext, Progress, StopWorker, TakeJob, DeferWaiting, DeferSyncing,
     AcceptJob, BeginJob, WritePart, FinishFile, SendResult, SendExit, SendToNobody,
     AbortWorker, RetryJob, GiveUp, Requeue, Conclude, mainVars, book, phase, plan, tally,
     BackoffElapses, CommandNext, Pause, Resume, Cancel, ForceQuit, SetParallelism,
     NotInControl, vars
<1>2. Unprocessed' = Unprocessed
  BY <1>1 DEF Unprocessed
<1>3. OnceInv'
  <2>1. CASE \E w \in Workers : WorkerNext(w)
    BY <2>1, WorkersKeepOnce DEF ProcessedInv
  <2>2. CASE CommandNext \/ UNCHANGED vars
    <3>1. UNCHANGED <<queue, results, pc, hold>>
      BY <2>2 DEF CommandNext, Pause, Resume, Cancel, ForceQuit, SetParallelism,
         NotInControl, vars, work, place
    <3>. QED BY <1>1, <3>1, QuietKeepsOnce DEF ProcessedInv, OnceInv, EachFileOnce, Holds
  <2>3. CASE BackoffElapses
    <3>1. UNCHANGED <<results, pc>>
      BY <2>3 DEF BackoffElapses
    <3>2. \A w \in Workers : Holds(w)' => Holds(w) /\ hold'[w].file = hold[w].file
      <4>1. CASE UNCHANGED hold
        BY <3>1, <4>1 DEF Holds
      <4>2. ASSUME NEW v \in Workers, pc[v] = "got",
                   hold' = [hold EXCEPT ![v].wait = FALSE]
            PROVE  \A w \in Workers : hold'[w].file = hold[w].file
        <5>1. hold[v] \in Jobs
          BY <4>2 DEF TypeOK
        <5>2. hold'[v] = [hold[v] EXCEPT !.wait = FALSE]
              /\ \A w \in Workers \ {v} : hold'[w] = hold[w]
          BY <4>2 DEF TypeOK
        <5>3. hold'[v].file = hold[v].file
          BY <5>1, <5>2 DEF Jobs
        <5>. QED BY <5>2, <5>3
      <4>. QED BY <2>3, <3>1, <4>1, <4>2 DEF BackoffElapses, Holds
    <3>3. DOMAIN queue' = DOMAIN queue /\ \A i \in DOMAIN queue : queue'[i].file = queue[i].file
      <4>1. \A i \in DOMAIN queue : queue[i] \in Jobs
        BY ElementOfSeq, LenProperties DEF TypeOK
      <4>. QED BY <2>3, <4>1 DEF BackoffElapses, Jobs
    <3>4. FilesIn(queue') = FilesIn(queue) /\ Distinct(queue')
      BY <3>3 DEF FilesIn, Distinct, ProcessedInv, OnceInv, EachFileOnce
    <3>. QED BY <1>2, <3>1, <3>2, <3>4, OnceShrinks
             DEF ProcessedInv, OnceInv, EachFileOnce, UnderWayIsOpen
  <2>. QED BY <2>1, <2>2, <2>3
<1>4. Tallied'
  BY <1>1, <1>2 DEF ProcessedInv, Tallied, InLoopOfMain, LoopHasEnded
<1>. QED BY <1>1, <1>2, <1>3, <1>4 DEF ProcessedInv

LEMMA ProcessedStep ==
    TypeOK /\ CrewIsKnown /\ AccountsInv /\ ProcessedInv /\ [Next]_vars => ProcessedInv'
BY PlanIsTallied, RecordingProcesses, MainKeepsProcessed, OthersKeepProcessed
   DEF Next, Returned, MainNext

LEMMA InitProcessed ==
    ASSUME \A h \in Histories : Settled(h.ledger, h.closed), Init
    PROVE  ProcessedInv
<1>1. queue = <<>> /\ results = <<>> /\ \A w \in Workers : ~ Holds(w)
  BY DEF Init, Holds, BusyPCs
<1>2. /\ Distinct(queue) /\ Distinct(results)
      /\ FilesIn(queue) = {} /\ FilesIn(results) = {}
  <2>1. DOMAIN queue = {} /\ DOMAIN results = {}
    BY <1>1
  <2>. QED BY <2>1 DEF Distinct, FilesIn
<1>3. OnceInv
  BY <1>1, <1>2 DEF OnceInv, EachFileOnce, UnderWayIsOpen
<1>4. Tallied
  BY DEF Init, Tallied, InLoopOfMain, LoopHasEnded
<1>. QED BY <1>3, <1>4 DEF ProcessedInv

LEMMA Processing ==
    ASSUME \A h \in Histories : Settled(h.ledger, h.closed)
    PROVE  Spec => [](TypeOK /\ QuietInv /\ AccountsInv /\ ProcessedInv)
<1>1. Init => QuietInv
  BY FS_EmptySet
  DEF Init, QuietInv, CrewIsKnown, NoticesAreTrue, LastCheckpointIsQuiet, Running
<1>2. QuietInv => CrewIsKnown
  BY DEF QuietInv
<1>3. Init => ProcessedInv
  BY InitProcessed
<1>. QED BY <1>1, <1>2, <1>3, InitTypes, TypeStep, InitAccounts, QuietStep, AccountsStep,
            ProcessedStep, PTL DEF Spec

\* An import that returns its statistics has processed every file, if no earlier
\* session has recorded a failure: such a file is queued twice, and the loop
\* ends when another one has yet to be received.
THEOREM OkMeansDone ==
    ASSUME \A h \in Histories : Settled(h.ledger, h.closed)
    PROVE  Spec => []OkMeansAllProcessed
<1>1. ProcessedInv => OkMeansAllProcessed
  BY DEF ProcessedInv, Tallied, LoopHasEnded, OkMeansAllProcessed, Unprocessed
<1>. QED BY <1>1, Processing, PTL

---------------------------------------------------------------------------
(* A complete order has been processed.                                    *)

\* What is left to do in an order.
LeftIn(o) == FilesOf(o) \cap Unprocessed

\* An order may be resumed when all of it is left to do, or at most one file:
\* otherwise the files completed earlier are counted once too often.
Untouched(l, o)  == \A f \in FilesOf(o) : l[f] = "none"
AlmostDone(l, o) == \A f, g \in FilesOf(o) :
                       l[f] # "Completed" /\ l[g] # "Completed" => f = g

Resumable(h) ==
    /\ Settled(h.ledger, h.closed)
    /\ \A o \in Orders : Untouched(h.ledger, o) \/ AlmostDone(h.ledger, o)

\* The counters of an order are exact, or it has one file to go.
OrdersTallied ==
    \A o \in Orders :
        IF mpc = "plan" THEN Untouched(ledger, o) \/ AlmostDone(ledger, o)
        ELSE \/ done[o] + Cardinality(LeftIn(o)) = pendingOf[o]
             \/ \A f, g \in LeftIn(o) : f = g

OrdersInv == OrdersTallied /\ ClosedIsProcessed

LEMMA LeftIsFinite ==
    ASSUME NEW o \in Orders
    PROVE  /\ IsFiniteSet(LeftIn(o)) /\ Cardinality(LeftIn(o)) \in Nat
           /\ Cardinality(LeftIn(o)) = 0 => LeftIn(o) = {}
BY FilesAssumption, FS_Subset, FS_CardinalityType, FS_EmptySet DEF LeftIn, FilesOf

\* The plan counts what each order has left.
LEMMA PlanKeepsOrders ==
    ASSUME TypeOK, AccountsInv, ProcessedInv, OrdersInv, PlanWork \/ PlanNothing
    PROVE  OrdersInv'
<1>1. /\ mpc = "plan" /\ mpc' # "plan" /\ closed' = ClosedByPlan
      /\ pendingOf' = [o \in Orders |-> Cardinality(PendingIn(o))]
  BY DEF PlanWork, PlanNothing, CountPending
<1>2. ledger' = ledger /\ Unprocessed' = {f \in Files : Needs(f)}
  BY PlanIsTallied
<1>3. \A f \in Files : OrderOf[f] \in Orders
      /\ (OrderOf[f] \in closed => ledger[f] = "Completed")
  BY <1>1, FilesAssumption DEF ProcessedInv, Tallied, Settled
<1>4. \A o \in Orders : LeftIn(o)' = PendingIn(o)
  BY <1>2 DEF LeftIn, PendingIn, FilesOf
<1>5. ASSUME NEW o \in Orders
      PROVE  \/ done'[o] + Cardinality(LeftIn(o)') = pendingOf'[o]
             \/ \A f, g \in LeftIn(o)' : f = g
  <2>1. CASE PendingIn(o) = {}
    BY <1>4, <2>1
  <2>2. CASE PendingIn(o) # {} /\ Untouched(ledger, o)
    <3>1. PendingIn(o) = FilesOf(o)
      BY <1>3, <2>2 DEF PendingIn, Untouched, FilesOf, Needs
    <3>2. PlanWork
      BY <2>2 DEF PlanNothing, PendingIn, FilesOf
    <3>3. done'[o] = Cardinality(FilesOf(o)) - Cardinality(FilesOf(o))
      BY <2>2, <3>1, <3>2 DEF PlanWork
    <3>4. Cardinality(FilesOf(o)) \in Nat
      BY FilesAssumption, FS_Subset, FS_CardinalityType DEF FilesOf
    <3>. QED BY <1>1, <1>4, <3>1, <3>3, <3>4
  <2>3. CASE AlmostDone(ledger, o)
    BY <1>4, <2>3 DEF PendingIn, Needs, AlmostDone
  <2>. QED BY <1>1, <2>1, <2>2, <2>3 DEF OrdersInv, OrdersTallied
<1>6. ClosedIsProcessed'
  <2>. SUFFICES ASSUME NEW f \in Files, OrderOf[f] \in ClosedByPlan
                PROVE  ledger[f] # "none"
    BY <1>1, <1>2 DEF ClosedIsProcessed
  <2>. QED BY <1>3 DEF ClosedByPlan, PendingIn, FilesOf, Needs
<1>. QED BY <1>1, <1>5, <1>6 DEF OrdersInv, OrdersTallied

\* A file that gets its entry leaves what its order has left.
LEMMA RecordingKeepsOrders ==
    ASSUME TypeOK, ProcessedInv, OrdersInv, RecordFailure \/ RecordSuccess
    PROVE  OrdersInv'
<1>. PICK f \in Files, c \in Orders : f = Head(results).file /\ c = OrderOf[f]
  <2>1. results # <<>>
    BY DEF RecordFailure, RecordSuccess, TakeResult
  <2>. QED BY <2>1, ChannelTypes, FilesAssumption DEF Results
<1>1. /\ f \in Unprocessed /\ Unprocessed' = Unprocessed \ {f}
      /\ done' = [done EXCEPT ![c] = @ + 1] /\ pendingOf' = pendingOf
      /\ mpc # "plan" /\ mpc' # "plan"
  BY RecordingProcesses
<1>2. closed' = closed \/ (closed' = closed \cup {c} /\ done'[c] >= pendingOf[c])
  BY DEF RecordFailure, RecordSuccess, OrderIsComplete
<1>3. /\ f \in LeftIn(c) /\ LeftIn(c)' = LeftIn(c) \ {f}
      /\ \A o \in Orders \ {c} : LeftIn(o)' = LeftIn(o)
  BY <1>1 DEF LeftIn, FilesOf
<1>4. /\ Cardinality(LeftIn(c)') = Cardinality(LeftIn(c)) - 1
      /\ Cardinality(LeftIn(c)) \in Nat
      /\ Cardinality(LeftIn(c)') = 0 => LeftIn(c)' = {}
  <2>. PICK L : L = LeftIn(c)
    OBVIOUS
  <2>1. IsFiniteSet(L) /\ Cardinality(L) \in Nat /\ f \in L /\ LeftIn(c)' = L \ {f}
    BY <1>3, LeftIsFinite
  <2>2. IsFiniteSet(L \ {f}) /\ Cardinality(L \ {f}) = Cardinality(L) - 1
    BY <2>1, FS_RemoveElement
  <2>3. Cardinality(L \ {f}) = 0 => L \ {f} = {}
    BY <2>2, FS_EmptySet
  <2>. QED BY <2>1, <2>2, <2>3
<1>5. /\ done'[c] = done[c] + 1 /\ done[c] \in Nat /\ pendingOf[c] \in Nat
      /\ \A o \in Orders \ {c} : done'[o] = done[o]
  BY <1>1 DEF TypeOK
<1>6. \/ done'[c] + Cardinality(LeftIn(c)') = pendingOf[c]
      \/ LeftIn(c)' = {}
  <2>1. CASE done[c] + Cardinality(LeftIn(c)) = pendingOf[c]
    BY <1>4, <1>5, <2>1
  <2>2. CASE \A g, h \in LeftIn(c) : g = h
    BY <1>3, <2>2
  <2>. QED BY <1>1, <2>1, <2>2 DEF OrdersInv, OrdersTallied
<1>7. OrdersTallied'
  <2>. SUFFICES ASSUME NEW o \in Orders
                PROVE  \/ done'[o] + Cardinality(LeftIn(o)') = pendingOf'[o]
                       \/ \A g, h \in LeftIn(o)' : g = h
    BY <1>1 DEF OrdersTallied
  <2>1. CASE o = c
    BY <1>1, <1>6, <2>1
  <2>2. CASE o # c
    BY <1>1, <1>3, <1>5, <2>2 DEF OrdersInv, OrdersTallied
  <2>. QED BY <2>1, <2>2
<1>8. ClosedIsProcessed'
  <2>. SUFFICES ASSUME NEW g \in Files, OrderOf[g] \in closed' PROVE g \notin Unprocessed'
    BY DEF ClosedIsProcessed, Unprocessed
  <2>1. CASE OrderOf[g] \in closed
    BY <1>1, <2>1 DEF OrdersInv, ClosedIsProcessed, Unprocessed
  <2>2. CASE OrderOf[g] = c /\ done'[c] >= pendingOf[c]
    <3>1. LeftIn(c)' = {}
      <4>1. CASE done'[c] + Cardinality(LeftIn(c)') = pendingOf[c]
        <5>1. Cardinality(LeftIn(c)) # 0
          BY <1>3, LeftIsFinite
        <5>. QED BY <1>4, <1>5, <2>2, <4>1, <5>1
      <4>. QED BY <1>6, <4>1
    <3>. QED BY <2>2, <3>1 DEF LeftIn, FilesOf
  <2>. QED BY <1>2, <2>1, <2>2
<1>. QED BY <1>7, <1>8 DEF OrdersInv

LEMMA OrdersStep ==
    TypeOK /\ CrewIsKnown /\ AccountsInv /\ ProcessedInv /\ OrdersInv /\ [Next]_vars
        => OrdersInv'
<1>. SUFFICES ASSUME TypeOK, CrewIsKnown, AccountsInv, ProcessedInv, OrdersInv,
                     [Next]_vars
              PROVE  OrdersInv'
  OBVIOUS
<1>1. CASE PlanWork \/ PlanNothing
  BY <1>1, PlanKeepsOrders
<1>2. CASE RecordFailure \/ RecordSuccess
  BY <1>2, RecordingKeepsOrders
<1>3. CASE ~ (PlanWork \/ PlanNothing \/ RecordFailure \/ RecordSuccess)
  <2>1. /\ UNCHANGED <<ledger, closed, done, pendingOf, Unprocessed>>
        /\ mpc = "plan" <=> mpc' = "plan"
    BY <1>3, MainKeepsProcessed, OthersKeepProcessed DEF Next, Returned
  <2>. QED BY <2>1 DEF OrdersInv, OrdersTallied, ClosedIsProcessed, LeftIn
<1>. QED BY <1>1, <1>2, <1>3

LEMMA InitOrders ==
    ASSUME \A h \in Histories : Resumable(h), Init
    PROVE  OrdersInv
<1>1. mpc = "plan" /\ \E h \in Histories : ledger = h.ledger /\ closed = h.closed
  BY DEF Init
<1>. QED BY <1>1 DEF OrdersInv, OrdersTallied, ClosedIsProcessed, Resumable, Settled

\* An order that the checkpoint calls complete has no unprocessed file, if
\* every order is resumed from its start or with one file to go: the counter
\* of a half done order starts at what was done, and is compared with the rest.
THEOREM CompleteIsProcessed ==
    ASSUME \A h \in Histories : Resumable(h)
    PROVE  Spec => []ClosedIsProcessed
<1>1. \A h \in Histories : Settled(h.ledger, h.closed)
  BY DEF Resumable
<1>2. Spec => [](TypeOK /\ QuietInv /\ AccountsInv /\ ProcessedInv)
  BY <1>1, Processing
<1>3. Init => OrdersInv
  BY InitOrders
<1>4. QuietInv => CrewIsKnown
  BY DEF QuietInv
<1>5. OrdersInv => ClosedIsProcessed
  BY DEF OrdersInv
<1>. QED BY <1>2, <1>3, <1>4, <1>5, OrdersStep, PTL DEF Spec

---------------------------------------------------------------------------
(* Sessions: the promise about checkpoints survives every crash and every  *)
(* resumption.                                                             *)


\* A new session is well typed.
LEMMA ResumedTypes == TypeOK /\ SessionEnds => TypeOK'
<1>. SUFFICES ASSUME TypeOK, SessionEnds PROVE TypeOK'
  OBVIOUS
<1>1. PICK kept \in SUBSET Files :
          durable' = [f \in Files |-> IF f \in kept THEN content[f] ELSE durable[f]]
  BY DEF SessionEnds
<1>2. durable' \in [Files -> Contents] /\ content' \in [Files -> Contents]
  BY <1>1 DEF SessionEnds, TypeOK
<1>3. /\ ledger' \in Ledgers /\ closed' \subseteq Orders /\ UNCHANGED saved
      /\ stuck' \subseteq Files
  BY DEF SessionEnds, ResumeOrStart, TypeOK
<1>4. /\ queue' \in Seq(Jobs) /\ results' \in Seq(Results)
      /\ exits' \in Seq(Workers) /\ resize' \in Seq(Targets)
  BY DEF SessionEnds, ResumeOrStart
<1>5. /\ pc' \in [Workers -> WorkerPCs] /\ \A w \in Workers : pc'[w] = "unborn"
      /\ hold' \in [Workers -> Jobs \cup Results \cup {Nothing}]
  BY DEF SessionEnds, ResumeOrStart, WorkerPCs
<1>6. nextId' \in 0 .. MaxWorkers /\ target' \in Nat
  BY Numbers DEF SessionEnds, ResumeOrStart
<1>7. mpc' \in MainPCs /\ why' \in SaveReasons /\ ending' \in Endings
  BY DEF SessionEnds, ResumeOrStart, MainPCs, SaveReasons, Endings
<1>8. /\ pendingOf' \in [Orders -> Nat] /\ done' \in [Orders -> Nat]
      /\ pending' \in Nat /\ retries' \in Nat /\ received' \in Nat
      /\ active' \in Nat /\ queueSize' \in Int /\ resizes' \in Nat
  BY DEF SessionEnds, ResumeOrStart
<1>9. /\ handles' \subseteq Workers /\ stopping' \subseteq Workers
      /\ aborted' \subseteq Workers
      /\ paused' \in BOOLEAN /\ cancelled' \in BOOLEAN /\ forced' \in BOOLEAN
  BY DEF SessionEnds, ResumeOrStart
<1>10. saved' \in [ledger : Ledgers, closed : SUBSET Orders]
  BY <1>3 DEF TypeOK
<1>. QED BY <1>2, <1>3, <1>4, <1>5, <1>6, <1>7, <1>8, <1>9, <1>10 DEF TypeOK

\* A new session believes the checkpoint, and the checkpoint was true: what it
\* calls completed is in what the crash has left, whatever else is.
LEMMA ResumedDurability == TypeOK /\ DurabilityInv /\ SessionEnds => DurabilityInv'
<1>. SUFFICES ASSUME TypeOK, DurabilityInv, SessionEnds PROVE DurabilityInv'
  OBVIOUS
<1>1. PICK kept \in SUBSET Files :
          durable' = [f \in Files |-> IF f \in kept THEN content[f] ELSE durable[f]]
  BY DEF SessionEnds
<1>2. \A f \in Files : durable[f] \in Whole => durable'[f] \in Whole
  BY <1>1 DEF DurabilityInv, DurableIsThere
<1>3. /\ content' = durable' /\ ledger' = saved.ledger /\ UNCHANGED saved
      /\ stuck' = {} /\ results' = <<>> /\ mpc' = "plan" /\ pc' = [w \in Workers |-> "unborn"]
  BY DEF SessionEnds, ResumeOrStart
<1>4. SuccessHasReached'
  BY <1>3 DEF SuccessHasReached
<1>. QED BY <1>2, <1>3, <1>4
         DEF DurabilityInv, LedgerIsTrue, Reached, DurableIsThere,
             NothingIsStuck, SyncedBeforeWritten, RecordedIsDurable

\* The end of a session takes nothing off the disk.
LEMMA ResumedPromise ==
    ASSUME DurabilityInv, SessionEnds
    PROVE  [Promise!Next]_<<Stored, Recorded>>
<1>. USE DEF Stored, Recorded
<1>1. PICK kept \in SUBSET Files :
          durable' = [f \in Files |-> IF f \in kept THEN content[f] ELSE durable[f]]
  BY DEF SessionEnds
<1>2. Stored \subseteq Stored'
  BY <1>1 DEF DurabilityInv, DurableIsThere
<1>3. Stored' = Stored \cup Stored' /\ UNCHANGED Recorded
  BY <1>2 DEF SessionEnds
<1>4. Stored' \in SUBSET Files
  OBVIOUS
<1>. QED BY <1>3, <1>4 DEF Promise!Next, Promise!Store

\* Every step within a session, and between two, keeps invariants and promise.
LEMMA SessionsStep ==
    ASSUME Dependable
    PROVE  TypeOK /\ DurabilityInv /\ [SessionsNext]_sessionVars =>
                /\ TypeOK' /\ DurabilityInv'
                /\ [Promise!Next]_<<Stored, Recorded>>
<1>. SUFFICES ASSUME TypeOK, DurabilityInv, [SessionsNext]_sessionVars
              PROVE  /\ TypeOK' /\ DurabilityInv'
                     /\ [Promise!Next]_<<Stored, Recorded>>
  OBVIOUS
<1>1. CASE SessionEnds
  BY <1>1, ResumedTypes, ResumedDurability, ResumedPromise
<1>2. CASE [Next]_vars
  <2>1. TypeOK' /\ DurabilityInv'
    BY <1>2, TypeStep, DurabilityStep
  <2>. QED BY <1>2, <2>1, PromiseStep
<1>. QED BY <1>1, <1>2 DEF SessionsNext, sessionVars

\* In every session, after any crashes, the files the checkpoint on disk calls
\* completed are among those whose counts are on disk, and no crash or resumed
\* import takes counts off the disk: with transactions, or if no save fails.
THEOREM SessionsKeepPromise ==
    ASSUME Dependable
    PROVE  SessionsSpec => CheckpointsAreHonest
BY InitTypes, InitDurability, SessionsStep, PromiseInit, PTL
DEF SessionsSpec, SessionsInit, CheckpointsAreHonest, Promise!Spec, Stored,
    Recorded
============================================================================
