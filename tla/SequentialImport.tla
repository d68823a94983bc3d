------------------------- MODULE SequentialImport -------------------------
(***************************************************************************)
(* The importers without a worker pool: import_http_with_progress and      *)
(* import_files (importer/import_ops.rs), bare or inside one of the        *)
(* wrappers run_import_with_shutdown (importer/mod.rs) and                 *)
(* run_import_with_periodic_checkpoints (importer/cron.rs), over crashes   *)
(* and resumptions.                                                        *)
(*                                                                         *)
(* The futures of buffer_unordered are not spawned: they run when the main *)
(* task awaits the stream, never beside one of its own saves.  The cron    *)
(* thread of the second wrapper runs beside everything, and saves the      *)
(* ledger it was given when the import began.                              *)
(***************************************************************************)
EXTENDS Integers, FiniteSets, Sequences, SequencesExt

CONSTANTS
    Files,          \* the prefixes of all orders
    FilesOf,        \* the files of each configured order, in order
    Parallelism,    \* config.parallel_downloads
    MaxRetries,     \* MAX_RETRIES, 5 in the code
    Interval,       \* files between periodic saves, 5 or 10 in the code
    Setups,         \* the ways the import may be set up
    MaxSessions     \* bound: how many sessions there are

Orders == DOMAIN FilesOf
InOrder(o) == Range(FilesOf[o])

PrefixStates == {"none", "Completed", "Failed"}
Ledgers      == [Files -> PrefixStates]
Books        == [ledger : Ledgers, closed : SUBSET Orders]

\* What the tries hold of a file: nothing, some of its counts, all of them,
\* some twice and some not at all, or all of them and some twice.
Contents == {"none", "part", "once", "mixed", "over"}
Whole    == {"once", "over"}

\* source: import_http or import_files.  writes: a prefix transaction of SET
\* values (sharded by prefix), increments one by one, or one transaction of
\* increments per file (import_files into a single trie).
SetupRecords ==
    [source : {"http", "files"}, writes : {"set", "increment", "atomic"},
     wrapper : {"none", "shutdown", "periodic"},
     ledger : Ledgers, closed : SUBSET Orders, content : [Files -> Contents]]

ASSUME ImportAssumption ==
    /\ IsFiniteSet(Files) /\ FilesOf \in Seq(Seq(Files))
    /\ \A f \in Files : \E o \in Orders : f \in InOrder(o)
    /\ \A o, p \in Orders : o # p => InOrder(o) \cap InOrder(p) = {}
    /\ Parallelism \in Nat \ {0} /\ Interval \in Nat \ {0}
    /\ MaxRetries \in Nat /\ MaxSessions \in Nat \ {0}

ASSUME SetupsAssumption ==
    /\ Setups \subseteq SetupRecords
    /\ \A s \in Setups :
        /\ s.source = "files" => s.wrapper = "none" /\ s.writes # "set"
        /\ s.source = "http" => s.writes # "atomic"
        /\ \A f \in Files : s.ledger[f] = "Completed" => s.content[f] \in Whole

VARIABLES
    setup, session,
    ledger, closed,      \* self.checkpoint: prefix_states and is_complete
    saved, durable,      \* the checkpoint and the contents a crash keeps
    content,             \* what the tries hold of each file
    mpc, why, ending,    \* the main task: where, why it saves, what it returns
    order,               \* the order in hand
    pass,                \* the first stream of futures, or one of retries
    todo, deferred,      \* futures not begun, deferred_items
    stage,               \* how far the future of a file is
    attempt,
    ids,                 \* worker ids in the pool
    completed,           \* completed_in_order
    givenUp,             \* failed_prefixes of all orders, and missing files
    interrupted, terminating,
    cron, snapshot,      \* the cron thread and its ArcSwap'd checkpoint
    finalSave            \* how the save of the wrapper ended

book    == <<ledger, closed>>
disk    == <<saved, durable>>
phase   == <<mpc, why, ending, order>>
stream  == <<pass, todo, deferred, stage, attempt, ids, completed>>
signals == <<interrupted, terminating>>
thread  == <<cron, snapshot>>
vars    == <<setup, session, book, disk, content, phase, stream, givenUp,
             signals, thread, finalSave>>

Http     == setup.source = "http"
Periodic == setup.wrapper = "periodic"
OrderOf(f) == CHOOSE o \in Orders : f \in InOrder(o)

\* needs_prefix: no state, or Failed, in an order that is not complete.
Needs(f) == OrderOf(f) \notin closed /\ ledger[f] # "Completed"

NoFutures ==
    /\ todo' = <<>> /\ deferred' = <<>>
    /\ stage' = [f \in Files |-> "none"]
    /\ attempt' = [f \in Files |-> 0]
    /\ pass' = "first" /\ ids' = 0 /\ completed' = 0

\* Files that an earlier session has hidden in an order it completed.
Hidden(l, c) == {f \in Files : OrderOf(f) \in c /\ l[f] # "Completed"}

CronAtStart == IF Periodic THEN "idle" ELSE "gone"

\* A caller without a wrapper may have called interrupt() before the import.
Init ==
    /\ setup \in Setups /\ session = 1
    /\ ledger = setup.ledger /\ closed = setup.closed
    /\ saved = [ledger |-> ledger, closed |-> closed] /\ snapshot = saved
    /\ content = setup.content /\ durable = setup.content
    /\ mpc = "start" /\ why = "none" /\ ending = "running" /\ order = 1
    /\ todo = <<>> /\ deferred = <<>>
    /\ stage = [f \in Files |-> "none"] /\ attempt = [f \in Files |-> 0]
    /\ pass = "first" /\ ids = 0 /\ completed = 0
    /\ givenUp = Hidden(ledger, closed)
    /\ interrupted \in (IF setup.wrapper = "none" THEN BOOLEAN ELSE {FALSE})
    /\ terminating = FALSE /\ cron = CronAtStart /\ finalSave = "none"

---------------------------------------------------------------------------
(* The main task: orders. *)

\* The importer is locked from here until the import returns.
BeginImport ==
    /\ mpc = "start" /\ mpc' = "order"
    /\ UNCHANGED <<setup, session, book, disk, content, why, ending, order,
                   stream, givenUp, signals, thread, finalSave>>

SaveFor(reason) == mpc' = "sync" /\ why' = reason

\* What the import returns; the futures still in the stream are dropped.  The
\* wrapper with the cron thread then tells it to end.
Return(result) ==
    /\ ending' = result /\ why' = "none"
    /\ mpc' = IF Periodic THEN "join" ELSE "done"
    /\ terminating' = (terminating \/ Periodic)
    /\ NoFutures

SkipOrder ==
    /\ mpc = "order" /\ order \in Orders
    /\ order \in closed \/ FilesOf[order] = <<>>
    /\ order' = order + 1
    /\ UNCHANGED <<setup, session, book, disk, content, mpc, why, ending,
                   stream, givenUp, signals, thread, finalSave>>

\* The positions of the files that are needed, and those files in their order:
\* SelectSeq(FilesOf[order], Needs), in a form that a proof can use.
Needed == {i \in DOMAIN FilesOf[order] : Needs(FilesOf[order][i])}
Pending ==
    [k \in 1 .. Cardinality(Needed) |->
        FilesOf[order][CHOOSE i \in Needed :
                          Cardinality({j \in Needed : j <= i}) = k]]

InOpenOrder == /\ mpc = "order" /\ order \in Orders
               /\ order \notin closed /\ FilesOf[order] # <<>>

\* Only import_http looks ahead, and it completes the order without a save.
NothingPending ==
    /\ InOpenOrder /\ Http /\ Pending = <<>>
    /\ closed' = closed \cup {order}
    /\ order' = order + 1
    /\ UNCHANGED <<setup, session, ledger, disk, content, mpc, why, ending,
                   stream, givenUp, signals, thread, finalSave>>

\* import_files handles one file at a time and looks at the interrupt first.
Width == IF Http THEN Parallelism ELSE 1

StopBeforeFile ==
    /\ InOpenOrder /\ ~ Http /\ interrupted
    /\ SaveFor("interrupted")
    /\ UNCHANGED <<setup, session, book, disk, content, ending, order, stream,
                   givenUp, signals, thread, finalSave>>

BeginOrder ==
    /\ InOpenOrder
    /\ IF Http THEN Pending # <<>> ELSE ~ interrupted
    /\ todo' = Pending /\ deferred' = <<>>
    /\ attempt' = [f \in Files |-> 0]
    /\ pass' = "first" /\ ids' = Width /\ completed' = 0
    /\ mpc' = "stream"
    /\ UNCHANGED <<setup, session, book, disk, content, why, ending, order,
                   stage, givenUp, signals, thread, finalSave>>

---------------------------------------------------------------------------
(* process_prefix_file and process_file: one file. *)

Flight == {f \in Files : stage[f] # "none"}

\* buffer_unordered holds so many futures; each claims a worker id first.
StartFile ==
    /\ mpc = "stream" /\ todo # <<>>
    /\ Cardinality(Flight) < Width /\ ids > 0
    /\ stage' = [stage EXCEPT ![Head(todo)] = "work"]
    /\ todo' = Tail(todo)
    /\ ids' = ids - 1
    /\ UNCHANGED <<setup, session, book, disk, content, phase, pass, deferred,
                   attempt, completed, givenUp, signals, thread, finalSave>>

\* import_files: "File not found" is logged and the file is passed over.
MissingFile ==
    /\ mpc = "stream" /\ ~ Http /\ todo # <<>> /\ Flight = {}
    /\ givenUp' = givenUp \cup {Head(todo)}
    /\ todo' = Tail(todo)
    /\ UNCHANGED <<setup, session, book, disk, content, phase, pass, deferred,
                   stage, attempt, ids, completed, signals, thread, finalSave>>

\* A pass over the file writes counts as it goes, unless it is one transaction.
AfterPart(c) ==
    IF setup.writes = "atomic" THEN c
    ELSE IF c = "none" THEN "part"
    ELSE IF setup.writes = "set" THEN c
    ELSE IF c \in Whole THEN "over" ELSE "mixed"

\* The pass gets to its end.  Increments have gone through AfterPart before.
AfterWhole(c) ==
    CASE setup.writes = "set"       -> "once"
      [] setup.writes = "increment" -> IF c = "part" THEN "once" ELSE "over"
      [] setup.writes = "atomic"    -> IF c = "none" THEN "once" ELSE "over"

Advance(f, from, to) ==
    /\ mpc = "stream" /\ stage[f] = from
    /\ stage' = [stage EXCEPT ![f] = to]
    /\ UNCHANGED <<setup, session, book, saved, phase, pass, todo, deferred,
                   attempt, ids, completed, givenUp, signals, thread, finalSave>>

WritePart(f) ==
    /\ Advance(f, "work", "half")
    /\ content' = [content EXCEPT ![f] = AfterPart(@)]
    /\ UNCHANGED durable

\* commit_prefix_tx syncs the WAL of the shard; the others wait for a sync.
FinishFile(f) ==
    /\ Advance(f, "half", "end")
    /\ content' = [content EXCEPT ![f] = AfterWhole(@)]
    /\ durable' = IF setup.writes = "set" THEN [durable EXCEPT ![f] = "once"]
                  ELSE durable

---------------------------------------------------------------------------
(* Outcomes, in the loop over the stream. *)

\* The future is over and has returned its worker id.
Ended(f) == /\ stage' = [stage EXCEPT ![f] = "none"]
            /\ ids' = ids + 1

PositionOf(f) == CHOOSE i \in DOMAIN FilesOf[order] : FilesOf[order][i] = f

\* After so many files; for import_files by the position in the list.  With
\* none completed yet, import_http saves after every outcome.
SaveIsDue(f, count) ==
    IF Http THEN pass = "first" /\ count % Interval = 0
            ELSE PositionOf(f) % Interval = 0

\* flush_lockfree_over_threshold, which the retries leave out: a checkpoint
\* of a single trie, or of the shards above the threshold; errors are logged.
Flush == IF pass = "first" THEN durable' \in {durable, content}
         ELSE UNCHANGED durable

\* What follows each outcome in the loop.
SaveOrGoOn(f, count) ==
    /\ Flush
    /\ IF SaveIsDue(f, count) THEN SaveFor("periodic") ELSE UNCHANGED <<mpc, why>>
    /\ UNCHANGED <<setup, session, saved, content, ending, order, pass, todo,
                   signals, thread, finalSave>>

\* An outcome that comes after an interrupt is dropped.
Stop(f) ==
    /\ mpc = "stream" /\ Http /\ interrupted /\ stage[f] # "none"
    /\ SaveFor("interrupted")
    /\ UNCHANGED <<setup, session, book, disk, content, ending, order, stream,
                   givenUp, signals, thread, finalSave>>

Succeed(f) ==
    /\ mpc = "stream" /\ ~ interrupted /\ stage[f] = "end"
    /\ ledger' = [ledger EXCEPT ![f] = "Completed"]
    /\ completed' = completed + 1
    /\ Ended(f)
    /\ SaveOrGoOn(f, completed + 1)
    /\ UNCHANGED <<closed, deferred, attempt, givenUp>>

InWork(f) == mpc = "stream" /\ ~ interrupted /\ stage[f] \in {"work", "half"}

\* Mutant of Defer: only the first pass keeps what is deferred.
DeferOnce(f) ==
    /\ InWork(f) /\ Http /\ attempt[f] < MaxRetries
    /\ deferred' = IF pass = "first" THEN Append(deferred, f) ELSE deferred
    /\ attempt' = [attempt EXCEPT ![f] = @ + 1]
    /\ Ended(f)
    /\ SaveOrGoOn(f, completed)
    /\ UNCHANGED <<book, completed, givenUp>>

\* Mutant of Defer: the attempt is not counted.
DeferUncounted(f) ==
    /\ InWork(f) /\ Http /\ attempt[f] < MaxRetries
    /\ deferred' = Append(deferred, f)
    /\ Ended(f)
    /\ SaveOrGoOn(f, completed)
    /\ UNCHANGED <<book, attempt, completed, givenUp>>

\* A retryable error with attempts left.
Defer(f) ==
    /\ InWork(f) /\ Http /\ attempt[f] < MaxRetries
    /\ deferred' = Append(deferred, f)
    /\ attempt' = [attempt EXCEPT ![f] = @ + 1]
    /\ Ended(f)
    /\ SaveOrGoOn(f, completed)
    /\ UNCHANGED <<book, completed, givenUp>>

\* Another error, or one after the last attempt: the ledger is not told.
Fail(f) ==
    /\ InWork(f) /\ Http
    /\ givenUp' = givenUp \cup {f}
    /\ Ended(f)
    /\ SaveOrGoOn(f, completed)
    /\ UNCHANGED <<book, deferred, attempt, completed>>

\* import_files gives up at the first error, without a save.
FailLocally(f) ==
    /\ InWork(f) /\ ~ Http
    /\ Return("error")
    /\ UNCHANGED <<setup, session, book, disk, content, order, givenUp,
                   interrupted, thread, finalSave>>

StreamIsDry == mpc = "stream" /\ todo = <<>> /\ Flight = {}

\* A pass over the deferred files, after the shortest of their backoffs.  The
\* interrupt is looked at again here, but cannot have been set since.
RetryDeferred ==
    /\ StreamIsDry /\ deferred # <<>>
    /\ todo' = deferred /\ deferred' = <<>>
    /\ pass' = "retry"
    /\ UNCHANGED <<setup, session, book, disk, content, phase, stage, attempt,
                   ids, completed, givenUp, signals, thread, finalSave>>

\* The permanent failures are logged and the order is complete.
CompleteOrder ==
    /\ StreamIsDry /\ deferred = <<>>
    /\ closed' = closed \cup {order}
    /\ SaveFor("order")
    /\ UNCHANGED <<setup, session, ledger, disk, content, ending, order, stream,
                   givenUp, signals, thread, finalSave>>

---------------------------------------------------------------------------
(* Saves and the end. *)

\* save_to_trie: an order without states keeps its old chunk, and a flag that
\* is not set is not written either.
OnDisk(l, c) ==
    [ledger |-> [f \in Files |->
                  IF \E g \in InOrder(OrderOf(f)) : l[g] # "none"
                  THEN l[f] ELSE saved.ledger[f]],
     closed |-> saved.closed \cup c]

\* What the main task does once save_checkpoint has returned.
AfterSave(ok) ==
    \/ /\ why = "periodic" /\ ok
       /\ mpc' = "stream" /\ why' = "none"
       /\ UNCHANGED <<ending, order, stream, terminating, finalSave>>
    \/ /\ why = "order" /\ ok
       /\ mpc' = "order" /\ why' = "none" /\ order' = order + 1
       /\ UNCHANGED <<ending, stream, terminating, finalSave>>
    \/ /\ why = "interrupted" \/ (why \in {"periodic", "order"} /\ ~ ok)
       /\ Return(IF ok THEN "interrupted" ELSE "error")
       /\ UNCHANGED <<order, finalSave>>
    \/ /\ why = "final"
       /\ mpc' = "done" /\ why' = "none"
       /\ finalSave' = IF ok THEN "ok" ELSE "failed"
       /\ UNCHANGED <<ending, order, stream, terminating>>

\* The shards or the trie, before the ledger.
SyncStorage ==
    /\ mpc = "sync" /\ mpc' = "write"
    /\ durable' = content
    /\ UNCHANGED <<setup, session, book, saved, content, why, ending, order,
                   stream, givenUp, signals, thread, finalSave>>

WriteLedger ==
    /\ mpc = "write"
    /\ saved' = OnDisk(ledger, closed)
    /\ AfterSave(TRUE)
    /\ UNCHANGED <<setup, session, book, durable, content, givenUp, interrupted,
                   thread>>

SaveFails ==
    /\ mpc \in {"sync", "write"}
    /\ AfterSave(FALSE)
    /\ UNCHANGED <<setup, session, book, disk, content, givenUp, interrupted,
                   thread>>

Blank == [ledger |-> [f \in Files |-> "none"], closed |-> {}]

\* finalize: statistics, then cleanup_checkpoint.
Finalize ==
    /\ mpc = "order" /\ order \notin Orders
    /\ saved' = Blank
    /\ Return("ok")
    /\ UNCHANGED <<setup, session, book, durable, content, order, givenUp,
                   interrupted, thread, finalSave>>

FinalizeFails ==
    /\ mpc = "order" /\ order \notin Orders
    /\ Return("error")
    /\ UNCHANGED <<setup, session, book, disk, content, order, givenUp,
                   interrupted, thread, finalSave>>

\* Mutant of JoinCron: the scheduler is told to end and not waited for.
JoinCronNever ==
    /\ mpc = "join"
    /\ SaveFor("final")
    /\ UNCHANGED <<setup, session, book, disk, content, ending, order, stream,
                   givenUp, signals, thread, finalSave>>

\* cron_thread.join(), then the final save of the wrapper.
JoinCron ==
    /\ mpc = "join" /\ cron = "gone"
    /\ SaveFor("final")
    /\ UNCHANGED <<setup, session, book, disk, content, ending, order, stream,
                   givenUp, signals, thread, finalSave>>

---------------------------------------------------------------------------
(* The cron thread: perform_checkpoint, again and again. *)

CronStep(from, to) ==
    /\ cron = from /\ cron' = to
    /\ UNCHANGED <<setup, session, book, content, phase, stream, givenUp,
                   signals, snapshot, finalSave>>

CronSleeps == ~ terminating /\ CronStep("idle", "asleep") /\ UNCHANGED disk

\* A task that is due when the thread wakes up goes before the flag.
CronBegins == CronStep("asleep", "sync") /\ UNCHANGED disk

CronSyncs ==
    /\ CronStep("sync", "write")
    /\ durable' = content
    /\ UNCHANGED saved

\* Mutant of CronWrites: the ledger of the moment, not the one synced for.
CronWritesLatest ==
    /\ CronStep("write", "idle")
    /\ saved' = OnDisk(ledger, closed)
    /\ UNCHANGED durable

CronWrites ==
    /\ CronStep("write", "idle")
    /\ saved' = OnDisk(snapshot.ledger, snapshot.closed)
    /\ UNCHANGED durable

\* The error is logged and the task comes back.
CronFails ==
    /\ cron \in {"sync", "write"}
    /\ CronStep(cron, "idle")
    /\ UNCHANGED disk

CronEnds ==
    /\ terminating /\ cron \in {"idle", "asleep"}
    /\ CronStep(cron, "gone")
    /\ UNCHANGED disk

CronNext == CronSleeps \/ CronBegins \/ CronSyncs \/ CronWrites \/ CronFails \/ CronEnds

---------------------------------------------------------------------------
(* Signals, crashes, sessions. *)

ImporterIsFree == mpc \in {"start", "join"}

\* The shutdown handler: try_lock fails while the import holds the importer.
Signal ==
    /\ setup.wrapper # "none" /\ mpc # "done"
    /\ interrupted' = (interrupted \/ ImporterIsFree)
    /\ terminating' = (terminating \/ Periodic)
    /\ signals' # signals
    /\ UNCHANGED <<setup, session, book, disk, content, phase, stream, givenUp,
                   thread, finalSave>>

\* load_import_checkpoint, then the call of the import or of its wrapper, which
\* copies the ledger for the cron thread before it starts it.
ResumeOrStart ==
    /\ ledger' = saved.ledger /\ closed' = saved.closed /\ snapshot' = saved
    /\ mpc' = "start" /\ why' = "none" /\ ending' = "running" /\ order' = 1
    /\ NoFutures
    /\ givenUp' = Hidden(saved.ledger, saved.closed)
    /\ interrupted' = FALSE /\ terminating' = FALSE
    /\ cron' = CronAtStart /\ finalSave' = "none"
    /\ UNCHANGED <<setup, saved>>

\* The process dies, or is started again after it ended badly.  Of what is not
\* durable, a part may have been written all the same.
SessionEnds ==
    /\ session < MaxSessions /\ mpc # "start" /\ ending # "ok"
    /\ session' = session + 1
    /\ \E kept \in SUBSET Files :
        durable' = [f \in Files |-> IF f \in kept THEN content[f] ELSE durable[f]]
    /\ content' = durable'
    /\ ResumeOrStart

OrderNext ==
    BeginImport \/ SkipOrder \/ NothingPending \/ StopBeforeFile \/ BeginOrder
    \/ StartFile \/ MissingFile \/ RetryDeferred \/ CompleteOrder

SaveNext ==
    SyncStorage \/ WriteLedger \/ SaveFails \/ Finalize \/ FinalizeFails \/ JoinCron

FileNext(f) ==
    WritePart(f) \/ FinishFile(f) \/ Stop(f) \/ Succeed(f) \/ Defer(f) \/ Fail(f)
    \/ FailLocally(f)

Returned == mpc = "done" /\ UNCHANGED vars

Next ==
    \/ OrderNext \/ SaveNext
    \/ \E f \in Files : FileNext(f)
    \/ CronNext \/ Signal \/ SessionEnds \/ Returned

\* The runtime polls what is ready, the downloads end, the thread is scheduled.
Fairness ==
    /\ WF_vars(OrderNext) /\ WF_vars(SaveNext)
    /\ \A f \in Files : WF_vars(FileNext(f))
    /\ WF_vars(CronNext)

Spec == Init /\ [][Next]_vars /\ Fairness

---------------------------------------------------------------------------
(* Properties. *)

\* Every variable has its type, but for the lists of futures and givenUp, and a
\* stream of futures, with what it saves, belongs to an order.
TypeOK ==
    /\ setup \in Setups /\ session \in Nat
    /\ ledger \in Ledgers /\ closed \subseteq Orders
    /\ saved \in Books /\ snapshot \in Books
    /\ durable \in [Files -> Contents] /\ content \in [Files -> Contents]
    /\ mpc \in {"start", "order", "stream", "sync", "write", "join", "done"}
    /\ why \in {"none", "periodic", "interrupted", "order", "final"}
    /\ ending \in {"running", "ok", "interrupted", "error"}
    /\ order \in Nat
    /\ (mpc = "stream" \/ (mpc \in {"sync", "write"} /\ why \in {"periodic", "order"}))
          => order \in Orders
    /\ pass \in {"first", "retry"}
    /\ stage \in [Files -> {"none", "work", "half", "end"}]
    /\ attempt \in [Files -> 0 .. MaxRetries]
    /\ ids \in Nat /\ completed \in Nat
    /\ interrupted \in BOOLEAN /\ terminating \in BOOLEAN
    /\ cron \in {"idle", "asleep", "sync", "write", "gone"}
    /\ finalSave \in {"none", "ok", "failed"}

\* "CRITICAL: Sync and checkpoint n-gram shards" (checkpoint_ops.rs:101): a file
\* that the checkpoint on disk calls completed is whole on disk, whichever of
\* the two savers wrote it, and whatever the other one was doing.
SavedIsDurable ==
    \A f \in Files : saved.ledger[f] = "Completed" => durable[f] \in Whole

\* An import that returns its statistics has imported every file, has given it
\* up for good, or has not found it; deferred files are not lost between passes.
OkMeansSettled ==
    ending = "ok" => \A f \in Files : ledger[f] = "Completed" \/ f \in givenUp

\* "Shutdown complete. Safe to exit." (cron.rs:288): once the import has returned
\* and its last save went well, what it has recorded is what a next session
\* loads; no periodic save comes after it.
LastSaveStands ==
    (mpc = "done" /\ (finalSave = "ok" \/ (ending = "interrupted" /\ ~ Periodic)))
        => /\ closed \subseteq saved.closed
           /\ \A f \in Files : ledger[f] = "Completed" => saved.ledger[f] = "Completed"

\* The import returns in every session: no future waits for a worker id that
\* does not come back, the passes end, and the scheduler is joined.
ImportEnds == []<>(mpc = "done")
=============================================================================
