---------------------- MODULE SequentialImportProofs ----------------------
(***************************************************************************)
(* Proofs about SequentialImport, for any files, orders and setups, any    *)
(* parallelism, retries and number of sessions: the type invariant, the    *)
(* durability of what either saver records, the last save, and that an     *)
(* import that ends well has settled every file.                           *)
(***************************************************************************)
EXTENDS SequentialImport, FiniteSetTheorems, TLAPS

---------------------------------------------------------------------------
(* Types. *)

\* The constants, in one place.
LEMMA Numbers ==
    /\ 0 \in 0 .. MaxRetries /\ Parallelism \in Nat
    /\ \A n \in 0 .. MaxRetries : n < MaxRetries => n + 1 \in 0 .. MaxRetries
BY ImportAssumption

\* Orders are numbers, and every file is in the order OrderOf finds.
LEMMA OrdersAreNumbers ==
    /\ Orders \subseteq Nat
    /\ \A f \in Files : OrderOf(f) \in Orders /\ f \in InOrder(OrderOf(f))
BY ImportAssumption DEF Orders, OrderOf

\* What is on disk after a save is a ledger again.
LEMMA OnDiskIsBook ==
    ASSUME NEW l \in Ledgers, NEW c \in SUBSET Orders, saved \in Books
    PROVE  OnDisk(l, c) \in Books
BY DEF OnDisk, Books, Ledgers

LEMMA InitTypes == Init => TypeOK
<1>. SUFFICES ASSUME Init PROVE TypeOK
  OBVIOUS
<1>1. /\ setup.ledger \in Ledgers /\ setup.closed \subseteq Orders
      /\ setup.content \in [Files -> Contents] /\ setup \in Setups
  BY SetupsAssumption DEF Init, SetupRecords
<1>2. saved \in Books /\ snapshot \in Books
  BY <1>1 DEF Init, Books
<1>. QED BY <1>1, <1>2, Numbers
         DEF Init, TypeOK, CronAtStart, Hidden

\* The steps between orders.
LEMMA OrderTypes == TypeOK /\ OrderNext => TypeOK'
<1>. SUFFICES ASSUME TypeOK, OrderNext PROVE TypeOK'
  OBVIOUS
<1>. USE DEF TypeOK, book, disk, thread, signals, phase, stream
<1>1. CASE BeginImport
  BY <1>1 DEF BeginImport
<1>2. CASE SkipOrder
  BY <1>2 DEF SkipOrder
<1>3. CASE NothingPending
  BY <1>3 DEF NothingPending, InOpenOrder
<1>4. CASE StopBeforeFile
  BY <1>4 DEF StopBeforeFile, InOpenOrder, SaveFor
<1>5. CASE BeginOrder
  BY <1>5, Numbers DEF BeginOrder, InOpenOrder, Width
<1>6. CASE StartFile
  <2>. DEFINE f == Head(todo)
  <2>1. stage' = [stage EXCEPT ![f] = "work"] /\ ids > 0 /\ ids' = ids - 1
    BY <1>6 DEF StartFile
  <2>. HIDE DEF f
  <2>2. stage' \in [Files -> {"none", "work", "half", "end"}] /\ ids' \in Nat
    <3>1. stage' \in [Files -> {"none", "work", "half", "end"}]
      BY <2>1
    <3>. QED BY <2>1, <3>1
  <2>. QED BY <1>6, <2>2 DEF StartFile
<1>7. CASE MissingFile
  BY <1>7 DEF MissingFile
<1>8. CASE RetryDeferred
  BY <1>8 DEF RetryDeferred
<1>9. CASE CompleteOrder
  BY <1>9 DEF CompleteOrder, StreamIsDry, SaveFor
<1>. QED BY <1>1, <1>2, <1>3, <1>4, <1>5, <1>6, <1>7, <1>8, <1>9 DEF OrderNext

\* What follows an outcome keeps the types it disturbs.
LEMMA OutcomeTypes ==
    ASSUME TypeOK, mpc = "stream", NEW f \in Files, NEW n \in Nat,
           Ended(f), SaveOrGoOn(f, n),
           ledger' \in Ledgers, closed' \subseteq Orders,
           attempt' \in [Files -> 0 .. MaxRetries], completed' \in Nat
    PROVE  TypeOK'
<1>1. mpc' \in {"stream", "sync"} /\ why' \in {why, "periodic"}
  BY DEF SaveOrGoOn, SaveFor
<1>2. /\ durable' \in [Files -> Contents] /\ ids' \in Nat
      /\ stage' \in [Files -> {"none", "work", "half", "end"}]
  BY DEF SaveOrGoOn, Flush, Ended, TypeOK
<1>. QED BY <1>1, <1>2 DEF SaveOrGoOn, TypeOK, signals, thread

\* The import returns, or a session begins.
LEMMA NoFuturesTypes ==
    ASSUME NoFutures
    PROVE  /\ stage' \in [Files -> {"none", "work", "half", "end"}]
           /\ attempt' \in [Files -> 0 .. MaxRetries]
           /\ pass' = "first" /\ ids' \in Nat /\ completed' \in Nat
BY Numbers DEF NoFutures

LEMMA ReturnTypes ==
    ASSUME NEW result, Return(result), terminating \in BOOLEAN
    PROVE  /\ ending' = result /\ why' = "none" /\ mpc' \in {"join", "done"}
           /\ terminating' \in BOOLEAN
BY DEF Return, Periodic

\* A file begins, goes on or comes to an end.
LEMMA FileTypes == TypeOK /\ (\E f \in Files : FileNext(f)) => TypeOK'
<1>. SUFFICES ASSUME TypeOK, NEW f \in Files, FileNext(f) PROVE TypeOK'
  OBVIOUS
<1>. USE DEF TypeOK, book, disk, thread, signals, phase, stream
<1>1. CASE WritePart(f)
  BY <1>1 DEF WritePart, Advance, AfterPart, Contents
<1>2. CASE FinishFile(f)
  <2>1. content' \in [Files -> Contents] /\ durable' \in [Files -> Contents]
    BY <1>2, SetupsAssumption DEF FinishFile, AfterWhole, Contents, SetupRecords
  <2>. QED BY <1>2, <2>1 DEF FinishFile, Advance
<1>3. CASE Stop(f)
  BY <1>3 DEF Stop, SaveFor
<1>4. CASE Succeed(f)
  <2>1. /\ ledger' \in Ledgers /\ completed' \in Nat /\ completed + 1 \in Nat
        /\ UNCHANGED <<closed, attempt>>
    BY <1>4 DEF Succeed, Ledgers, PrefixStates
  <2>. QED BY <1>4, <2>1, OutcomeTypes DEF Succeed
<1>5. CASE Defer(f)
  <2>1. /\ attempt' \in [Files -> 0 .. MaxRetries]
        /\ UNCHANGED <<ledger, closed, completed>>
    BY <1>5, Numbers DEF Defer
  <2>. QED BY <1>5, <2>1, OutcomeTypes DEF Defer, InWork
<1>6. CASE Fail(f)
  <2>1. UNCHANGED <<ledger, closed, attempt, completed>>
    BY <1>6 DEF Fail
  <2>. QED BY <1>6, <2>1, OutcomeTypes DEF Fail, InWork
<1>7. CASE FailLocally(f)
  <2>1. NoFutures /\ Return("error") /\ terminating \in BOOLEAN
    BY <1>7 DEF FailLocally, Return
  <2>. HIDE DEF TypeOK
  <2>2. /\ ending' = "error" /\ why' = "none" /\ mpc' \in {"join", "done"}
        /\ terminating' \in BOOLEAN
    BY <2>1, ReturnTypes
  <2>. QED BY <1>7, <2>1, <2>2, NoFuturesTypes DEF FailLocally, TypeOK
<1>. QED BY <1>1, <1>2, <1>3, <1>4, <1>5, <1>6, <1>7 DEF FileNext

\* What follows a save keeps types.
LEMMA AfterSaveTypes ==
    ASSUME TypeOK, mpc \in {"sync", "write"}, NEW ok \in BOOLEAN, AfterSave(ok),
           UNCHANGED <<setup, session, ledger, closed, durable, content,
                       interrupted, cron, snapshot>>,
           saved' \in Books
    PROVE  TypeOK'
<1>. USE DEF TypeOK, stream
<1>1. CASE why = "periodic" /\ ok
  BY <1>1 DEF AfterSave
<1>2. CASE why = "order" /\ ok
  BY <1>2, OrdersAreNumbers DEF AfterSave
<1>3. CASE why = "interrupted" \/ (why \in {"periodic", "order"} /\ ~ ok)
  <2>1. PICK result \in {"interrupted", "error"} : Return(result)
    BY <1>3 DEF AfterSave
  <2>2. UNCHANGED <<order, finalSave>>
    BY <1>3 DEF AfterSave
  <2>3. /\ ending' = result /\ why' = "none" /\ mpc' \in {"join", "done"}
        /\ terminating' \in BOOLEAN /\ NoFutures
    BY <2>1, ReturnTypes DEF Return
  <2>. QED BY <2>2, <2>3, NoFuturesTypes
<1>4. CASE why = "final"
  BY <1>4 DEF AfterSave
<1>. QED BY <1>1, <1>2, <1>3, <1>4 DEF AfterSave

LEMMA SaveTypes == TypeOK /\ SaveNext => TypeOK'
<1>. SUFFICES ASSUME TypeOK, SaveNext PROVE TypeOK'
  OBVIOUS
<1>1. CASE SyncStorage
  BY <1>1 DEF SyncStorage, TypeOK, book, thread, signals, stream
<1>2. CASE WriteLedger
  <2>1. saved' \in Books
    BY <1>2, OnDiskIsBook DEF WriteLedger, TypeOK
  <2>. QED BY <1>2, <2>1, AfterSaveTypes DEF WriteLedger, book, thread
<1>3. CASE SaveFails
  <2>1. saved' \in Books
    BY <1>3 DEF SaveFails, disk, TypeOK
  <2>. QED BY <1>3, <2>1, AfterSaveTypes DEF SaveFails, book, disk, thread
<1>4. CASE Finalize \/ FinalizeFails
  <2>1. saved' \in Books
    BY <1>4 DEF Finalize, FinalizeFails, Blank, Books, Ledgers, PrefixStates, disk, TypeOK
  <2>2. PICK result \in {"ok", "error"} : Return(result)
    BY <1>4 DEF Finalize, FinalizeFails
  <2>3. /\ ending' = result /\ why' = "none" /\ mpc' \in {"join", "done"}
        /\ terminating' \in BOOLEAN /\ NoFutures
    BY <2>2, ReturnTypes DEF Return, TypeOK
  <2>. QED BY <1>4, <2>1, <2>3, NoFuturesTypes
           DEF Finalize, FinalizeFails, TypeOK, book, disk, thread
<1>5. CASE JoinCron
  BY <1>5 DEF JoinCron, SaveFor, TypeOK, book, disk, thread, signals, stream
<1>. QED BY <1>1, <1>2, <1>3, <1>4, <1>5 DEF SaveNext

LEMMA CronTypes == TypeOK /\ CronNext => TypeOK'
<1>. SUFFICES ASSUME TypeOK, CronNext PROVE TypeOK'
  OBVIOUS
<1>1. saved' \in Books /\ durable' \in [Files -> Contents]
  <2>1. CASE CronWrites
    BY <2>1, OnDiskIsBook DEF CronWrites, TypeOK, Books
  <2>. QED BY <2>1 DEF CronNext, CronSleeps, CronBegins, CronSyncs, CronFails,
              CronEnds, disk, TypeOK
<1>. QED BY <1>1 DEF CronNext, CronSleeps, CronBegins, CronSyncs, CronWrites,
            CronFails, CronEnds, CronStep, TypeOK, book, signals, phase, stream

LEMMA SessionTypes == TypeOK /\ SessionEnds => TypeOK'
<1>. SUFFICES ASSUME TypeOK, SessionEnds PROVE TypeOK'
  OBVIOUS
<1>1. PICK kept \in SUBSET Files :
          durable' = [f \in Files |-> IF f \in kept THEN content[f] ELSE durable[f]]
  BY DEF SessionEnds
<1>2. durable' \in [Files -> Contents] /\ content' \in [Files -> Contents]
  BY <1>1 DEF SessionEnds, TypeOK
<1>3. saved \in Books /\ saved.ledger \in Ledgers /\ saved.closed \subseteq Orders
  BY DEF TypeOK, Books
<1>4. /\ NoFutures /\ cron' \in {"idle", "gone"}
      /\ ledger' = saved.ledger /\ closed' = saved.closed /\ snapshot' = saved
      /\ mpc' = "start" /\ why' = "none" /\ ending' = "running" /\ order' = 1
      /\ interrupted' = FALSE /\ terminating' = FALSE /\ finalSave' = "none"
      /\ session' = session + 1 /\ UNCHANGED <<setup, saved>>
  BY DEF SessionEnds, ResumeOrStart, CronAtStart
<1>5. session' \in Nat /\ order' \in Nat /\ setup' \in Setups
  BY <1>4 DEF TypeOK
<1>. QED BY <1>2, <1>3, <1>4, <1>5, NoFuturesTypes DEF TypeOK

LEMMA TypeStep == TypeOK /\ [Next]_vars => TypeOK'
<1>1. TypeOK /\ Signal => TypeOK'
  BY DEF Signal, ImporterIsFree, TypeOK, book, disk, phase, stream, thread
<1>2. TypeOK /\ UNCHANGED vars => TypeOK'
  BY DEF TypeOK, vars, book, disk, phase, stream, signals, thread
<1>. QED BY <1>1, <1>2, OrderTypes, FileTypes, SaveTypes, CronTypes, SessionTypes
         DEF Next, Returned

\* Every variable of the sequential import has its type, in every session.
THEOREM Typing == Spec => []TypeOK
BY InitTypes, TypeStep, PTL DEF Spec
---------------------------------------------------------------------------
(* What the ledgers say is on disk. *)

\* What the ledger calls completed, or the loop is about to, is in the tries.
LedgerIsTrue ==
    \A f \in Files :
        ledger[f] = "Completed" \/ stage[f] = "end" => content[f] \in Whole

\* What is on disk is true, and so is the copy the cron thread has of it.
SavedIsTrue ==
    \A f \in Files :
        saved.ledger[f] = "Completed" \/ snapshot.ledger[f] = "Completed"
            => content[f] \in Whole /\ durable[f] \in Whole

\* Between the sync of the main task and its write, its ledger is true of the
\* disk, whatever the cron thread syncs in between.
SyncedBeforeWritten ==
    mpc = "write" =>
        \A f \in Files : ledger[f] = "Completed" => durable[f] \in Whole

DurabilityInv == LedgerIsTrue /\ SavedIsTrue /\ SyncedBeforeWritten

\* What a save writes for a file is in the ledger or was there before.
LEMMA OnDiskSays ==
    ASSUME NEW l, NEW c, NEW f \in Files, OnDisk(l, c).ledger[f] = "Completed"
    PROVE  l[f] = "Completed" \/ saved.ledger[f] = "Completed"
BY DEF OnDisk

LEMMA InitDurability == Init => DurabilityInv
<1>. SUFFICES ASSUME Init PROVE DurabilityInv
  OBVIOUS
<1>1. \A f \in Files : setup.ledger[f] = "Completed" => setup.content[f] \in Whole
  BY SetupsAssumption DEF Init
<1>. QED BY <1>1 DEF Init, DurabilityInv, LedgerIsTrue, SavedIsTrue, SyncedBeforeWritten

\* Steps that only move futures about.
LEMMA QuietStep ==
    ASSUME DurabilityInv, UNCHANGED <<content, durable, saved, snapshot, ledger>>,
           mpc' # "write" \/ mpc' = mpc,
           \A f \in Files : stage'[f] = "end" => stage[f] = "end"
    PROVE  DurabilityInv'
BY DEF DurabilityInv, LedgerIsTrue, SavedIsTrue, SyncedBeforeWritten

LEMMA OrderKeepsDurability == TypeOK /\ DurabilityInv /\ OrderNext => DurabilityInv'
<1>. SUFFICES ASSUME TypeOK, DurabilityInv, OrderNext PROVE DurabilityInv'
  OBVIOUS
<1>1. UNCHANGED <<content, durable, saved, snapshot, ledger>> /\ mpc' # "write"
  BY DEF OrderNext, BeginImport, SkipOrder, NothingPending, StopBeforeFile,
     BeginOrder, StartFile, MissingFile, RetryDeferred, CompleteOrder,
     StreamIsDry, InOpenOrder, SaveFor, book, disk, thread, phase
<1>2. \A f \in Files : stage'[f] = "end" => stage[f] = "end"
  <2>1. CASE StartFile
    <3>. DEFINE g == Head(todo)
    <3>1. stage' = [stage EXCEPT ![g] = "work"]
      BY <2>1 DEF StartFile
    <3>. HIDE DEF g
    <3>. QED BY <3>1 DEF TypeOK
  <2>2. CASE ~ StartFile
    BY <2>2 DEF OrderNext, BeginImport, SkipOrder, NothingPending, StopBeforeFile,
       BeginOrder, MissingFile, RetryDeferred, CompleteOrder, stream
  <2>. QED BY <2>1, <2>2
<1>. QED BY <1>1, <1>2, QuietStep

LEMMA FileKeepsDurability ==
    TypeOK /\ DurabilityInv /\ (\E f \in Files : FileNext(f)) => DurabilityInv'
<1>. SUFFICES ASSUME TypeOK, DurabilityInv, NEW f \in Files, FileNext(f)
              PROVE  DurabilityInv'
  OBVIOUS
<1>1. CASE WritePart(f)
  <2>1. /\ UNCHANGED <<durable, saved, snapshot, ledger>> /\ mpc' = "stream"
        /\ \A g \in Files : content[g] \in Whole => content'[g] \in Whole
        /\ \A g \in Files : stage'[g] = "end" => stage[g] = "end"
    BY <1>1 DEF WritePart, Advance, AfterPart, Whole, TypeOK, book, thread, phase
  <2>. QED BY <2>1 DEF DurabilityInv, LedgerIsTrue, SavedIsTrue, SyncedBeforeWritten
<1>2. CASE FinishFile(f)
  <2>1. setup.writes \in {"set", "increment", "atomic"}
    BY SetupsAssumption DEF SetupRecords, TypeOK
  <2>2. /\ UNCHANGED <<saved, snapshot, ledger>> /\ mpc' = "stream"
        /\ content'[f] \in Whole
        /\ \A g \in Files : content[g] \in Whole => content'[g] \in Whole
        /\ \A g \in Files : durable[g] \in Whole => durable'[g] \in Whole
        /\ \A g \in Files : stage'[g] = "end" => g = f \/ stage[g] = "end"
    BY <1>2, <2>1 DEF FinishFile, Advance, AfterWhole, Whole, TypeOK, book, thread, phase
  <2>. QED BY <2>2 DEF DurabilityInv, LedgerIsTrue, SavedIsTrue, SyncedBeforeWritten
<1>3. CASE Stop(f) \/ FailLocally(f)
  <2>1. /\ UNCHANGED <<content, durable, saved, snapshot, ledger>> /\ mpc' # "write"
        /\ \A g \in Files : stage'[g] = "end" => stage[g] = "end"
    BY <1>3 DEF Stop, FailLocally, SaveFor, Return, NoFutures, book, disk, thread, stream
  <2>. QED BY <2>1, QuietStep
<1>4. CASE Succeed(f) \/ Defer(f) \/ Fail(f)
  <2>1. /\ UNCHANGED <<content, saved, snapshot>> /\ mpc' # "write"
        /\ durable' \in {durable, content}
    BY <1>4 DEF Succeed, Defer, Fail, InWork, SaveOrGoOn, SaveFor, Flush, thread
  <2>2. \A g \in Files : stage'[g] = "end" => stage[g] = "end"
    BY <1>4 DEF Succeed, Defer, Fail, Ended, TypeOK
  <2>3. \A g \in Files : ledger'[g] = "Completed" => ledger[g] = "Completed" \/ stage[g] = "end"
    BY <1>4 DEF Succeed, Defer, Fail, book, TypeOK, Ledgers
  <2>. QED BY <2>1, <2>2, <2>3 DEF DurabilityInv, LedgerIsTrue, SavedIsTrue, SyncedBeforeWritten
<1>. QED BY <1>1, <1>2, <1>3, <1>4 DEF FileNext

LEMMA SaveKeepsDurability == TypeOK /\ DurabilityInv /\ SaveNext => DurabilityInv'
<1>. SUFFICES ASSUME TypeOK, DurabilityInv, SaveNext PROVE DurabilityInv'
  OBVIOUS
<1>1. CASE SyncStorage
  BY <1>1 DEF SyncStorage, book, thread, stream, DurabilityInv, LedgerIsTrue,
     SavedIsTrue, SyncedBeforeWritten
<1>2. CASE ~ SyncStorage
  <2>1. UNCHANGED <<content, durable, snapshot, ledger>> /\ mpc' # "write"
    BY <1>2 DEF SaveNext, WriteLedger, SaveFails, Finalize, FinalizeFails,
       JoinCron, AfterSave, Return, SaveFor, book, disk, thread
  <2>2. \A f \in Files : stage'[f] = "end" => stage[f] = "end"
    BY <1>2 DEF SaveNext, WriteLedger, SaveFails, Finalize, FinalizeFails,
       JoinCron, AfterSave, Return, NoFutures, stream
  <2>3. \A f \in Files : saved'.ledger[f] = "Completed" =>
           \/ saved.ledger[f] = "Completed"
           \/ ledger[f] = "Completed" /\ mpc = "write"
    <3>1. CASE WriteLedger
      BY <3>1, OnDiskSays DEF WriteLedger
    <3>2. CASE Finalize
      BY <3>2 DEF Finalize, Blank
    <3>3. CASE SaveFails \/ FinalizeFails \/ JoinCron
      BY <3>3 DEF SaveFails, FinalizeFails, JoinCron, disk
    <3>. QED BY <1>2, <3>1, <3>2, <3>3 DEF SaveNext
  <2>. QED BY <2>1, <2>2, <2>3 DEF DurabilityInv, LedgerIsTrue, SavedIsTrue,
              SyncedBeforeWritten
<1>. QED BY <1>1, <1>2

LEMMA CronKeepsDurability == TypeOK /\ DurabilityInv /\ CronNext => DurabilityInv'
<1>. SUFFICES ASSUME TypeOK, DurabilityInv, CronNext PROVE DurabilityInv'
  OBVIOUS
<1>1. UNCHANGED <<content, ledger, snapshot, stage, mpc>>
  BY DEF CronNext, CronSleeps, CronBegins, CronSyncs, CronWrites, CronFails,
     CronEnds, CronStep, book, stream, phase
<1>2. durable' \in {durable, content}
  BY DEF CronNext, CronSleeps, CronBegins, CronSyncs, CronWrites, CronFails,
     CronEnds, CronStep, disk
<1>3. \A f \in Files : saved'.ledger[f] = "Completed" =>
         saved.ledger[f] = "Completed" \/ snapshot.ledger[f] = "Completed"
  <2>1. CASE CronWrites
    BY <2>1, OnDiskSays DEF CronWrites
  <2>. QED BY <2>1 DEF CronNext, CronSleeps, CronBegins, CronSyncs, CronFails,
              CronEnds, disk
<1>. QED BY <1>1, <1>2, <1>3 DEF DurabilityInv, LedgerIsTrue, SavedIsTrue,
            SyncedBeforeWritten

\* A new session believes the checkpoint, and the checkpoint was true.
LEMMA SessionKeepsDurability == TypeOK /\ DurabilityInv /\ SessionEnds => DurabilityInv'
<1>. SUFFICES ASSUME TypeOK, DurabilityInv, SessionEnds PROVE DurabilityInv'
  OBVIOUS
<1>1. PICK kept \in SUBSET Files :
          durable' = [f \in Files |-> IF f \in kept THEN content[f] ELSE durable[f]]
  BY DEF SessionEnds
<1>2. /\ content' = durable' /\ ledger' = saved.ledger /\ snapshot' = saved
      /\ UNCHANGED saved /\ mpc' = "start" /\ stage' = [f \in Files |-> "none"]
  BY DEF SessionEnds, ResumeOrStart, NoFutures
<1>. QED BY <1>1, <1>2 DEF DurabilityInv, LedgerIsTrue, SavedIsTrue,
            SyncedBeforeWritten

LEMMA DurabilityStep == TypeOK /\ DurabilityInv /\ [Next]_vars => DurabilityInv'
<1>. SUFFICES ASSUME TypeOK, DurabilityInv, [Next]_vars PROVE DurabilityInv'
  OBVIOUS
<1>1. CASE Signal \/ UNCHANGED vars
  <2>1. /\ UNCHANGED <<content, durable, saved, snapshot, ledger, mpc, stage>>
    BY <1>1 DEF Signal, vars, book, disk, phase, stream, thread
  <2>. QED BY <2>1, QuietStep
<1>. QED BY <1>1, OrderKeepsDurability, FileKeepsDurability, SaveKeepsDurability,
            CronKeepsDurability, SessionKeepsDurability DEF Next, Returned

\* Whatever the two savers do beside each other, and whenever the process dies,
\* the checkpoint on disk calls no file completed that is not whole on disk:
\* save_checkpoint syncs the storage before it writes the ledger, nothing is
\* recorded in between, and perform_checkpoint writes a ledger that was loaded.
THEOREM SavedStaysDurable == Spec => []SavedIsDurable
<1>1. DurabilityInv => SavedIsDurable
  BY DEF DurabilityInv, SavedIsTrue, SavedIsDurable
<1>. QED BY <1>1, InitTypes, TypeStep, InitDurability, DurabilityStep, PTL DEF Spec
---------------------------------------------------------------------------
(* The last save. *)

\* The cron thread is gone before the last save of its wrapper begins, and a
\* caller without it has none.
CronIsGone ==
    (~ Periodic \/ mpc = "done" \/ why = "final") => cron = "gone"

\* A session that has returned stays as it is.
EndedIsDone ==
    /\ finalSave = "ok" => mpc = "done"
    /\ ending = "interrupted" /\ ~ Periodic => mpc = "done"
    /\ why = "final" => Periodic /\ mpc \in {"sync", "write"}
    /\ mpc = "join" => Periodic

LastInv == CronIsGone /\ EndedIsDone /\ LastSaveStands

\* A save of the ledger in hand leaves nothing of it out.
LEMMA OnDiskCovers ==
    ASSUME saved' = OnDisk(ledger, closed)
    PROVE  /\ closed \subseteq saved'.closed
           /\ \A f \in Files : ledger[f] = "Completed" => saved'.ledger[f] = "Completed"
<1>1. \A f \in Files : f \in InOrder(OrderOf(f))
  BY OrdersAreNumbers
<1>. QED BY <1>1 DEF OnDisk

\* The steps that do not end the import.
LEMMA RunningKeepsLast ==
    ASSUME TypeOK, LastInv, mpc # "done", mpc' \notin {"join", "done"},
           UNCHANGED <<setup, cron, ending, finalSave>>, why' # "final"
    PROVE  LastInv'
BY DEF LastInv, CronIsGone, EndedIsDone, LastSaveStands, Periodic

LEMMA SaveKeepsLast == TypeOK /\ LastInv /\ SaveNext => LastInv'
<1>. SUFFICES ASSUME TypeOK, LastInv, SaveNext PROVE LastInv'
  OBVIOUS
<1>1. /\ mpc # "done" /\ UNCHANGED <<setup, cron, ledger, closed>>
  BY DEF SaveNext, SyncStorage, WriteLedger, SaveFails, Finalize, FinalizeFails,
     JoinCron, book, thread
<1>2. /\ finalSave # "ok"
      /\ ending = "interrupted" => Periodic
  BY <1>1 DEF LastInv, EndedIsDone
<1>3. CASE SyncStorage
  BY <1>1, <1>2, <1>3 DEF SyncStorage, LastInv, CronIsGone, EndedIsDone,
     LastSaveStands, Periodic
<1>4. CASE JoinCron
  <2>1. Periodic
    BY <1>4 DEF JoinCron, LastInv, EndedIsDone
  <2>. QED BY <1>1, <1>2, <1>4, <2>1 DEF JoinCron, SaveFor, LastInv, CronIsGone,
              EndedIsDone, LastSaveStands, Periodic
<1>5. CASE Finalize \/ FinalizeFails
  BY <1>1, <1>2, <1>5 DEF Finalize, FinalizeFails, Return, LastInv, CronIsGone,
     EndedIsDone, LastSaveStands, Periodic
<1>6. CASE WriteLedger
  <2>1. /\ closed' \subseteq saved'.closed
        /\ \A f \in Files : ledger'[f] = "Completed" => saved'.ledger[f] = "Completed"
    BY <1>1, <1>6, OnDiskCovers DEF WriteLedger
  <2>2. LastSaveStands'
    BY <2>1 DEF LastSaveStands
  <2>. QED BY <1>1, <1>2, <1>6, <2>2 DEF WriteLedger, AfterSave, Return, LastInv,
              CronIsGone, EndedIsDone, Periodic
<1>7. CASE SaveFails
  BY <1>1, <1>2, <1>7 DEF SaveFails, AfterSave, Return, LastInv, CronIsGone,
     EndedIsDone, LastSaveStands, Periodic
<1>. QED BY <1>3, <1>4, <1>5, <1>6, <1>7 DEF SaveNext

LEMMA FileKeepsLast ==
    TypeOK /\ LastInv /\ (\E f \in Files : FileNext(f)) => LastInv'
<1>. SUFFICES ASSUME TypeOK, LastInv, NEW f \in Files, FileNext(f)
              PROVE  LastInv'
  OBVIOUS
<1>1. CASE FailLocally(f)
  <2>1. /\ mpc = "stream" /\ UNCHANGED <<setup, cron, finalSave>>
        /\ ending' = "error" /\ why' = "none"
        /\ mpc' = IF Periodic THEN "join" ELSE "done"
    BY <1>1 DEF FailLocally, InWork, Return, thread
  <2>. QED BY <2>1 DEF LastInv, CronIsGone, EndedIsDone, LastSaveStands, Periodic
<1>2. CASE ~ FailLocally(f)
  <2>1. /\ mpc = "stream" /\ mpc' \in {"stream", "sync"}
        /\ UNCHANGED <<setup, cron, ending, finalSave>>
        /\ why' \in {why, "periodic", "interrupted"}
    BY <1>2 DEF FileNext, WritePart, FinishFile, Advance, Stop, Succeed, Defer,
       Fail, InWork, SaveOrGoOn, SaveFor, phase, thread
  <2>2. why' # "final"
    BY <2>1 DEF LastInv, EndedIsDone
  <2>. QED BY <2>1, <2>2, RunningKeepsLast
<1>. QED BY <1>1, <1>2

LEMMA OrderKeepsLast == TypeOK /\ LastInv /\ OrderNext => LastInv'
<1>. SUFFICES ASSUME TypeOK, LastInv, OrderNext PROVE LastInv'
  OBVIOUS
<1>1. /\ mpc \in {"start", "order", "stream"} /\ mpc' \in {"order", "stream", "sync"}
      /\ UNCHANGED <<setup, cron, ending, finalSave>>
      /\ why' \in {why, "order", "interrupted"}
  BY DEF OrderNext, BeginImport, SkipOrder, NothingPending, StopBeforeFile,
     BeginOrder, StartFile, MissingFile, RetryDeferred, CompleteOrder,
     StreamIsDry, InOpenOrder, SaveFor, phase, thread
<1>2. why' # "final"
  BY <1>1 DEF LastInv, EndedIsDone
<1>. QED BY <1>1, <1>2, RunningKeepsLast

\* The cron thread is there only while there is more to come.
LEMMA CronKeepsLast == LastInv /\ CronNext => LastInv'
<1>. SUFFICES ASSUME LastInv, CronNext PROVE LastInv'
  OBVIOUS
<1>1. /\ cron # "gone"
      /\ UNCHANGED <<setup, ledger, closed, mpc, why, ending, finalSave>>
  BY DEF CronNext, CronSleeps, CronBegins, CronSyncs, CronWrites, CronFails,
     CronEnds, CronStep, book, phase
<1>. QED BY <1>1 DEF LastInv, CronIsGone, EndedIsDone, LastSaveStands, Periodic

LEMMA LastStep == TypeOK /\ LastInv /\ [Next]_vars => LastInv'
<1>. SUFFICES ASSUME TypeOK, LastInv, [Next]_vars PROVE LastInv'
  OBVIOUS
<1>1. CASE Signal \/ UNCHANGED vars
  <2>1. UNCHANGED <<setup, ledger, closed, saved, mpc, why, ending, cron, finalSave>>
    BY <1>1 DEF Signal, vars, book, disk, phase, thread
  <2>. QED BY <2>1 DEF LastInv, CronIsGone, EndedIsDone, LastSaveStands, Periodic
<1>2. CASE SessionEnds
  <2>1. /\ UNCHANGED setup /\ mpc' = "start" /\ why' = "none"
        /\ ending' = "running" /\ finalSave' = "none"
        /\ cron' = IF Periodic THEN "idle" ELSE "gone"
    BY <1>2 DEF SessionEnds, ResumeOrStart, CronAtStart
  <2>. QED BY <2>1 DEF LastInv, CronIsGone, EndedIsDone, LastSaveStands, Periodic
<1>. QED BY <1>1, <1>2, SaveKeepsLast, FileKeepsLast, OrderKeepsLast, CronKeepsLast
         DEF Next, Returned

LEMMA InitLast == Init => LastInv
BY DEF Init, LastInv, CronIsGone, EndedIsDone, LastSaveStands, CronAtStart, Periodic

\* "Shutdown complete. Safe to exit." is true: the wrapper waits for its cron
\* thread before it saves, so no periodic save comes after the last one, and a
\* session that has returned and saved has nothing on disk missing.
THEOREM LastSaveIsLast == Spec => []LastSaveStands
<1>1. LastInv => LastSaveStands
  BY DEF LastInv
<1>. QED BY <1>1, InitTypes, TypeStep, InitLast, LastStep, PTL DEF Spec
---------------------------------------------------------------------------
(* What an import that returns Ok leaves behind. *)

Settled(f) == ledger[f] = "Completed" \/ f \in givenUp

\* The file has a future, begun or not, or waits for the next pass.
Watched(f) == f \in Range(todo) \/ f \in Range(deferred) \/ stage[f] # "none"

InStream == mpc = "stream" \/ (mpc \in {"sync", "write"} /\ why = "periodic")

ListsAreFiles == todo \in Seq(Files) /\ deferred \in Seq(Files) /\ order # 0

\* An order is closed once each of its files is settled ...
ClosedIsSettled == \A f \in Files : OrderOf(f) \in closed => Settled(f)

\* ... and the import goes on to the next order when one is closed ...
PassedIsClosed ==
    /\ \A f \in Files : OrderOf(f) < order => OrderOf(f) \in closed
    /\ mpc \in {"sync", "write"} /\ why = "order" => order \in closed

\* ... and, until then, loses sight of no file of it.
StreamWatches ==
    InStream => \A f \in Files : OrderOf(f) = order => Settled(f) \/ Watched(f)

SettledInv ==
    ListsAreFiles /\ ClosedIsSettled /\ PassedIsClosed /\ StreamWatches
    /\ OkMeansSettled

\* Lists of futures.
LEMMA RangeOfAppend ==
    ASSUME NEW s \in Seq(Files), NEW f \in Files
    PROVE  /\ Append(s, f) \in Seq(Files)
           /\ Range(Append(s, f)) = Range(s) \cup {f}
<1>1. Append(s, f)[Len(s) + 1] = f /\ DOMAIN Append(s, f) = 1 .. Len(s) + 1
      /\ \A i \in 1 .. Len(s) : Append(s, f)[i] = s[i]
  OBVIOUS
<1>. QED BY <1>1 DEF Range

LEMMA RangeOfTail ==
    ASSUME NEW s \in Seq(Files), s # <<>>
    PROVE  /\ Head(s) \in Files /\ Tail(s) \in Seq(Files)
           /\ Range(s) = {Head(s)} \cup Range(Tail(s))
<1>1. /\ Head(s) = s[1] /\ Len(s) \in Nat \ {0} /\ DOMAIN s = 1 .. Len(s)
      /\ DOMAIN Tail(s) = 1 .. Len(s) - 1
      /\ \A i \in 1 .. Len(s) - 1 : Tail(s)[i] = s[i + 1]
  OBVIOUS
<1>2. \A i \in 2 .. Len(s) : i - 1 \in 1 .. Len(s) - 1 /\ Tail(s)[i - 1] = s[i]
  BY <1>1
<1>3. Range(s) \subseteq {Head(s)} \cup Range(Tail(s))
  <2>. SUFFICES ASSUME NEW i \in 1 .. Len(s)
                PROVE  s[i] \in {Head(s)} \cup Range(Tail(s))
    BY <1>1 DEF Range
  <2>1. CASE i = 1
    BY <1>1, <2>1
  <2>2. CASE i \in 2 .. Len(s)
    <3>1. Tail(s)[i - 1] \in Range(Tail(s))
      BY <1>1, <1>2, <2>2 DEF Range
    <3>. QED BY <1>2, <2>2, <3>1
  <2>. QED BY <1>1, <2>1, <2>2
<1>4. {Head(s)} \cup Range(Tail(s)) \subseteq Range(s)
  BY <1>1 DEF Range
<1>. QED BY <1>1, <1>3, <1>4

LEMMA RangeOfEmpty == <<>> \in Seq(Files) /\ Range(<<>>) = {}
BY DEF Range

\* A file is in no order but its own.
LEMMA OneOrder ==
    ASSUME NEW o \in Orders
    PROVE  /\ FilesOf[o] \in Seq(Files)
           /\ \A f \in Files : f \in InOrder(o) <=> OrderOf(f) = o
BY ImportAssumption, OrdersAreNumbers DEF Orders, InOrder, OrderOf, Range

\* Pending has just the files of the order that are needed: each position has
\* a rank of its own among the needed ones.
LEMMA PendingIsNeeded ==
    ASSUME order \in Orders
    PROVE  /\ Pending \in Seq(Files)
           /\ \A f \in Files : OrderOf(f) = order /\ Needs(f) => f \in Range(Pending)
<1>. DEFINE s       == FilesOf[order]
            Upto(i) == {m \in Needed : m <= i}
            Rank(i) == Cardinality(Upto(i))
            n       == Cardinality(Needed)
<1>1. s \in Seq(Files) /\ Len(s) \in Nat /\ DOMAIN s = 1 .. Len(s)
  BY OneOrder
<1>2. IsFiniteSet(Needed) /\ Needed \subseteq 1 .. Len(s)
  <2>1. Needed \subseteq 1 .. Len(s)
    BY <1>1 DEF Needed
  <2>2. IsFiniteSet(1 .. Len(s))
    BY <1>1, FS_Interval
  <2>. QED BY <2>1, <2>2, FS_Subset
<1>3. \A i \in Needed : IsFiniteSet(Upto(i)) /\ Rank(i) \in 1 .. n /\ n \in Nat
  <2>. TAKE i \in Needed
  <2>1. IsFiniteSet(Upto(i)) /\ Rank(i) <= n
    BY <1>2, FS_Subset
  <2>2. Rank(i) # 0
    BY <1>2, <2>1, FS_EmptySet
  <2>. QED BY <1>2, <2>1, <2>2, FS_CardinalityType
<1>4. \A i, j \in Needed : i < j => Rank(i) # Rank(j)
  <2>. TAKE i, j \in Needed
  <2>. HAVE i < j
  <2>1. i \in Nat /\ j \in Nat /\ Needed \subseteq Nat
    BY <1>1, <1>2
  <2>2. \A m \in Needed : m <= i => m <= j
    BY <2>1
  <2>3. ~ (j <= i) /\ j <= j
    BY <2>1
  <2>4. Upto(i) \subseteq Upto(j) /\ j \in Upto(j) /\ j \notin Upto(i)
    BY <2>2, <2>3
  <2>. QED BY <1>3, <2>4, FS_Subset
<1>5. \A i, j \in Needed : Rank(i) = Rank(j) => i = j
  BY <1>2, <1>4
<1>6. Pending = [k \in 1 .. n |-> s[CHOOSE i \in Needed : Rank(i) = k]]
  BY DEF Pending
<1>7. \A i \in Needed : Rank(i) \in 1 .. n /\ Pending[Rank(i)] = s[i]
  BY <1>3, <1>5, <1>6
<1>8. \A k \in 1 .. n : \E i \in Needed : Rank(i) = k
  <2>. DEFINE r == [i \in Needed |-> Rank(i)]
  <2>1. r \in Injection(Needed, 1 .. n)
    BY <1>3, <1>5 DEF Injection, IsInjective
  <2>2. IsFiniteSet(1 .. n) /\ Cardinality(1 .. n) = n
    BY <1>2, FS_CardinalityType, FS_Interval
  <2>3. r \in Surjection(Needed, 1 .. n)
    BY <2>1, <2>2, FS_Injection
  <2>. QED BY <2>3 DEF Surjection
<1>9. Pending \in Seq(Files)
  <2>1. ASSUME NEW k \in 1 .. n
        PROVE  s[CHOOSE i \in Needed : Rank(i) = k] \in Files
    <3>. DEFINE c == CHOOSE i \in Needed : Rank(i) = k
    <3>1. c \in Needed
      BY <1>8
    <3>2. ASSUME NEW i \in Needed PROVE s[i] \in Files
      BY <1>1, <1>2
    <3>. QED BY <3>1, <3>2
  <2>2. n \in Nat
    BY <1>2, FS_CardinalityType
  <2>. HIDE DEF n, s, Rank
  <2>. QED BY <1>6, <2>1, <2>2
<1>10. ASSUME NEW f \in Files, OrderOf(f) = order, Needs(f)
       PROVE  f \in Range(Pending)
  <2>1. PICK i \in DOMAIN s : s[i] = f
    BY <1>10, OneOrder DEF InOrder, Range
  <2>2. i \in Needed
    BY <1>10, <2>1 DEF Needed
  <2>. QED BY <1>6, <1>7, <2>1, <2>2 DEF Range
<1>. QED BY <1>9, <1>10

LEMMA InitSettled == Init => SettledInv
<1>. SUFFICES ASSUME Init PROVE SettledInv
  OBVIOUS
<1>1. ListsAreFiles
  BY RangeOfEmpty DEF Init, ListsAreFiles
<1>2. ClosedIsSettled /\ OkMeansSettled /\ StreamWatches
  BY DEF Init, ClosedIsSettled, Settled, Hidden, OkMeansSettled, StreamWatches, InStream
<1>3. \A f \in Files : OrderOf(f) \in Nat \ {0}
  BY ImportAssumption, OrdersAreNumbers DEF Orders
<1>4. PassedIsClosed
  BY <1>3 DEF Init, PassedIsClosed
<1>. QED BY <1>1, <1>2, <1>4 DEF SettledInv

\* A step that passes no order and forgets no file keeps the invariant.
LEMMA SettledMoves ==
    ASSUME SettledInv, ListsAreFiles',
           \A f \in Files : Settled(f) => Settled(f)',
           UNCHANGED <<closed, order>>,
           mpc' \in {"sync", "write"} /\ why' = "order" => order \in closed,
           StreamWatches',
           ending' = "ok" => ending = "ok"
    PROVE  SettledInv'
BY DEF SettledInv, ClosedIsSettled, PassedIsClosed, OkMeansSettled, Settled

\* Once an order has no file left, it may be closed.
LEMMA OrderIsDone ==
    ASSUME ClosedIsSettled, \A f \in Files : OrderOf(f) = order => Settled(f),
           UNCHANGED <<ledger, givenUp>>, closed' \subseteq closed \cup {order}
    PROVE  ClosedIsSettled'
BY DEF ClosedIsSettled, Settled

LEMMA OrderKeepsSettled == TypeOK /\ SettledInv /\ OrderNext => SettledInv'
<1>. SUFFICES ASSUME TypeOK, SettledInv, OrderNext PROVE SettledInv'
  OBVIOUS
<1>0. /\ ListsAreFiles /\ OkMeansSettled
      /\ \A f \in Files : OrderOf(f) \in Nat
  BY OrdersAreNumbers DEF SettledInv
<1>1. CASE BeginImport \/ StopBeforeFile
  <2>1. /\ UNCHANGED <<ledger, closed, givenUp, order, todo, deferred, ending>>
        /\ ~ InStream' /\ ~ (mpc' \in {"sync", "write"} /\ why' = "order")
    BY <1>1 DEF BeginImport, StopBeforeFile, SaveFor, InStream, book, stream
  <2>. QED BY <1>0, <2>1, SettledMoves DEF ListsAreFiles, Settled, StreamWatches
<1>2. CASE SkipOrder \/ NothingPending
  <2>1. /\ UNCHANGED <<ledger, givenUp, todo, deferred, ending>> /\ mpc' = "order"
        /\ order \in Orders /\ order' = order + 1
        /\ closed \subseteq closed' /\ closed' \subseteq closed \cup {order}
    BY <1>2 DEF SkipOrder, NothingPending, InOpenOrder, book, stream
  <2>2. /\ \A f \in Files : OrderOf(f) = order => Settled(f)
        /\ \A f \in Files : OrderOf(f) = order => order \in closed'
    <3>. SUFFICES ASSUME NEW f \in Files, OrderOf(f) = order
                  PROVE  Settled(f) /\ order \in closed'
      OBVIOUS
    <3>1. f \in InOrder(order) /\ FilesOf[order] # <<>>
      BY <2>1, OneOrder, RangeOfEmpty DEF InOrder
    <3>2. CASE SkipOrder
      BY <3>1, <3>2 DEF SkipOrder, book, SettledInv, ClosedIsSettled
    <3>3. CASE NothingPending
      <4>1. order \notin closed /\ Pending = <<>> /\ closed' = closed \cup {order}
        BY <3>3 DEF NothingPending, InOpenOrder
      <4>2. ~ Needs(f)
        BY <2>1, <4>1, PendingIsNeeded, RangeOfEmpty
      <4>. QED BY <4>1, <4>2 DEF Needs, Settled
    <3>. QED BY <1>2, <3>2, <3>3
  <2>3. ClosedIsSettled'
    BY <2>1, <2>2, OrderIsDone DEF SettledInv
  <2>4. PassedIsClosed'
    <3>1. order \in Nat /\ \A f \in Files : OrderOf(f) < order + 1 =>
             OrderOf(f) < order \/ OrderOf(f) = order
      BY <1>0 DEF TypeOK
    <3>. QED BY <2>1, <2>2, <3>1 DEF SettledInv, PassedIsClosed
  <2>5. ListsAreFiles'
    BY <1>0, <2>1 DEF ListsAreFiles, TypeOK
  <2>. QED BY <1>0, <2>1, <2>3, <2>4, <2>5
           DEF SettledInv, StreamWatches, InStream, OkMeansSettled
<1>3. CASE BeginOrder
  <2>1. /\ UNCHANGED <<ledger, closed, givenUp, order, ending>> /\ mpc' = "stream"
        /\ todo' = Pending /\ deferred' = <<>>
        /\ order \in Orders /\ order \notin closed
    BY <1>3 DEF BeginOrder, InOpenOrder, book
  <2>2. ListsAreFiles'
    BY <1>0, <2>1, PendingIsNeeded, RangeOfEmpty DEF ListsAreFiles
  <2>3. StreamWatches'
    <3>. SUFFICES ASSUME NEW f \in Files, OrderOf(f) = order
                  PROVE  Settled(f)' \/ Watched(f)'
      BY <2>1 DEF StreamWatches
    <3>1. f \in Range(todo') \/ ledger[f] = "Completed"
      BY <2>1, PendingIsNeeded DEF Needs
    <3>. QED BY <2>1, <3>1 DEF Settled, Watched
  <2>. QED BY <2>1, <2>2, <2>3, SettledMoves DEF Settled
<1>4. CASE StartFile \/ MissingFile
  <2>1. /\ UNCHANGED <<ledger, closed, order, ending, deferred, mpc, why>>
        /\ mpc = "stream" /\ todo # <<>> /\ todo' = Tail(todo)
    BY <1>4 DEF StartFile, MissingFile, book, phase
  <2>2. /\ Head(todo) \in Files /\ Tail(todo) \in Seq(Files)
        /\ Range(todo) = {Head(todo)} \cup Range(Tail(todo))
    BY <1>0, <2>1, RangeOfTail DEF ListsAreFiles
  <2>3. /\ givenUp \subseteq givenUp'
        /\ \A f \in Files : stage[f] # "none" => stage'[f] # "none"
        /\ Head(todo) \in givenUp' \/ stage'[Head(todo)] # "none"
    <3>1. CASE StartFile
      <4>. DEFINE g == Head(todo)
      <4>1. stage' = [stage EXCEPT ![g] = "work"] /\ givenUp' = givenUp
        BY <3>1 DEF StartFile
      <4>2. g \in Files
        BY <2>2
      <4>. HIDE DEF g
      <4>3. /\ \A f \in Files : stage[f] # "none" => stage'[f] # "none"
            /\ stage'[g] # "none"
        BY <4>1, <4>2 DEF TypeOK
      <4>. QED BY <4>1, <4>3 DEF g
    <3>2. CASE MissingFile
      BY <3>2 DEF MissingFile
    <3>. QED BY <1>4, <3>1, <3>2
  <2>4. StreamWatches'
    BY <2>1, <2>2, <2>3 DEF SettledInv, StreamWatches, InStream, Settled, Watched
  <2>. QED BY <1>0, <2>1, <2>2, <2>3, <2>4, SettledMoves DEF ListsAreFiles, Settled
<1>5. CASE RetryDeferred
  <2>1. /\ UNCHANGED <<ledger, closed, givenUp, order, ending, stage, mpc, why>>
        /\ mpc = "stream" /\ todo = <<>> /\ todo' = deferred /\ deferred' = <<>>
    BY <1>5 DEF RetryDeferred, StreamIsDry, book, phase
  <2>2. StreamWatches' /\ ListsAreFiles'
    BY <1>0, <2>1, RangeOfEmpty DEF SettledInv, StreamWatches, InStream, Settled,
       Watched, ListsAreFiles
  <2>. QED BY <2>1, <2>2, SettledMoves DEF Settled
<1>6. CASE CompleteOrder
  <2>1. /\ UNCHANGED <<ledger, givenUp, order, ending, todo, deferred>>
        /\ mpc = "stream" /\ todo = <<>> /\ deferred = <<>> /\ Flight = {}
        /\ closed' = closed \cup {order} /\ mpc' = "sync" /\ why' = "order"
    BY <1>6 DEF CompleteOrder, StreamIsDry, SaveFor, stream
  <2>2. \A f \in Files : OrderOf(f) = order => Settled(f)
    BY <2>1, RangeOfEmpty DEF SettledInv, StreamWatches, InStream, Watched, Flight
  <2>3. ClosedIsSettled'
    BY <2>1, <2>2, OrderIsDone DEF SettledInv
  <2>. QED BY <1>0, <2>1, <2>3 DEF SettledInv, PassedIsClosed, StreamWatches,
              InStream, ListsAreFiles, OkMeansSettled
<1>. QED BY <1>1, <1>2, <1>3, <1>4, <1>5, <1>6 DEF OrderNext

LEMMA FileKeepsSettled ==
    TypeOK /\ SettledInv /\ (\E f \in Files : FileNext(f)) => SettledInv'
<1>. SUFFICES ASSUME TypeOK, SettledInv, NEW f \in Files, FileNext(f)
              PROVE  SettledInv'
  OBVIOUS
<1>0. ListsAreFiles
  BY DEF SettledInv
<1>1. CASE WritePart(f) \/ FinishFile(f)
  <2>1. /\ UNCHANGED <<ledger, closed, givenUp, order, ending, todo, deferred, mpc, why>>
        /\ mpc = "stream"
        /\ \A g \in Files : stage[g] # "none" => stage'[g] # "none"
    BY <1>1 DEF WritePart, FinishFile, Advance, book, phase, TypeOK
  <2>2. StreamWatches' /\ ListsAreFiles'
    BY <1>0, <2>1 DEF SettledInv, StreamWatches, InStream, Settled, Watched, ListsAreFiles
  <2>. QED BY <2>1, <2>2, SettledMoves DEF Settled
<1>2. CASE Stop(f)
  <2>1. /\ UNCHANGED <<ledger, closed, givenUp, order, ending, todo, deferred>>
        /\ mpc' = "sync" /\ why' = "interrupted"
    BY <1>2 DEF Stop, SaveFor, book, stream
  <2>. QED BY <1>0, <2>1, SettledMoves DEF StreamWatches, InStream, ListsAreFiles, Settled
<1>3. CASE FailLocally(f)
  <2>1. /\ UNCHANGED <<ledger, closed, givenUp, order>>
        /\ ending' = "error" /\ todo' = <<>> /\ deferred' = <<>>
        /\ mpc' \in {"join", "done"}
    BY <1>3 DEF FailLocally, Return, NoFutures, book
  <2>. QED BY <1>0, <2>1, SettledMoves, RangeOfEmpty
           DEF StreamWatches, InStream, ListsAreFiles, Settled
<1>4. CASE Succeed(f) \/ Defer(f) \/ Fail(f)
  <2>1. /\ UNCHANGED <<closed, order, ending, todo>> /\ mpc = "stream"
        /\ stage' = [stage EXCEPT ![f] = "none"]
        /\ \/ UNCHANGED <<mpc, why>>
           \/ mpc' = "sync" /\ why' = "periodic"
    BY <1>4 DEF Succeed, Defer, Fail, InWork, Ended, SaveOrGoOn, SaveFor, book
  <2>2. /\ deferred' \in Seq(Files) /\ Range(deferred) \subseteq Range(deferred')
        /\ \A g \in Files : Settled(g) => Settled(g)'
        /\ Settled(f)' \/ f \in Range(deferred')
    <3>1. CASE Succeed(f)
      BY <1>0, <3>1 DEF Succeed, Settled, ListsAreFiles, TypeOK, Ledgers
    <3>2. CASE Defer(f)
      BY <1>0, <3>2, RangeOfAppend DEF Defer, Settled, ListsAreFiles, book
    <3>3. CASE Fail(f)
      BY <1>0, <3>3 DEF Fail, Settled, ListsAreFiles, book
    <3>. QED BY <1>4, <3>1, <3>2, <3>3
  <2>3. \A g \in Files : stage[g] # "none" => g = f \/ stage'[g] # "none"
    BY <2>1 DEF TypeOK
  <2>4. StreamWatches'
    BY <2>1, <2>2, <2>3 DEF SettledInv, StreamWatches, InStream, Watched
  <2>. QED BY <1>0, <2>1, <2>2, <2>4, SettledMoves DEF ListsAreFiles
<1>. QED BY <1>1, <1>2, <1>3, <1>4 DEF FileNext

LEMMA SaveKeepsSettled == TypeOK /\ SettledInv /\ SaveNext => SettledInv'
<1>. SUFFICES ASSUME TypeOK, SettledInv, SaveNext PROVE SettledInv'
  OBVIOUS
<1>0. /\ ListsAreFiles
      /\ UNCHANGED <<ledger, closed, givenUp>>
  BY DEF SettledInv, SaveNext, SyncStorage, WriteLedger, SaveFails, Finalize,
     FinalizeFails, JoinCron, book
<1>1. CASE SyncStorage
  <2>1. UNCHANGED <<order, ending, todo, deferred, why, stage>>
        /\ mpc = "sync" /\ mpc' = "write"
    BY <1>1 DEF SyncStorage, stream
  <2>. QED BY <1>0, <2>1, SettledMoves DEF SettledInv, PassedIsClosed, StreamWatches,
              InStream, ListsAreFiles, Settled, Watched
<1>2. CASE JoinCron
  <2>1. UNCHANGED <<order, ending, todo, deferred>> /\ mpc' = "sync" /\ why' = "final"
    BY <1>2 DEF JoinCron, SaveFor, stream
  <2>. QED BY <1>0, <2>1, SettledMoves DEF StreamWatches, InStream, ListsAreFiles, Settled
<1>3. ASSUME NEW result \in {"ok", "interrupted", "error"}, Return(result),
             UNCHANGED order,
             result = "ok" => \A f \in Files : Settled(f)
      PROVE  SettledInv'
  <2>1. /\ mpc' \in {"join", "done"} /\ ending' = result
        /\ todo' = <<>> /\ deferred' = <<>>
    BY <1>3 DEF Return, NoFutures
  <2>. QED BY <1>0, <1>3, <2>1, RangeOfEmpty
           DEF SettledInv, ListsAreFiles, ClosedIsSettled, PassedIsClosed,
               StreamWatches, InStream, OkMeansSettled, Settled
<1>4. CASE Finalize \/ FinalizeFails
  <2>1. \A f \in Files : OrderOf(f) < order
    <3>1. order \in Nat \ {0} /\ order \notin Orders
      BY <1>0, <1>4 DEF Finalize, FinalizeFails, TypeOK, ListsAreFiles
    <3>2. Orders = 1 .. Len(FilesOf) /\ Len(FilesOf) \in Nat
      BY ImportAssumption DEF Orders
    <3>. QED BY <3>1, <3>2, OrdersAreNumbers
  <2>2. \A f \in Files : Settled(f)
    BY <2>1 DEF SettledInv, PassedIsClosed, ClosedIsSettled
  <2>. QED BY <1>3, <1>4, <2>2 DEF Finalize, FinalizeFails
<1>5. CASE WriteLedger \/ SaveFails
  <2>1. PICK ok \in BOOLEAN : AfterSave(ok)
    BY <1>5 DEF WriteLedger, SaveFails
  <2>2. mpc \in {"sync", "write"}
    BY <1>5 DEF WriteLedger, SaveFails
  <2>3. CASE why = "periodic" /\ ok
    <3>1. /\ UNCHANGED <<order, ending, todo, deferred, stage>>
          /\ mpc' = "stream" /\ InStream
      BY <2>1, <2>2, <2>3 DEF AfterSave, stream, InStream
    <3>. QED BY <1>0, <3>1, SettledMoves DEF SettledInv, StreamWatches,
                ListsAreFiles, Settled, Watched
  <2>4. CASE why = "order" /\ ok
    <3>1. /\ UNCHANGED <<ending, todo, deferred>>
          /\ mpc' = "order" /\ order' = order + 1 /\ order \in closed
      BY <2>1, <2>2, <2>4 DEF AfterSave, stream, SettledInv, PassedIsClosed
    <3>2. \A f \in Files : OrderOf(f) < order + 1 =>
             OrderOf(f) < order \/ OrderOf(f) = order
      <4>1. order \in Nat /\ \A f \in Files : OrderOf(f) \in Nat
        BY OrdersAreNumbers DEF TypeOK
      <4>. QED BY <4>1
    <3>3. PassedIsClosed' /\ ListsAreFiles'
      BY <1>0, <3>1, <3>2 DEF SettledInv, PassedIsClosed, ListsAreFiles, TypeOK
    <3>. QED BY <1>0, <3>1, <3>3 DEF SettledInv, ClosedIsSettled, StreamWatches,
                InStream, OkMeansSettled, Settled
  <2>5. CASE why = "interrupted" \/ (why \in {"periodic", "order"} /\ ~ ok)
    BY <1>3, <2>1, <2>5 DEF AfterSave
  <2>6. CASE why = "final"
    <3>1. UNCHANGED <<order, ending, todo, deferred>> /\ mpc' = "done"
      BY <2>1, <2>6 DEF AfterSave, stream
    <3>. QED BY <1>0, <3>1, SettledMoves DEF StreamWatches, InStream, ListsAreFiles, Settled
  <2>. QED BY <2>1, <2>3, <2>4, <2>5, <2>6 DEF AfterSave
<1>. QED BY <1>1, <1>2, <1>4, <1>5 DEF SaveNext

\* What a new session finds hidden in a closed order counts as given up.
LEMMA SessionKeepsSettled == TypeOK /\ SettledInv /\ SessionEnds => SettledInv'
<1>. SUFFICES ASSUME TypeOK, SettledInv, SessionEnds PROVE SettledInv'
  OBVIOUS
<1>1. /\ ledger' = saved.ledger /\ closed' = saved.closed
      /\ givenUp' = Hidden(saved.ledger, saved.closed)
      /\ mpc' = "start" /\ ending' = "running" /\ order' = 1
      /\ todo' = <<>> /\ deferred' = <<>>
  BY DEF SessionEnds, ResumeOrStart, NoFutures
<1>2. \A f \in Files : OrderOf(f) \in Nat \ {0}
  BY ImportAssumption, OrdersAreNumbers DEF Orders
<1>3. ClosedIsSettled' /\ PassedIsClosed' /\ ListsAreFiles'
  BY <1>1, <1>2, RangeOfEmpty DEF ClosedIsSettled, PassedIsClosed, ListsAreFiles,
     Settled, Hidden
<1>. QED BY <1>1, <1>3 DEF SettledInv, StreamWatches, InStream, OkMeansSettled

LEMMA SettledStep == TypeOK /\ SettledInv /\ [Next]_vars => SettledInv'
<1>. SUFFICES ASSUME TypeOK, SettledInv, [Next]_vars PROVE SettledInv'
  OBVIOUS
<1>1. CASE CronNext \/ Signal \/ UNCHANGED vars
  <2>1. UNCHANGED <<ledger, closed, givenUp, order, ending, todo, deferred, stage, mpc, why>>
    BY <1>1 DEF CronNext, CronSleeps, CronBegins, CronSyncs, CronWrites, CronFails,
       CronEnds, CronStep, Signal, vars, book, phase, stream
  <2>. QED BY <2>1 DEF SettledInv, ListsAreFiles, ClosedIsSettled, PassedIsClosed,
              StreamWatches, InStream, OkMeansSettled, Settled, Watched
<1>. QED BY <1>1, OrderKeepsSettled, FileKeepsSettled, SaveKeepsSettled,
            SessionKeepsSettled DEF Next, Returned

\* An import that returns its statistics has settled every file of every order:
\* what is deferred comes back in the next pass, what is in flight when a
\* periodic save begins is there when it ends, and an order is passed only when
\* nothing of it is left.
THEOREM OkIsSettled == Spec => []OkMeansSettled
<1>1. SettledInv => OkMeansSettled
  BY DEF SettledInv
<1>. QED BY <1>1, InitTypes, TypeStep, InitSettled, SettledStep, PTL DEF Spec
=============================================================================
