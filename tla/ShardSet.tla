---------------------------- MODULE ShardSet ----------------------------
(***************************************************************************)
(* The shards of one import: the coordinator's map of open shards, its     *)
(* creation locks and LRU tracker (sharding/coordinator/mod.rs), the       *)
(* prefix transactions and counts the workers send to them, the global     *)
(* checkpoint (sharding/checkpoint.rs), and the importer's own checkpoint, *)
(* which resume_or_start (importer/mod.rs) compares with both.             *)
(*                                                                         *)
(* A shard file is opened into a handle, an Arc<RwLock<ShardHandle>> that  *)
(* outlives its entry in the map while a thread holds it.  What a shard    *)
(* has of a prefix file is none, part, once or twice of the counts that    *)
(* the file sends to it.  A checkpoint() writes all a handle has; a sync   *)
(* of the WAL does not write lock-free counts (shard.rs:797-802).          *)
(***************************************************************************)
EXTENDS Naturals, Sequences, FiniteSets, SequencesExt

CONSTANTS
    Files,        \* the prefix files of the import
    Shards,       \* the shard keys
    KeyOf,        \* shard_key_for_file_prefix of each file
    Threads,      \* the workers
    Setups,       \* the configurations that a behaviour may start with
    MaxSessions,  \* bound: how often the process is started
    None

ASSUME FilesHaveKeys == KeyOf \in [Files -> Shards]
ASSUME FinitelyMany == IsFiniteSet(Shards) /\ IsFiniteSet(Threads)

(* hash: is the granularity CpuProportional?  spread: the shards that the  *)
(* n-grams of a file hash to, at least one.  cap: max_open_shards, 0 for   *)
(* no limit.                                                               *)
ASSUME SetupsAssumption ==
    Setups \subseteq
        [hash : BOOLEAN, spread : [Files -> (SUBSET Shards) \ {{}}],
         cap : Nat, workers : SUBSET Threads, errors : BOOLEAN]

VARIABLES
    setup,
    open,      \* shards: the open shards and their handles
    heap,      \* the handles that are referenced
    lru,       \* lru_tracker, least recently used first
    lock,      \* creation_locks: the thread that holds each
    disk,      \* the shard files
    records,   \* completed_prefixes of the records in the global checkpoint
    saved,     \* global_checkpoint.json
    pc,        \* where each worker stands
    file,      \* the file it imports
    goal,      \* the shard it asked get_or_create_shard for
    left,      \* the shards that still get counts of its file
    arc,       \* the handle it holds
    victim,    \* the key that maybe_evict_shard peeked
    evicted,   \* the handle it removed from the map
    tried,     \* files handed to a worker in this session
    results,   \* outcomes the main task has not seen: files by outcome
    ledger,    \* the importer's checkpoint
    ledgerSaved,
    main,      \* where the main task stands
    todo,      \* the shards its checkpoint has yet to visit
    collected, \* the states it has collected from the others
    session

cache   == <<open, heap, lru, lock>>
durable == <<disk, saved, ledgerSaved>>
work    == <<pc, file, goal, left, arc, victim, evicted>>
import  == <<tried, results, ledger>>
saving  == <<main, todo, collected>>
vars    == <<setup, cache, durable, records, work, import, saving, session>>

Contents == {"none", "part", "once", "twice"}
Whole    == {"once", "twice"}
Ids      == 1 .. (Cardinality(Shards) + 2 * Cardinality(Threads))
Images   == [cnt : [Files -> Contents], done : SUBSET Files]
Handles  == [key : Shards, cnt : [Files -> Contents], done : SUBSET Files,
             dirty : BOOLEAN]

ASSUME NoneIsNothing ==
    /\ None \notin Nat /\ None \notin Files
    /\ None \notin Shards /\ None \notin Threads
    /\ None \notin Images /\ None \notin Handles
    /\ \A done \in SUBSET Files : done # None

Creating == {"evict", "remove", "save", "pop", "open", "insert", "touch"}
PCs      == {"idle", "want", "lock", "have", "record"} \cup Creating

NoCounts == [f \in Files |-> "none"]
NewShard == [cnt |-> NoCounts, done |-> {}]

\* The shards that get counts of file f.  A file of a prefix granularity is
\* imported through transactions on one shard.
Targets(f) == IF setup.hash THEN setup.spread[f] ELSE {KeyOf[f]}

IsOpen(k) == open[k] # None
OpenKeys  == {k \in Shards : IsOpen(k)}

\* The handles that the map, the threads and the evictions reference.
Live(o, a, e) == ({o[k] : k \in Shards} \cup {a[t] : t \in Threads}
                    \cup {e[t] : t \in Threads}) \ {None}

\* The last reference to a handle closes it.
Closed(h, live) == [i \in Ids |-> IF i \in live THEN h[i] ELSE None]

FreeId == CHOOSE i \in Ids : heap[i] = None

\* ShardHandle::open: load_checkpoint_state reads the completed prefixes.
Loaded(k, image) == [key |-> k, cnt |-> image.cnt, done |-> image.done,
                     dirty |-> FALSE]

\* What checkpoint() writes.
Image(h) == [cnt |-> h.cnt, done |-> h.done]

\* What a sync of the WAL writes: transactions, but no lock-free counts.
Logged(h) == [cnt  |-> IF setup.hash THEN disk[h.key].cnt ELSE h.cnt,
              done |-> h.done]

Init ==
    /\ setup \in Setups
    /\ open = [k \in Shards |-> None]
    /\ heap = [i \in Ids |-> None]
    /\ lru = <<>>
    /\ lock = [k \in Shards |-> None]
    /\ disk = [k \in Shards |-> None]
    /\ records = [k \in Shards |-> None]
    /\ saved = None
    /\ pc = [t \in Threads |-> "idle"]
    /\ file = [t \in Threads |-> None]
    /\ goal = [t \in Threads |-> None]
    /\ left = [t \in Threads |-> {}]
    /\ arc = [t \in Threads |-> None]
    /\ victim = [t \in Threads |-> None]
    /\ evicted = [t \in Threads |-> None]
    /\ tried = {}
    /\ results = [ok |-> {}, failed |-> {}]
    /\ ledger = [f \in Files |-> "none"]
    /\ ledgerSaved = ledger
    /\ main = "idle"
    /\ todo = {}
    /\ collected = [k \in Shards |-> None]
    /\ session = 1

---------------------------------------------------------------------------
(* get_or_create_shard, one lock-protected step at a time. *)

Goto(t, from, to) == pc[t] = from /\ pc' = [pc EXCEPT ![t] = to]

\* touch_lru: get_or_insert promotes a key that is there; a new key pushes
\* the oldest out of a full cache.
Touched(k) ==
    IF setup.cap = 0 THEN lru
    ELSE IF Contains(lru, k)
    THEN LET i == CHOOSE i \in DOMAIN lru : lru[i] = k
         IN  Append(RemoveAt(lru, i), k)
    ELSE Append(IF Len(lru) >= setup.cap THEN Tail(lru) ELSE lru, k)


\* A thread that finds the shard open takes a reference to its handle.
TakeArc(t) ==
    /\ IsOpen(goal[t])
    /\ arc' = [arc EXCEPT ![t] = open[goal[t]]]
    /\ heap' = Closed(heap, Live(open, arc', evicted))
    /\ lru' = Touched(goal[t])
    /\ UNCHANGED <<open, lock, disk, victim, evicted>>

FastPath(t) == Goto(t, "want", "have") /\ TakeArc(t)

SlowPath(t) ==
    /\ Goto(t, "want", "lock")
    /\ ~IsOpen(goal[t])
    /\ UNCHANGED <<cache, disk, arc, victim, evicted>>

\* The second look, under the creation lock of the key.
FoundAfterAll(t) ==
    /\ Goto(t, "lock", "have")
    /\ lock[goal[t]] = None
    /\ TakeArc(t)


\* Mutant of StartCreating: two threads create the same shard.
StartCreatingUnlocked(t) ==
    /\ Goto(t, "lock", "evict")
    /\ ~IsOpen(goal[t])
    /\ UNCHANGED <<cache, disk, arc, victim, evicted>>

StartCreating(t) ==
    /\ Goto(t, "lock", "evict")
    /\ lock[goal[t]] = None
    /\ ~IsOpen(goal[t])
    /\ lock' = [lock EXCEPT ![goal[t]] = t]
    /\ UNCHANGED <<open, heap, lru, disk, arc, victim, evicted>>


\* Mutant of MustEvict: off by one.
MustEvictLate == setup.cap > 0 /\ Len(lru) > setup.cap

MustEvict == setup.cap > 0 /\ Len(lru) >= setup.cap

NoEviction(t) ==
    /\ Goto(t, "evict", "open")
    /\ ~MustEvict
    /\ UNCHANGED <<cache, disk, arc, victim, evicted>>

\* maybe_evict_shard peeks the oldest key and drops the lock of the tracker.
PeekLru(t) ==
    /\ Goto(t, "evict", "remove")
    /\ MustEvict
    /\ victim' = [victim EXCEPT ![t] = Head(lru)]
    /\ UNCHANGED <<cache, disk, arc, evicted>>

RemoveVictim(t) ==
    /\ Goto(t, "remove", IF IsOpen(victim[t]) THEN "save" ELSE "pop")
    /\ open' = [open EXCEPT ![victim[t]] = None]
    /\ evicted' = [evicted EXCEPT ![t] = open[victim[t]]]
    /\ UNCHANGED <<heap, lru, lock, disk, arc, victim>>

\* The checkpoint of the evicted shard; an error of it is only logged.
SaveVictim(t) ==
    /\ Goto(t, "save", "pop")
    /\ \/ disk' = [disk EXCEPT ![victim[t]] = Image(heap[evicted[t]])]
       \/ setup.errors /\ UNCHANGED disk
    /\ evicted' = [evicted EXCEPT ![t] = None]
    /\ heap' = Closed(heap, Live(open, arc, evicted'))
    /\ UNCHANGED <<open, lru, lock, arc, victim>>

\* pop_lru takes whatever key is the oldest by now.
PopLru(t) ==
    /\ Goto(t, "pop", "open")
    /\ lru' = IF lru = <<>> THEN lru ELSE Tail(lru)
    /\ victim' = [victim EXCEPT ![t] = None]
    /\ UNCHANGED <<open, heap, lock, disk, arc, evicted>>

\* ShardHandle::open_or_create.
OpenOrCreate(t) ==
    LET k == goal[t]
        image == IF disk[k] = None THEN NewShard ELSE disk[k] IN
    /\ Goto(t, "open", "insert")
    /\ disk' = [disk EXCEPT ![k] = image]
    /\ arc' = [arc EXCEPT ![t] = FreeId]
    /\ heap' = Closed([heap EXCEPT ![FreeId] = Loaded(k, image)],
                      Live(open, arc', evicted))
    /\ UNCHANGED <<open, lru, lock, victim, evicted>>

InsertShard(t) ==
    /\ Goto(t, "insert", "touch")
    /\ open' = [open EXCEPT ![goal[t]] = arc[t]]
    /\ heap' = Closed(heap, Live(open', arc, evicted))
    /\ UNCHANGED <<lru, lock, disk, arc, victim, evicted>>

TouchNew(t) ==
    /\ Goto(t, "touch", "have")
    /\ lru' = Touched(goal[t])
    /\ lock' = [lock EXCEPT ![goal[t]] = None]
    /\ UNCHANGED <<open, heap, disk, arc, victim, evicted>>

GetOrCreate(t) ==
    /\ \/ FastPath(t) \/ SlowPath(t) \/ FoundAfterAll(t) \/ StartCreating(t)
       \/ NoEviction(t) \/ PeekLru(t) \/ RemoveVictim(t) \/ SaveVictim(t)
       \/ PopLru(t) \/ OpenOrCreate(t) \/ InsertShard(t) \/ TouchNew(t)
    /\ UNCHANGED <<setup, saved, ledgerSaved, records, file, goal, left,
                   import, saving, session>>

---------------------------------------------------------------------------
(* process_single_attempt: one file through one worker. *)

\* The first shard that the worker asks for.
Ask(t, f) ==
    /\ goal' = [goal EXCEPT ![t] = CHOOSE k \in Targets(f) : TRUE]
    /\ left' = [left EXCEPT ![t] = Targets(f)]

StartFile(t, f) ==
    /\ t \in setup.workers
    /\ f \notin tried
    /\ ledger[f] # "Completed"
    /\ Goto(t, "idle", "want")
    /\ tried' = tried \cup {f}
    /\ file' = [file EXCEPT ![t] = f]
    /\ Ask(t, f)
    /\ UNCHANGED <<setup, cache, durable, records, arc, victim, evicted,
                   results, ledger, saving, session>>

\* What thread t does to the handle it holds.
Write(t, h) == heap' = [heap EXCEPT ![arc[t]] = h]

More(c) == IF c = "none" THEN "once" ELSE "twice"

\* The worker is through with its file.
Ends(t, outcome) ==
    /\ pc' = [pc EXCEPT ![t] = "idle"]
    /\ file' = [file EXCEPT ![t] = None]
    /\ goal' = [goal EXCEPT ![t] = None]
    /\ left' = [left EXCEPT ![t] = {}]
    /\ arc' = [arc EXCEPT ![t] = None]
    /\ results' = [results EXCEPT ![outcome] = @ \cup {file[t]}]

\* store_in_shard: the counts of the file for one shard; the next n-gram
\* belongs to another.
Increment(t) ==
    LET h == heap[arc[t]]
        rest == left[t] \ {goal[t]}
        counted == [h EXCEPT !.cnt[file[t]] = More(@), !.dirty = TRUE] IN
    /\ setup.hash
    /\ pc[t] = "have"
    /\ IF rest # {}
       THEN /\ pc' = [pc EXCEPT ![t] = "want"]
            /\ left' = [left EXCEPT ![t] = rest]
            /\ goal' = [goal EXCEPT ![t] = CHOOSE k \in rest : TRUE]
            /\ arc' = [arc EXCEPT ![t] = None]
            /\ UNCHANGED <<file, results>>
       ELSE Ends(t, "ok")
    /\ heap' = Closed([heap EXCEPT ![arc[t]] = counted],
                      Live(open, arc', evicted))
    /\ UNCHANGED <<setup, open, lru, lock, durable, records, victim, evicted,
                   tried, ledger, saving, session>>

\* commit_and_renew_prefix_tx: a chunk is committed, and a transaction begun
\* for the next while the old one still holds its handle.
CommitChunk(t) ==
    LET h == heap[arc[t]] IN
    /\ ~setup.hash
    /\ Goto(t, "have", "want")
    /\ left[t] # {}                    \* bound: one chunk per attempt
    /\ left' = [left EXCEPT ![t] = {}]
    /\ Write(t, [h EXCEPT !.cnt[file[t]] = IF @ = "none" THEN "part" ELSE @,
                          !.dirty = TRUE])
    /\ UNCHANGED <<setup, open, lru, lock, durable, records, file, goal, arc,
                   victim, evicted, import, saving, session>>


\* Mutant of CommitPrefix: the prefix is recorded before its n-grams.
CommitPrefixEarly(t) ==
    LET h == heap[arc[t]]
        done == [h EXCEPT !.done = @ \cup {file[t]}] IN
    /\ ~setup.hash
    /\ Goto(t, "have", "record")
    /\ Write(t, [done EXCEPT !.cnt[file[t]] = "once", !.dirty = TRUE])
    /\ disk' = [disk EXCEPT ![h.key] = Logged(done)]
    /\ UNCHANGED <<setup, open, lru, lock, saved, ledgerSaved, records, file,
                   goal, left, arc, victim, evicted, import, saving, session>>

\* ShardHandle::commit_prefix, under the exclusive guard.
CommitPrefix(t) ==
    LET h == heap[arc[t]]
        whole == [h EXCEPT !.cnt[file[t]] = "once",
                           !.done = @ \cup {file[t]}] IN
    /\ ~setup.hash
    /\ Goto(t, "have", "record")
    /\ Write(t, [whole EXCEPT !.dirty = TRUE])
    /\ disk' = [disk EXCEPT ![h.key] = Logged(whole)]
    /\ UNCHANGED <<setup, open, lru, lock, saved, ledgerSaved, records, file,
                   goal, left, arc, victim, evicted, import, saving, session>>

\* The transaction is applied, but its state cannot be persisted.
CommitPrefixPersistFails(t) ==
    LET h == heap[arc[t]] IN
    /\ ~setup.hash /\ setup.errors
    /\ pc[t] = "have"
    /\ Ends(t, "failed")
    /\ heap' = Closed([heap EXCEPT ![arc[t]] =
                          [h EXCEPT !.cnt[file[t]] = "once",
                                    !.done = @ \cup {file[t]}]],
                      Live(open, arc', evicted))
    /\ UNCHANGED <<setup, open, lru, lock, durable, records, victim, evicted,
                   tried, ledger, saving, session>>

\* GlobalCheckpoint::complete_prefix knows only shards that have a record.
WithPrefix(k, f) ==
    IF records[k] = None THEN records
    ELSE [records EXCEPT ![k] = @ \cup {f}]

\* The end of commit_prefix_tx; without save, an error.
RecordPrefix(t) ==
    /\ pc[t] = "record"
    /\ records' = WithPrefix(goal[t], file[t])
    /\ \/ saved' = records' /\ Ends(t, "ok")
       \/ setup.errors /\ UNCHANGED saved /\ Ends(t, "failed")
    /\ heap' = Closed(heap, Live(open, arc', evicted))
    /\ UNCHANGED <<setup, open, lru, lock, disk, ledgerSaved, victim, evicted,
                   tried, ledger, saving, session>>

\* The download or a store fails; the transaction is aborted, and the worker
\* tries the file again or gives up.
FailFile(t) ==
    /\ setup.errors
    /\ pc[t] = "have"
    /\ \/ Ends(t, "failed")
       \/ /\ Goto(t, "have", "want")
          /\ Ask(t, file[t])
          /\ arc' = [arc EXCEPT ![t] = None]
          /\ UNCHANGED <<file, results>>
    /\ heap' = Closed(heap, Live(open, arc', evicted))
    /\ UNCHANGED <<setup, open, lru, lock, durable, records, victim, evicted,
                   tried, ledger, saving, session>>

Worker(t) ==
    \/ \E f \in Files : StartFile(t, f)
    \/ GetOrCreate(t) \/ Increment(t) \/ CommitChunk(t) \/ CommitPrefix(t)
    \/ CommitPrefixPersistFails(t) \/ RecordPrefix(t) \/ FailFile(t)

---------------------------------------------------------------------------
(* The main task: results, and the checkpoint of all shards. *)

\* A result is taken: the ledger entry, then mark_prefix_completed, which
\* reaches the shard only while it is open; its error is only logged.
MarkCompleted(f) ==
    LET k == KeyOf[f]
        marked == [heap[open[k]] EXCEPT !.done = @ \cup {f}] IN
    /\ main = "idle"
    /\ f \in results.ok
    /\ results' = [results EXCEPT !.ok = @ \ {f}]
    /\ ledger' = [ledger EXCEPT ![f] = "Completed"]
    /\ heap' = IF IsOpen(k) THEN [heap EXCEPT ![open[k]] = marked] ELSE heap
    /\ \/ /\ disk' = IF IsOpen(k) THEN [disk EXCEPT ![k] = Logged(marked)]
                     ELSE disk
          /\ records' = WithPrefix(k, f)
          /\ saved' \in {saved, records'}              \* maybe_save
       \/ setup.errors /\ UNCHANGED <<disk, records, saved>>
    /\ UNCHANGED <<setup, open, lru, lock, ledgerSaved, work, tried, saving,
                   session>>

MarkFailed(f) ==
    /\ main = "idle"
    /\ f \in results.failed
    /\ results' = [results EXCEPT !.failed = @ \ {f}]
    /\ ledger' = [ledger EXCEPT ![f] = "Failed"]
    /\ UNCHANGED <<setup, cache, durable, records, work, tried, saving,
                   session>>

\* flush_lockfree_over_threshold between two results.
FlushShard(k) ==
    /\ main = "idle"
    /\ setup.hash
    /\ IsOpen(k)
    /\ disk' = [disk EXCEPT ![k].cnt = heap[open[k]].cnt]
    /\ UNCHANGED <<setup, cache, saved, ledgerSaved, records, work, import,
                   saving, session>>

\* The WALs are rotated and synced, then the keys of the open shards listed.
StartCheckpoint ==
    /\ main = "idle"
    /\ main' = "visit"
    /\ todo' = OpenKeys
    /\ UNCHANGED <<setup, cache, durable, records, work, import, collected,
                   session>>

Visited(k) == main = "visit" /\ k \in todo /\ todo' = todo \ {k}

\* A shard that has been evicted since is passed over.
SkipShard(k) ==
    /\ Visited(k)
    /\ ~IsOpen(k)
    /\ UNCHANGED <<setup, cache, durable, records, work, import, main,
                   collected, session>>


\* Mutant of VisitShard: the state is collected, and nothing written.
VisitShardOnly(k) ==
    /\ Visited(k)
    /\ IsOpen(k)
    /\ collected' = [collected EXCEPT ![k] = heap[open[k]].done]
    /\ UNCHANGED <<setup, cache, durable, records, work, import, main,
                   session>>

\* A dirty shard is checkpointed; a clean one only gives its state.
VisitShard(k) ==
    LET h == heap[open[k]] IN
    /\ Visited(k)
    /\ IsOpen(k)
    /\ disk' = IF h.dirty THEN [disk EXCEPT ![k] = Image(h)] ELSE disk
    /\ collected' = [collected EXCEPT ![k] = h.done]
    /\ UNCHANGED <<setup, cache, saved, ledgerSaved, records, work, import,
                   main, session>>

\* The others are visited and published, but the checkpoint returns an error.
VisitFails(k) ==
    /\ setup.errors
    /\ Visited(k)
    /\ IsOpen(k) /\ heap[open[k]].dirty
    /\ main' = "visitErr"
    /\ UNCHANGED <<setup, cache, durable, records, work, import, collected,
                   session>>

\* What was collected replaces the records, whatever they have got since.
Publish ==
    /\ \/ main = "visit" /\ todo = {} /\ main' = "ledger"
       \/ main = "visitErr" /\ main' = "idle"
    /\ records' = [k \in Shards |-> IF collected[k] = None THEN records[k]
                                    ELSE collected[k]]
    /\ saved' = records'
    /\ todo' = {}
    /\ collected' = [k \in Shards |-> None]
    /\ UNCHANGED <<setup, cache, disk, ledgerSaved, work, import, session>>

\* save_import_checkpoint, after everything else went well.
SaveLedger ==
    /\ main = "ledger"
    /\ main' = "idle"
    /\ ledgerSaved' = ledger
    /\ UNCHANGED <<setup, cache, disk, saved, records, work, import, todo,
                   collected, session>>

MainTask ==
    \/ \E f \in Files : MarkCompleted(f) \/ MarkFailed(f)
    \/ \E k \in Shards :
          FlushShard(k) \/ SkipShard(k) \/ VisitShard(k) \/ VisitFails(k)
    \/ StartCheckpoint \/ Publish \/ SaveLedger

---------------------------------------------------------------------------
(* The process dies, and resume_or_start opens what it left. *)

\* Of what a handle has in its WAL, unsynced, any prefix may survive.
Survivors(k) ==
    {disk[k]} \cup UNION {
        {Logged(heap[i]), [Logged(heap[i]) EXCEPT !.done = disk[k].done]} :
            i \in {j \in Ids : heap[j] # None /\ heap[j].key = k}}


\* Mutant of Recovered: an existing global checkpoint is taken as it is.
RecoveredFromFile(found) ==
    [k \in Shards |-> IF saved # None THEN saved[k]
                      ELSE IF found[k] = None THEN None ELSE found[k].done]

\* open_with_checkpoints adds the prefixes of the shards to the records;
\* recover_from_shards has nothing else.
Recovered(found) ==
    [k \in Shards |->
        LET old == IF saved = None THEN None ELSE saved[k] IN
        IF found[k] = None THEN old
        ELSE found[k].done \cup (IF old = None THEN {} ELSE old)]

\* The shard files in the order of the directory; the last ones stay open.
Reopened(found, order) ==
    LET kept == IF setup.cap = 0 \/ Len(order) <= setup.cap THEN order
                ELSE SubSeq(order, Len(order) - setup.cap + 1, Len(order))
        IdOf(k) == CHOOSE i \in 1 .. Len(kept) : kept[i] = k IN
    /\ open' = [k \in Shards |-> IF Contains(kept, k) THEN IdOf(k) ELSE None]
    /\ heap' = [i \in Ids |-> IF i > Len(kept) THEN None
                              ELSE Loaded(kept[i], found[kept[i]])]
    /\ lru' = IF setup.cap = 0 THEN <<>> ELSE kept

\* A file that no shard knows to be complete is failed.
Reconciled(f) ==
    IF ledgerSaved[f] = "Completed" /\ \A k \in Shards :
            records'[k] = None \/ f \notin records'[k]
    THEN "Failed" ELSE ledgerSaved[f]

Restart ==
    /\ session < MaxSessions
    /\ session' = session + 1
    /\ \E found \in [Shards -> UNION {Survivors(k) : k \in Shards}] :
       /\ \A k \in Shards : found[k] \in Survivors(k)
       /\ disk' = found
       /\ records' = Recovered(found)
       /\ saved' = IF \A k \in Shards : found[k] = None THEN saved ELSE records'
       /\ \E order \in SetToSeqs({k \in Shards : found[k] # None}) :
             Reopened(found, order)
    /\ ledger' = [f \in Files |-> Reconciled(f)]
    /\ lock' = [k \in Shards |-> None]
    /\ pc' = [t \in Threads |-> "idle"]
    /\ file' = [t \in Threads |-> None]
    /\ goal' = file'
    /\ left' = [t \in Threads |-> {}]
    /\ arc' = file'
    /\ victim' = file'
    /\ evicted' = file'
    /\ tried' = {}
    /\ results' = [ok |-> {}, failed |-> {}]
    /\ main' = "idle"
    /\ todo' = {}
    /\ collected' = [k \in Shards |-> None]
    /\ UNCHANGED <<setup, ledgerSaved>>

Next == (\E t \in Threads : Worker(t)) \/ MainTask \/ Restart

Spec == Init /\ [][Next]_vars

---------------------------------------------------------------------------
(* Properties. *)

\* Every variable has its type.
TypeOK ==
    /\ setup \in Setups
    /\ open \in [Shards -> Ids \cup {None}]
    /\ heap \in [Ids -> Handles \cup {None}]
    /\ lru \in Seq(Shards)
    /\ lock \in [Shards -> Threads \cup {None}]
    /\ disk \in [Shards -> Images \cup {None}]
    /\ records \in [Shards -> (SUBSET Files) \cup {None}]
    /\ saved \in [Shards -> (SUBSET Files) \cup {None}] \cup {None}
    /\ pc \in [Threads -> PCs]
    /\ file \in [Threads -> Files \cup {None}]
    /\ goal \in [Threads -> Shards \cup {None}]
    /\ left \in [Threads -> SUBSET Shards]
    /\ arc \in [Threads -> Ids \cup {None}]
    /\ victim \in [Threads -> Shards \cup {None}]
    /\ evicted \in [Threads -> Ids \cup {None}]
    /\ tried \subseteq Files
    /\ results \in [{"ok", "failed"} -> SUBSET Files]
    /\ ledger \in [Files -> {"none", "Completed", "Failed"}]
    /\ ledgerSaved \in [Files -> {"none", "Completed", "Failed"}]
    /\ main \in {"idle", "visit", "visitErr", "ledger"}
    /\ todo \subseteq Shards
    /\ collected \in [Shards -> (SUBSET Files) \cup {None}]
    /\ session \in Nat

\* No shard is evicted, or only by the worker that works alone.  With more
\* workers under a limit, a shard may be evicted and opened again while a
\* worker still holds its first handle.
EvictsAlone(s) == s.cap = 0 \/ \A t, u \in s.workers : t = u

OneHandleEach ==
    \A i, j \in Ids :
        heap[i] # None /\ heap[j] # None /\ heap[i].key = heap[j].key => i = j

\* No shard file is open through two handles at a time, whichever threads
\* ask for it and whatever a single worker evicts meanwhile: two tries over one
\* file overwrite each other's images.
OneHandlePerFile == EvictsAlone(setup) => OneHandleEach

\* With a limit, no more shards are open than it allows, and while nothing is
\* being created the tracker holds the open shards and no other: a shard that
\* it forgot would never be evicted.  With several workers it takes OneCreates
\* and TrackerRests.
EvictionKeepsUp ==
    setup.cap > 0 =>
        /\ Cardinality(OpenKeys) <= setup.cap
        /\ (\A t \in Threads : pc[t] \notin Creating) => ToSet(lru) = OpenKeys

Evicting == \E t \in Threads : pc[t] \in {"remove", "save", "pop"}

\* What the locks of the code do not see to, and EvictionKeepsUp needs: the
\* creations of two shards do not overlap, and from the peek of an eviction to
\* its pop no other thread touches the tracker.
OneCreates   == \A t, u \in Threads : {pc[t], pc[u]} \subseteq Creating => t = u
TrackerRests == Evicting /\ Evicting' => lru' = lru

\* With transactions, a shard file that records a prefix as complete has all
\* its n-grams, whatever commit, eviction or crash came last (EvictsAlone).
CompletedPrefixIsWhole ==
    EvictsAlone(setup) /\ ~setup.hash =>
        \A k \in Shards : disk[k] # None =>
            \A f \in disk[k].done : disk[k].cnt[f] = "once"

\* A file that the saved ledger has as completed is on the disk in every
\* shard that gets counts of it: no later session imports it again
\* (EvictsAlone).
LedgerIsDurable ==
    EvictsAlone(setup) =>
        \A f \in Files : ledgerSaved[f] = "Completed" =>
            \A k \in Targets(f) : disk[k] # None /\ disk[k].cnt[f] \in Whole

\* The comparison of ledger and shards at the next start takes back no file
\* whose completion had been saved: the shards know of all of them
\* (EvictsAlone).
ReconcileKeepsWork ==
    [][EvictsAlone(setup) /\ session' # session => \A f \in Files :
          ledgerSaved[f] = "Completed" => ledger'[f] = "Completed"]_vars
===========================================================================
