---------------------------- MODULE CheckpointTrie ----------------------------
(***************************************************************************)
(* The import checkpoint on its way to disk and back: checkpoint.rs and    *)
(* the part of GoogleBooksImporter::resume_or_start that loads it.         *)
(*                                                                         *)
(* A ledger is written into the checkpoint trie key by key, under the      *)
(* trie's write lock, by the importer or by the periodic checkpoint, which *)
(* holds a ledger of its own.  A crash keeps what the trie has logged, so  *)
(* it may fall between two keys.  A 64-bit word of the bitmap is the       *)
(* function of its two-bit fields; the keys of counters are left out.      *)
(***************************************************************************)
EXTENDS Naturals

CONSTANTS
    Files,          \* a prefix of an order
    Orders,
    OrderOf,        \* Files -> Orders
    Index,          \* prefix_to_index; "other" and "punctuation" have none
    PerChunk,       \* PREFIXES_PER_CHUNK
    NumChunks,      \* num_chunks_for_prefix_len
    OldCheckpoints, \* ledgers that older versions of the program have left
    Periodic,       \* run_import_with_periodic_checkpoints is used
    MaxSessions,    \* bound on the number of times the program is started
    None            \* no file, nobody

Indexed == DOMAIN Index

Chunk(f) == Index[f] \div PerChunk
Field(f) == Index[f] % PerChunk

PrefixState == {"NotStarted", "InProgress", "Completed", "Failed"}

Ledgers == [state : [Files -> PrefixState], complete : SUBSET Orders]

ASSUME FilesAssumption ==
    /\ OrderOf \in [Files -> Orders]
    /\ Indexed \subseteq Files
    /\ Index \in [Indexed -> Nat]
    /\ OldCheckpoints \subseteq Ledgers
    /\ None \notin Ledgers \cup Orders \cup {"importer", "cron"}
    /\ Periodic \in BOOLEAN
    /\ MaxSessions \in Nat

ASSUME ChunksAssumption ==
    /\ PerChunk \in Nat \ {0}
    /\ NumChunks \in Nat
    /\ \A f \in Indexed : Chunk(f) \in 0..NumChunks - 1 /\ Field(f) \in 0..PerChunk - 1
    /\ \A f, g \in Indexed :
          OrderOf[f] = OrderOf[g] /\ Chunk(f) = Chunk(g) /\ Field(f) = Field(g) => f = g

VARIABLES
    phase,    \* of the program: down, migrating, importing or returning
    ledger,   \* GoogleBooksImporter.checkpoint
    snapshot, \* CheckpointState.checkpoint
    trie,     \* the checkpoint trie
    disk,     \* what of it a crash keeps
    json,     \* the checkpoint file of older versions
    saver,    \* who holds the lock of the trie for a save
    stage,    \* of the save
    rest,     \* the orders it has not begun to write
    at,       \* the order whose chunks it writes
    chunk,    \* the next of them
    done,     \* files that were ever done in a ledger
    resumed,  \* files that were done in the ledger this session started with
    source,   \* where that ledger came from
    sessions  \* number of starts

save == <<saver, stage, rest, at, chunk>>
past == <<done, resumed, source, sessions>>
vars == <<phase, ledger, snapshot, trie, disk, json, save, past>>

---------------------------------------------------------------------------
(* Keys and values. *)

Empty == [state |-> [f \in Files |-> "NotStarted"], complete |-> {}]

Words == [0..PerChunk - 1 -> 0..3]

Tries == [version : {0, 2, 3},
          complete : SUBSET Orders,
          bitmap : [Orders -> [0..NumChunks - 1 -> Words]],
          status : [Files -> 0..3]]

Zero == [i \in 0..PerChunk - 1 |-> 0]

EmptyTrie == [version |-> 0,
              complete |-> {},
              bitmap |-> [o \in Orders |-> [c \in 0..NumChunks - 1 |-> Zero]],
              status |-> [f \in Files |-> 0]]

\* The bits of a state in the bitmap, and the status code of version 2.
Bits == [NotStarted |-> 0, InProgress |-> 1, Completed |-> 2, Failed |-> 3]
StatusCode == [NotStarted |-> 0, Completed |-> 1, InProgress |-> 2, Failed |-> 3]

\* pack_states: chunk c of an order.
Pack(state, o, c) ==
    [i \in 0..PerChunk - 1 |->
        IF \E f \in Indexed : OrderOf[f] = o /\ Chunk(f) = c /\ Field(f) = i
        THEN Bits[state[CHOOSE f \in Indexed :
                            OrderOf[f] = o /\ Chunk(f) = c /\ Field(f) = i]]
        ELSE 0]

Decode(code, value) == CHOOSE s \in PrefixState : code[s] = value

\* unpack_states
Unpack(bitmap) ==
    [f \in Files |->
        IF f \in Indexed
        THEN Decode(Bits, bitmap[OrderOf[f]][Chunk(f)][Field(f)])
        ELSE "NotStarted"]

\* Mutant of LoadV2: the status codes are read as bits.
LoadV2AsBits(t) == [state |-> [f \in Files |-> Decode(Bits, t.status[f])],
                    complete |-> t.complete]

LoadV2(t) == [state |-> [f \in Files |-> Decode(StatusCode, t.status[f])],
              complete |-> t.complete]

LoadV3(t) == [state |-> Unpack(t.bitmap), complete |-> t.complete]

\* load_from_trie
Load(t) == IF t.version >= 3 THEN LoadV3(t) ELSE LoadV2(t)

\* What resume_or_start would load.
Loaded(t, file) ==
    IF t.version # 0 THEN Load(t) ELSE IF file # None THEN file ELSE Empty

\* recover_in_progress_as_failed, of every order.
Recover(l) ==
    [l EXCEPT !.state = [f \in Files |->
        IF l.state[f] = "InProgress" THEN "Failed" ELSE l.state[f]]]

\* The trie as version 2 wrote it.
V2Trie(l) == [EmptyTrie EXCEPT !.version = 2,
                               !.complete = l.complete,
                               !.status = [f \in Files |-> StatusCode[l.state[f]]]]

Completed(l) == {f \in Files : l.state[f] = "Completed"}

\* Files that no session will import again.
Done(l) == Completed(l) \cup {f \in Files : OrderOf[f] \in l.complete}

needs_prefix(l, f) ==
    OrderOf[f] \notin l.complete /\ l.state[f] \in {"NotStarted", "Failed"}

---------------------------------------------------------------------------
Init ==
    /\ phase = "down"
    /\ ledger = Empty
    /\ snapshot = Empty
    /\ \/ disk = EmptyTrie /\ json = None /\ done = {}
       \/ \E l \in OldCheckpoints :
             /\ done = Done(l)
             /\ \/ disk = EmptyTrie /\ json = l
                \/ disk = V2Trie(l) /\ json = None
    /\ trie = disk
    /\ saver = None
    /\ stage = "idle"
    /\ rest = {}
    /\ at = None
    /\ chunk = 0
    /\ resumed = {}
    /\ source = 0
    /\ sessions = 0

---------------------------------------------------------------------------
(* Start and end of a session. *)

Start(l) ==
    /\ phase = "down"
    /\ sessions < MaxSessions
    /\ ledger' = Recover(l)
    /\ snapshot' = Recover(l)
    /\ resumed' = Done(l)
    /\ sessions' = sessions + 1

BeginSave(who) ==
    /\ saver = None
    /\ saver' = who
    /\ stage' = "version"
    /\ rest' = Orders
    /\ UNCHANGED <<at, chunk>>

ResumeFromTrie ==
    /\ trie.version # 0
    /\ Start(Load(trie))
    /\ source' = trie.version
    /\ json' = None
    /\ phase' = "import"
    /\ UNCHANGED <<trie, disk, save, done>>

\* The ledger in the file is migrated into the trie.
ResumeFromJson ==
    /\ trie.version = 0
    /\ json # None
    /\ Start(json)
    /\ source' = 1
    /\ phase' = "migrate"
    /\ BeginSave("importer")
    /\ UNCHANGED <<trie, disk, json, done>>

StartAfresh ==
    /\ trie.version = 0
    /\ json = None
    /\ Start(Empty)
    /\ source' = 3
    /\ phase' = "import"
    /\ UNCHANGED <<trie, disk, json, save, done>>

NoSave ==
    /\ saver' = None
    /\ stage' = "idle"
    /\ rest' = {}
    /\ at' = None
    /\ chunk' = 0

\* The program dies, or exits.
Crash ==
    /\ phase # "down"
    /\ phase' = "down"
    /\ trie' = disk
    /\ NoSave
    /\ ledger' = Empty
    /\ snapshot' = Empty
    /\ resumed' = {}
    /\ UNCHANGED <<disk, json, done, source, sessions>>

\* cleanup_checkpoint, at the end of finalize, whatever the ledger says.
Cleanup ==
    /\ phase = "import"
    /\ saver = None
    /\ json' = None
    /\ trie' = EmptyTrie
    /\ phase' = "returning"
    /\ UNCHANGED <<ledger, snapshot, disk, save, past>>

Importing == phase = "import" /\ saver # "importer"

\* The import returns unfinished: it was interrupted, or has failed.
Return ==
    /\ Importing
    /\ phase' = "returning"
    /\ UNCHANGED <<ledger, snapshot, trie, disk, json, save, past>>

---------------------------------------------------------------------------
(* What the import does to its ledger. *)

SetState(f, s) ==
    /\ ledger' = [ledger EXCEPT !.state[f] = s]
    /\ done' = done \cup Done(ledger')
    /\ UNCHANGED <<phase, snapshot, trie, disk, json, save, resumed, source, sessions>>

complete_prefix(f) ==
    /\ Importing
    /\ ledger.state[f] \in {"NotStarted", "Failed"}
    /\ SetState(f, "Completed")

fail_prefix(f) ==
    /\ Importing
    /\ ledger.state[f] = "NotStarted"
    /\ SetState(f, "Failed")

clear_failed(f) ==
    /\ Importing
    /\ ledger.state[f] = "Failed"
    /\ SetState(f, "NotStarted")

complete_order(o) ==
    /\ Importing
    /\ \A f \in Files : OrderOf[f] = o => ledger.state[f] # "InProgress"
    /\ ledger' = [ledger EXCEPT !.complete = @ \cup {o}]
    /\ done' = done \cup Done(ledger')
    /\ UNCHANGED <<phase, snapshot, trie, disk, json, save, resumed, source, sessions>>

---------------------------------------------------------------------------
(* A save: save_import_checkpoint. *)

Image == IF saver = "cron" THEN snapshot ELSE ledger

\* The importer saves while it imports, and run_import_with_periodic_checkpoints
\* once more when the import has returned and the scheduler has been joined.
SaveByImporter ==
    /\ \/ phase = "import"
       \/ phase = "returning" /\ Periodic
    /\ phase' = IF phase = "returning" THEN "final" ELSE phase
    /\ BeginSave("importer")
    /\ UNCHANGED <<ledger, snapshot, trie, disk, json, past>>

\* CheckpointState::perform_checkpoint
SaveByCron ==
    /\ Periodic
    /\ phase \in {"import", "returning"}
    /\ BeginSave("cron")
    /\ UNCHANGED <<phase, ledger, snapshot, trie, disk, json, past>>

\* Mutant of WriteVersion: the keys of the last save are removed first.
WriteVersionAnew ==
    /\ stage = "version"
    /\ trie' = [EmptyTrie EXCEPT !.version = 3]
    /\ stage' = "orders"
    /\ UNCHANGED <<phase, ledger, snapshot, disk, json, saver, rest, at, chunk, past>>

WriteVersion ==
    /\ stage = "version"
    /\ trie' = [trie EXCEPT !.version = 3]
    /\ stage' = "orders"
    /\ UNCHANGED <<phase, ledger, snapshot, disk, json, saver, rest, at, chunk, past>>

\* Mutant of WriteOrder: the chunks of the order are removed first.
WriteOrderAnew(o) ==
    /\ stage = "orders"
    /\ o \in rest
    /\ rest' = rest \ {o}
    /\ at' = o
    /\ chunk' = 0
    /\ stage' = "chunks"
    /\ trie' = [trie EXCEPT !.complete = @ \cup (Image.complete \cap {o}),
                           !.bitmap[o] = [c \in 0..NumChunks - 1 |-> Zero]]
    /\ UNCHANGED <<phase, ledger, snapshot, disk, json, saver, past>>

\* The orders come in any order, the entries of a HashMap.
WriteOrder(o) ==
    /\ stage = "orders"
    /\ o \in rest
    /\ rest' = rest \ {o}
    /\ at' = o
    /\ chunk' = 0
    /\ stage' = "chunks"
    /\ trie' = [trie EXCEPT !.complete = @ \cup (Image.complete \cap {o})]
    /\ UNCHANGED <<phase, ledger, snapshot, disk, json, saver, past>>

\* Mutant of WriteChunk: the last chunk, which is not full, is left out.
WriteFullChunk ==
    /\ stage = "chunks"
    /\ chunk < NumChunks
    /\ chunk' = chunk + 1
    /\ IF Pack(Image.state, at, chunk) = Zero \/ chunk + 1 = NumChunks
       THEN trie' = trie
       ELSE trie' = [trie EXCEPT !.bitmap[at][chunk] = Pack(Image.state, at, chunk)]
    /\ UNCHANGED <<phase, ledger, snapshot, disk, json, saver, stage, rest, at, past>>

\* Chunks of zeros are not written.
WriteChunk ==
    /\ stage = "chunks"
    /\ chunk < NumChunks
    /\ chunk' = chunk + 1
    /\ IF Pack(Image.state, at, chunk) = Zero
       THEN trie' = trie
       ELSE trie' = [trie EXCEPT !.bitmap[at][chunk] = Pack(Image.state, at, chunk)]
    /\ UNCHANGED <<phase, ledger, snapshot, disk, json, saver, stage, rest, at, past>>

EndOrder ==
    /\ stage = "chunks"
    /\ chunk = NumChunks
    /\ stage' = "orders"
    /\ at' = None
    /\ chunk' = 0
    /\ UNCHANGED <<phase, ledger, snapshot, trie, disk, json, saver, rest, past>>

\* trie.checkpoint or trie.sync
Flush ==
    /\ stage = "orders"
    /\ rest = {}
    /\ disk' = trie
    /\ phase' = IF phase = "migrate" THEN "import" ELSE phase
    /\ NoSave
    /\ UNCHANGED <<ledger, snapshot, trie, json, past>>

\* A key is not written or the flush fails.  The periodic checkpoint and the
\* save after a failed prefix log the error, resume_or_start and the other saves
\* return it.
SaveFails ==
    /\ saver # None
    /\ \/ phase' = phase /\ phase # "migrate"
       \/ phase' = "returning" /\ phase = "import" /\ saver = "importer"
       \/ phase' = "final" /\ phase = "migrate"
    /\ NoSave
    /\ UNCHANGED <<ledger, snapshot, trie, disk, json, past>>

\* The log of the trie reaches the disk.
LogReachesDisk ==
    /\ phase # "down"
    /\ disk' = trie
    /\ UNCHANGED <<phase, ledger, snapshot, trie, json, save, past>>

---------------------------------------------------------------------------
Sessions ==
    ResumeFromTrie \/ ResumeFromJson \/ StartAfresh \/ Crash \/ Return \/ Cleanup

Import ==
    \/ \E f \in Files : complete_prefix(f) \/ fail_prefix(f) \/ clear_failed(f)
    \/ \E o \in Orders : complete_order(o)

Save ==
    \/ SaveByImporter \/ SaveByCron
    \/ WriteVersion \/ WriteChunk \/ EndOrder \/ Flush \/ SaveFails
    \/ \E o \in Orders : WriteOrder(o)

Next == Sessions \/ Import \/ Save \/ LogReachesDisk

Spec == Init /\ [][Next]_vars

---------------------------------------------------------------------------
(* Properties. *)

\* Every variable has its type, and a save has a saver and writes one order
\* at a time.
TypeOK ==
    /\ phase \in {"down", "migrate", "import", "returning", "final"}
    /\ ledger \in Ledgers /\ snapshot \in Ledgers
    /\ trie \in Tries /\ disk \in Tries
    /\ json \in OldCheckpoints \cup {None}
    /\ saver \in {None, "importer", "cron"}
    /\ stage \in {"idle", "version", "orders", "chunks"}
    /\ saver = None <=> stage = "idle"
    /\ rest \subseteq Orders
    /\ at \in Orders \cup {None}
    /\ stage = "chunks" <=> at \in Orders
    /\ stage = "version" => rest = Orders
    /\ chunk \in 0..NumChunks
    /\ done \subseteq Files /\ resumed \subseteq Files
    /\ source \in 0..3
    /\ sessions \in 0..MaxSessions

\* Whatever a crash leaves on disk, of one save or mixed from two, of the
\* importer's ledger or of the copy of the periodic checkpoint, in the format
\* of version 2 or 3 or between them: a file it lets no session import again
\* was done in some ledger.
NothingInvented == Done(Loaded(disk, json)) \subseteq done

\* A save of the importer that succeeds is what the next session loads, of the
\* files that have an index: the same orders are complete, the same files are
\* completed, and the same need to be imported, although chunks of zeros are
\* not written, keys are never removed, and other saves came before.
SavedIsLoaded ==
    [][Flush /\ saver = "importer" =>
         LET l == Load(disk') IN
         /\ l.complete = ledger.complete
         /\ Completed(l) = Completed(ledger) \cap Indexed
         /\ \A f \in Indexed : needs_prefix(l, f) <=> needs_prefix(ledger, f)]_vars

\* While the importer writes, what the trie records as done only grows: a
\* crash between two of its keys costs no progress.
ImporterNeverForgets ==
    [][saver = "importer" /\ trie.version = 3 /\ phase' # "down" =>
         Done(Load(trie)) \subseteq Done(Load(trie'))]_vars

\* A session that started with a checkpoint of version 3 may crash at any
\* point of any save, also of one of the periodic checkpoint: the next session
\* starts with no less than it did.
CrashKeepsProgress ==
    phase = "import" /\ source = 3 => resumed \subseteq Done(Loaded(disk, json))
=============================================================================
