# libgrammstein: a TLA+ verification project

libgrammstein builds n-gram language models. Its own core logic, and the only
part that is concurrent, persistent and interruptible, is the importer of the
Google Books n-gram corpus (`src/src/sources/google_books`): thousands of files
are downloaded by a pool of workers into sharded tries on disk, with
checkpoints, retries, pause, cancel, change of parallelism, and resumption
after a crash. This project models that core, checks the models with TLC on
small instances and proves the central safety properties with TLAPS for every
value of the constants.

`G/` below stands for `src/src/sources/google_books/`.

## 1. The system and its parts

| Part | State it keeps | Operations | Interacts with |
|---|---|---|---|
| Reactive import, main task (`G/importer/import_ops.rs`, `checkpoint_ops.rs`, `state_machine.rs`) | per-order totals, results received, worker handles, the import ledger | plan jobs, take results and exits, resize the pool, save, drain, clean up | workers by four channels and two watches; the user by commands; the store by syncs |
| Worker pool (`G/importer/worker_pool.rs`) | the shared job queue and its size, the job in hand | take, defer, download, write, retry, give up, report, exit | main task, store |
| Sequential import (`import_http_with_progress`, `import_files` in `import_ops.rs`) | order, list of deferred files, ids, flags | import order by order, defer, save every few files, finalise | storage, ledger, wrappers |
| Wrappers (`G/importer/mod.rs` `run_import_with_shutdown`, `cron.rs`) | a copy of the ledger, a mutex, an interrupt flag | save every few seconds, interrupt, save once more at the end | cron scheduler, importer, signals |
| Ledger (`G/checkpoint.rs`) | per order: prefix states, completed flag | complete, fail, clear, needs, save, load | main task, checkpoint trie |
| Sessions (`G/importer/mod.rs` `resume_or_start`) | what is on disk | load, recover, reconcile | ledger, shards |
| A shard (`G/sharding/shard.rs`) | a trie with a WAL, sync state, read-write lock, prefix records | increment, transaction, sync, checkpoint | workers, main task, disk |
| Shard set (`G/sharding/coordinator/*.rs`, `checkpoint.rs`, `discovery.rs`) | map of open shards, creation locks, LRU tracker, global checkpoint | open, evict, transact, checkpoint all, recover | workers, main task, disk |
| Data path (`G/parser.rs`, `reader.rs`, `aggregator.rs`, `storage.rs`, `G/sharding/routing.rs`, `config.rs`, `src/src/ngram/vocabulary.rs`) | the sum in hand, the vocabulary, the entries | parse, filter, sum over years, encode, route, store | shards or one trie |
| Kneser-Ney statistics and merge (`G/importer/mkn.rs`, `finalize.rs`, `G/sharding/mkn.rs`, `merge.rs`) | counters, an output trie | two passes of counting, merge, clean up | finished shards |
| Cron scheduler (`src/src/util/cron`) | heap of tasks, state, termination flag | schedule, execute, requeue, terminate | a channel of tasks |
| Prefetching (`src/src/corpus/prefetch.rs`) | a batch, a bounded channel, a stop flag | read ahead, send, receive, drop | corpus reader, trainers |
| N-gram and embedding trainers (`src/src/ngram/trainer.rs`, `trie.rs`, `model.rs`, `src/src/embedding/trainer.rs`) | counters, a trie, a vocabulary | count a batch in parallel, derive continuation counts, make a model | prefetched corpus |
| Everything else (embeddings, scoring, code, LaTeX, neural, retrieval, topics, command line) | mostly numerical | batch or read-only | the finished model |

`PROJECT.json` lists every component with its status and, for those without a
model, the reason; `hazards` lists what is hard to test, line by line.

What makes the core hard:

* *Interleaving.* Workers write to tries while the main task syncs them; the
  results, exit notices and commands of an import travel on different channels
  and are taken in any order.
* *Crashes.* A checkpoint is two steps, data and then ledger, beside running
  workers; the next session believes the ledger.
* *Retries.* A job goes back to the queue it came from, with a counter that
  decides when a worker may sleep.
* *Shutdown.* Cancel, force quit, an empty pool and a failed save each leave
  the loop by a path of their own.
* *Partial failure.* A sync of one shard may fail, and the import goes on.
* *Several records of one fact.* That a file is done is said by the ledger in
  memory and on disk, a copy that the cron thread holds, the shard's own record
  and the global checkpoint, each written at a time of its own.
* *Conversions.* An n-gram becomes words, indices, varints and a shard, in one
  session under one number of CPUs and in the next under another.

What makes each part correct (names are those of the properties, where a run
checks them):

* *Main task and workers.* Every job ends in one result (`ResultsAccounted`), the
  queue's size is what the workers sleep by (`QueueSizeIsExact`), requeueing does
  not block (`RequeueNeverBlocks`), an order is complete only when processed
  (`ClosedIsProcessed`), Ok means done (`OkMeansAllProcessed`), no worker writes
  beside the last save (`LastCheckpointIsQuiet`), the import returns as long as
  the exits and the surplus results fit into their channels (`ImportReturns`; when
  they do not, section 6).
* *Sessions.* What the checkpoint calls completed is on disk, over any number of
  crashes (`CheckpointsAreHonest`).
* *Sequential import and wrappers.* What either of the two savers writes is on
  disk (`SavedIsDurable`), Ok leaves no file undecided (`OkMeansSettled`), nobody
  saves after the last save (`LastSaveStands`), every session ends
  (`ImportEnds`).
* *Checkpoint trie.* `NothingInvented`, `SavedIsLoaded`, `ImporterNeverForgets`,
  `CrashKeepsProgress`.
* *A shard.* One sync at a time (`SyncingHasOneOwner`), clean means nothing to sync
  (`CleanKeepsCommits`), a checkpoint that succeeds is durable
  (`ParallelCheckpointDurable`, `AsyncCheckpointDurable`), and nobody waits for
  ever (`SyncingEnds`, `CommitsGoThrough`).
* *The shard set.* A shard file is never open twice (`OneHandlePerFile`), the limit
  on open shards holds while one shard at a time is created and nobody else touches
  the tracker during an eviction (`EvictionKeepsUp`; otherwise not, section 6), a recorded prefix is whole
  (`CompletedPrefixIsWhole`), a file in the saved ledger is on the disk
  (`LedgerIsDurable`) and is not failed again by the comparison at the next start
  (`ReconcileKeepsWork`).
* *Data path.* Every key in a trie decodes to the n-gram it was made of
  (`KeysAreReadable`), what is stored is the sum of the lines (`StoredIsSum`), it
  is in one trie, and a lookup finds it there if its file is named for the letters of
  the shard (`LookupFindsStored`), the statistics count it exactly if no shard was
  passed over (`StatsAreExact`), and a merge neither loses nor doubles it
  (`MergedIsWhole`).
* *Cron.* `NoOversleep`, `NoDueTaskIsLeft`, `AcceptedTasksRun`, `SchedulerEnds`.
* *Training.* The corpus is seen in order and once (`CorpusInOrder`), the model is
  what counting by hand gives (`ModelIsExact`), and training comes back, whatever
  fails (`TrainingReturns`).

## 2. The modules

```
CheckpointPromise            what an import promises about its checkpoint
   ^ implemented by
ReactiveImport               main task, workers, channels, commands, saves
   ^ extended by
ImportSessions               crash, resume_or_start, next session
SequentialImport             the importers without a pool, and their wrappers
CheckpointTrie               the ledger on disk: keys, formats, crash inside a save
ShardSync                    one shard below: lock, sync states, checkpoints
ShardSet                     all shards: eviction, transactions, global checkpoint
NgramPipeline                from lines to entries, statistics and the merge
   | extends
   +- NgramKeys              vocabulary indices and varint keys
   +- ShardRouting           which shard an n-gram goes to
Cron                         the scheduler of periodic tasks
CorpusTraining               n-gram and embedding trainers over a corpus
   | extends
   +- NgramKeys
   +- Prefetch               the producer thread, its channel, the iterator
*Proofs                      theorems of the module they are named after (those of
                             ImportSessions are in ReactiveImportProofs)
MC_*                         instances for TLC
```

The levels meet in what one assumes and another shows. ReactiveImport and
SequentialImport take "sync the shards" as one step that makes durable what was
written before; ShardSync shows it of one shard, beside writers, and ShardSet of
all open shards, beside evictions (and where it fails, section 6). Both write the
ledger in one step; CheckpointTrie opens it. SequentialImport's periodic thread is
a task of Cron. NgramPipeline takes storage that keeps what it is given, and
says what is given to it. CorpusTraining uses the same keys for another trie.

### ShardSync: one shard

The RwLock around a shard, the sync states (`Clean`, `Dirty`, `Syncing`,
`SyncFailed`), the two kinds of write (lock-free increments under a read guard,
transactions under the exclusive one), the parallel checkpoint, the asynchronous
checkpoint and `wait_if_syncing`. A write is a member of a set: `applied` once
readers see it, `wal` once it is logged, `durable` once a crash keeps it.
Each step between two accesses to shared state is an action: the
compare-exchange to `Syncing` and the reset of its flag are two steps, and the
snapshot and its writing as well. The lock is `parking_lot`'s task-fair lock:
a reader waits behind a queued writer.

### ReactiveImport: one call of `import_http_reactive`

The main task has a program counter `mpc` (plan, select, the drains, sync,
write, join, done), every worker one of its own. `queue`, `results`, `exits`
and `resize` are the channels with their capacities; `paused`, `cancelled` and
`forced` the atomics and watches that commands set; `ledger` and `closed` the
import checkpoint in memory and `saved` the one on disk; `content` what the
tries hold of each file and `durable` what of that is on disk. Content is
abstracted to what the properties tell apart: none of the file, a part, all of
it once, or more than once. `stuck` are the files in shards whose sync has
failed: nothing in the program calls `retry_failed_syncs`, so later
asynchronous checkpoints skip them.

An action is a whole handler with what it calls: taking a success marks
the prefix, perhaps completes the order, and decides whether a periodic save
follows; a save is three actions (sync the shards, write the ledger, or
fail) because workers run between them. `ShardSync` justifies the first of them:
its parallel checkpoint makes everything acknowledged before the call durable,
and the asynchronous one does so unless an I/O error came before, which is
what `stuck` stands for.

### ImportSessions: sessions

Adds the crash. The process may die at any moment, or return; what is durable
stays, and of the rest an arbitrary part. `resume_or_start` loads the ledger
on disk. In these behaviours no prefix is ever in progress and none that the ledger
completes is missing in the shards, so its recovery and reconciliation steps do
nothing; ShardSet has them where they matter.

### SequentialImport: one file after the other

`import_http_with_progress` and `import_files`, bare or inside a wrapper
(`setup`). The main task goes through the orders; in each, futures are started
while the stream holds fewer than `Parallelism`, and are polled only while the
main task awaits it, so that no future runs beside one of its saves. A future
ends in success, in a deferral, or in a failure that is final; the deferred
files are passed over again until they succeed or have used up their attempts.
`closed` are the orders the ledger completes, `ids` the pool of worker ids,
`interrupted` the flag that each loop reads. `cron` is the thread of
`run_import_with_periodic_checkpoints`: it saves the `snapshot` that it was given
when the import began, each time in two steps, beside everything else, until
`terminating` is set and it is joined; then comes the final save. A session may
be cut by a crash at any step; the next one starts from `saved`.

### ShardSet: all shards

The coordinator's map of open shards, its creation locks and its LRU tracker;
workers that open shards, evict others to make room, and write through the handle
they got; the main task that takes results, marks prefixes and runs the global
checkpoint; and `Restart`, which recovers the records from the shard files and the
global checkpoint and compares them with the importer's ledger. A handle is an
entry of `heap` that outlives its place in `open` while somebody references it,
which is what makes eviction delicate: `get_or_create_shard` is twelve actions,
from one lock it takes to the next. The peek at the oldest key, the removal from the
map, the checkpoint and the pop of an eviction are four of them, since another
thread may touch the tracker between them. Of the counts of a file a shard has none, a part, all,
or some twice. `VisitShard` is ShardSync's checkpoint in one step.

### NgramPipeline, NgramKeys, ShardRouting: what is stored

The lines of a file are parsed and filtered, those of one n-gram are summed over
the years, and the sum is stored under the key of its vocabulary indices, in one
trie or in the shard it is routed to, in one transaction or in chunks, or by
increments. Then both counting passes of the Kneser-Ney statistics, with
cancellation between the phases, and the merge of the shards into one output,
with the removal of what it merged. Where a setup has it, a shard may fail to open: an attempt
at a file then fails, a counting pass goes on without the shard (`SkipShard`, which
keeps it in `unread`), and a merge fails (`MergeFailed`). `opened` says whether a
shard is open at all, which is what `merge_shards` decides by (`MergeWanted`): under a
limit of one, an open that fails may leave none, because it evicts first
(`CannotOpen`). The prefix that a file is named for (`setup.names`) need not be what its
n-grams begin with: that of "other" is not. A session may end anywhere, the next
may find another number of CPUs. `NgramKeys` is LEB128 and its decoder over an abstract
base (128 in the code), so that keys of two and three groups occur with few words;
`ShardRouting` the granularities, by letters and by hash. All of it is operators,
except what happens over time.

### Prefetch and CorpusTraining: training

The producer thread that reads ahead, its bounded channel, and the iterator,
whose drop stops, drains and joins the producer. On top of it the two trainers:
the n-gram trainer counts a batch by parallel tasks (`tasks` says how far each
sentence is), over a vocabulary that the tasks fill; its three kinds of keys
(`setup.keys`) are joined strings, the indices a dictionary gives to the pieces of
a joined string, and varints written by the trainer. The embedding trainer counts
words, sorts its vocabulary and reads the corpus again in every epoch, collected
or streamed. A reader may panic, a vocabulary may fail.

### CheckpointTrie: the ledger on its way to disk and back

`ImportSessions` writes and loads the ledger in one step. This module opens that
step: `save_to_trie` writes the version, then for each order its completion and
its bitmap word by word, under the lock of the checkpoint trie. The saver is the
importer, or the periodic checkpoint with the `snapshot` of the ledger that it
took at the start. `trie` is what is in memory, `disk` what a crash keeps:
`LogReachesDisk` may carry over any prefix of what was written. Words keep
their two-bit fields, and the two formats keep their different codes for a state,
since mixing them up is what could go wrong. A session starts from the trie, in
version 2 or 3, from the JSON file, which it migrates, or from nothing.

### Cron: the scheduler

The thread of `util/cron` with its states, the heap, the channel of submitted
tasks and the shared termination flag. `poll_event` and `transition` together
are one action for each event and state. Time is relative (`left`, `alarm`), so that the
state space is finite without a bound on time; it passes while the thread
sleeps or executes a task. Of tasks that are due the model keeps the order in
which they fell due, because the heap does and starvation depends on it. The state
`ExecutingTask`, which the code declares and never enters, stands for
the call of the task inside `transition`.

### CheckpointPromise: the abstract specification

Two sets: files whose counts are stored, files recorded as completed. Files become
stored; only stored files become recorded; nothing is ever taken back. Both
`ReactiveImport` and `ImportSessions` are shown to implement it, by TLC and by
proof.

## 3. The runs

| Run | Question | Bounds |
|---|---|---|
| `shard_sync` | Is a shard synced by one thread at a time, does a parallel checkpoint that returns Ok make acknowledged writes durable, does Clean never hide a commit, with I/O errors everywhere? | 2 workers, 2 checkpointers, 1 waiter, 1 increment, 1 transaction |
| `shard_sync_live` | Does the asynchronous checkpoint keep its promise, without I/O errors, although it skips shards that are not dirty? Does every sync end and every queued commit go through, with a waiter that holds a read guard? | 1 worker, 1 checkpointer, 1 waiter, behaviours with and without I/O errors |
| `shard_set` | Is a shard file open once, a recorded prefix whole, what the saved ledger has on disk and accepted at the next start? Is the limit on open shards kept, also by workers that evict what another uses? | 2 files; 2 shards and 2 sessions by prefix without a limit and by hash without a limit with 2 workers, by prefix with a limit of one open shard with 1 worker; for the limit alone 2 workers and 1 session, by prefix with a limit of one, by hash with 3 shards and a limit of two, in behaviours that keep `OneCreates` and `TrackerRests` |
| `shard_set_evicted` | Is the saved ledger on disk, with hashed n-grams under a limit? Violated, section 6 | 1 worker, limit of one open shard, no errors |
| `reactive_import` | Is the last checkpoint quiet, the queue size exact, a completed order processed, an Ok import complete? | 2 files, 2 workers resized to 0 or 3, 1 retry, all commands, failing saves |
| `reactive_live` | Does the import return? | 2 files, untouched, done or failed before, 1 worker resized to 2, channels for 2, all commands, transactions, no retries |
| `sessions` | Over crashes, are all jobs accounted for, is requeueing free of blocking, does the checkpoint stay honest? | 2 sessions, 3 files in 2 orders, 2 workers, 4 histories, cancel |
| `sequential` | With two savers, failures, deferrals, signals and crashes: is what is saved on disk, is no file lost, is the last save the last, does every session end? | 2 sessions, 3 files in 2 orders and an empty one, 2 at a time, 2 attempts, 6 setups of importer, kind of writes, wrapper and history |
| `checkpoint_trie` | Does a save that a crash or an error cuts at any key invent or lose progress, beside a second saver with an older ledger and keys of older formats? Is a whole save what is loaded? | 2 sessions, 2 files in 2 words of 2 fields, 2 orders, 3 kinds of old checkpoints |
| `pipeline` | Is what is stored the sum of the lines under readable keys, found by a lookup, counted exactly and merged whole? | 2 files, of words and of pairs, 2 workers, 2 sessions, 9 setups: one trie, letters with and without chunks, hashed with one or two CPUs, a file "other" beside one of words, shards that do not open; a varint group holds 2 values |
| `cron` | Does the scheduler never oversleep nor leave a due task, does every accepted task run, does a shutdown or the drop of all handles end it? | 1 one-shot task, 2 recurring ones at intervals 1 and 2, delays up to 3, poll interval 2 |
| `training` | Is the corpus seen in order, the model exact, and does training return? | corpora of up to 5 sentences, batches of 1 and 2, the smallest channel (2), order 2, 3 kinds of keys, 2 trainers, failing readers and vocabularies; a varint group holds 4 values |

Bounds and why they are enough. Two files in one order are the smallest case
in which a save happens while another file is half written; three files and
two orders add an order that completes while another is open. Two workers
suffice for every race between a worker and the main task and between two
workers; a third appears when the pool grows. `MaxRetries` is 1 or 2 (the code: 5): one
retry and one final failure; the `sessions` and
`reactive_live` runs have none, retries are in the other runs: that a job which goes back
to the queue is not slept over is the safety property `QueueSizeIsExact`. `Interval` is 2 (the code: 5 or 10 files
between periodic saves), so that a periodic save falls between two files.
`MaxResizes` bounds the commands that change the parallelism (below the 16 that
the command channel holds), `MaxWorkers` the worker ids they can use up,
`MaxSessions` the sessions, `MaxDelay` the delays of submitted tasks (one more
than the poll interval, so that a sleep may end before a task is due),
`MaxAttempts` the attempts at a job in the pipeline, `MaxOrder` the orders,
`MaxGroups` the groups of a varint. A crash in a second session meets a disk written
by a first one, which is the case a single session lacks. Files are
symmetric in one order, and the workers of the pipeline and of `shard_set` are. In ShardSet `FailFile`
and `CommitChunk` leave out the counting of attempts: an attempt
commits at most one chunk before its last, and any number of attempts may fail.

Two words of two fields are the smallest bitmap with a border between words and
a last word that is not full; the file indexes 1 and 2 lie on both sides of it.
With 2 values in a varint group, four words already need keys of different lengths,
and with 4, a second byte at the fourth word. One file of two shards and one of a
single shard are the smallest set in which a worker asks for a shard that another
evicts; three shards under a limit of two let a worker touch the victim of another
one's eviction. The channels for two results and two exits, which `Parallelism` 1 gives,
are filled to the last place by two workers and by the second results of two failed
files: `reactive_live` goes up to the border that `ImportReturns` draws. The prefetcher's
channel holds two batches, so a corpus of five sentences in
batches of one makes the producer wait in a send.

Deadlock is checked except in the runs of `CheckpointTrie` and `CorpusTraining`:
after the last session nobody has to start the program again, and a search for
a negative sample that never ends (section 6) has no next state in the model.
Everywhere else a finished program may only stutter by an action that says so.

`shard_set` has two conditions on behaviours in its configuration, for the setups of
two workers under a limit and no others (`SharedSetups`): one session in which creations
do not overlap (`OneCreates`), as a constraint, so that a state with two creations is
still checked and only not continued, and a tracker that nobody else touches during an
eviction (`TrackerRests`), as an action constraint. They are the hypotheses of the
theorem about the limit. In these setups `EvictionKeepsUp` is what is checked; the
other properties of ShardSet begin with `EvictsAlone`.

Type invariants are checked by TLC in `pipeline` and proved of CheckpointTrie,
Cron, ReactiveImport, ShardSync, ShardSet, SequentialImport and Prefetch
(`PrefetchTypeOK`), for every value of the constants.

Fairness. tokio runs every task that is ready and time passes, so the main
task, each worker and the end of a backoff are weakly fair; commands and failures
are not. In `ShardSync` a started checkpoint is strongly fair, because
the task-fair lock lets a waiting reader in between one writer and the next;
nobody has to start a checkpoint, a commit or a wait. In `Cron` the thread,
time and the return of a task are weakly fair; nobody has to submit a task. In
`SequentialImport` the main task, the futures that it awaits and the cron thread
are weakly fair, each download ends at some time, and a program that has
ended is not started for ever: `MaxSessions` bounds it. In `CorpusTraining` the producer
and the trainer are weakly fair: both are threads.

Every property is paired with a mutant of the code (`PROJECT.json`
`mutants`, in the modules next to what they mutate) that TLC finds to violate it.

## 4. What is proved

For every set of workers, files, orders and histories, every parallelism,
number of retries and interval. The names in parentheses are the properties that
the runs check.

* `ShardSyncProofs`: `Typing`; `OneSyncPerShard` (`SyncingHasOneOwner`), by an
  invariant that ties the state to the program counters; `ParallelCheckpointIsDurable`
  (`ParallelCheckpointDurable`), strengthened by `ImageHoldsFloor`: what the call
  promises stays applied, and the image being written holds it;
  `CleanHidesNoCommit` (`CleanKeepsCommits`): no commit comes between the
  snapshot of a sync and the Clean state it ends with, because the sync holds a
  read guard and a commit takes the lock alone (`CommitsAreCaught`);
  `AsyncCheckpointIsDurable` (`AsyncCheckpointDurable`), for one
  checkpointer, which is what the importer has: a Clean state covers all that is
  acknowledged, except between the end of the sync of a parallel checkpoint and
  its image of the shard, which makes up for it.
* `ReactiveImportProofs`: `Typing`; `LastCheckpointQuiet`
  (`LastCheckpointIsQuiet`), from an invariant that says which workers may still
  run at which stage of a drain; `CompletedIsDurable` (`RecordedIsDurable`, which no
  run checks by itself: the refinement implies it) and
  `ImportKeepsPromise` (`CheckpointsAreHonest`), a refinement of `CheckpointPromise`;
  `QueueSizeExact` (`QueueSizeIsExact`), `EveryJobIsAccountedFor`
  (`ResultsAccounted`) and `RequeueHasRoom` (`RequeueNeverBlocks`) from one
  invariant (`AccountsInv`) that counts the jobs in the queue, in the hands of
  workers, in the result channel and among the results received: the lemmas say
  how each step changes the cardinality of a set of workers. `OkMeansDone`
  (`OkMeansAllProcessed`) adds that a file is in one of those places at most
  once, so that as many results as there are jobs are results of all jobs.
  `CompleteIsProcessed` (`ClosedIsProcessed`) adds the same count for each order.
  At its end `SessionsKeepPromise`: the same refinement for ImportSessions, over
  any number of crashes and sessions.
* `SequentialImportProofs`, for both importers, every wrapper and history:
  `Typing`; `SavedStaysDurable` (`SavedIsDurable`), strengthened by
  `LedgerIsTrue` (a file that the ledger completes or a future is about to report
  is whole in the tries), `SavedIsTrue` (the ledger on disk and the copy in the
  cron thread name only files that are whole on disk, so that the thread may
  write its copy at any moment) and `SyncedBeforeWritten`; `LastSaveIsLast`
  (`LastSaveStands`), strengthened by `CronIsGone` (the thread has been joined
  before the final save begins) and `EndedIsDone`; `OkIsSettled` (`OkMeansSettled`):
  while an order is open each of its files is settled, waiting for its turn, in
  flight or deferred, also across the saves in the middle of it, and an order
  that has been passed has none left.
* `ShardSetProofs`, for any files, shards, workers, spreads and numbers of
  sessions: `Typing`, with the references: a handle is open exactly while the map,
  a worker or an eviction has it, and it has a file. `OneHandle`
  (`OneHandlePerFile`): who creates a shard holds its creation lock and finds it
  missing, and a worker's handle is the one in the map. `EvictionWorks`
  (`EvictionKeepsUp`), for any workers under any limit, who may hold and write what
  another has evicted: in behaviours that keep `OneCreates` and `TrackerRests`, between
  creations the tracker has exactly the open shards, at each step of an eviction it
  differs by the victim, and at the end of an opening by the new shard; the oldest
  key at the pop is still the one that was peeked at. `RecordedPrefixIsWhole`
  (`CompletedPrefixIsWhole`): what a file or a handle records is there once, no file
  records more than the handle on it, and whatever the ledgers or the results call
  completed is in a record on disk. `LedgerIsOnDisk` (`LedgerIsDurable`), with
  hashed counts (`HashInv`): a handle has at least what its file has, and no more
  while it is clean; what a worker or the results have counted is in an open
  dirty shard; what the ledger completes is in the open shards, and on disk in
  those that the checkpoint has been through; what the saved ledger completes is
  on disk.
  `StartsTakeNothingBack` (`ReconcileKeepsWork`).
* `CheckpointTrieProofs`, for any files, orders, word sizes and old checkpoints:
  `Typing` and `NothingIsInvented` (`NothingInvented`). The invariant says of the
  trie and of its image on disk that the bitmap, the status codes of version 2
  and the completed orders are each truthful, whichever of them the version
  would have a session read: a save puts the bitmap beside the codes, and a
  crash may pair any version with any keys. `SavesAreLoaded` (`SavedIsLoaded`)
  and `ImporterForgetsNothing` (`ImporterNeverForgets`) rest on `BookInv`: the
  importer's ledger knows all that the trie calls done, and the keys that its save
  has passed say what it says; a chunk of zeros is not written, and holds no
  file that is done. `CrashesKeepProgress` (`CrashKeepsProgress`) rests on
  `KeepInv`: what the session started with is in the trie, on disk and in both
  ledgers, the importer's and the snapshot of the cron, so that a save of either
  writes it again.
* `CronProofs`, for any tasks and positive intervals: `Typing`, `SleepIsShort`
  (`NoOversleep`) and `DueTasksGoFirst` (`NoDueTaskIsLeft`). The invariant adds
  that the heap is in order, from lemmas on insertion into and removal from a
  sequence without repetitions, and that only an accepted task is held: without
  the first the head says nothing of the others.
* `CorpusTrainingProofs`, for any corpora, batches, buffers, trainers and
  failures: `Typing` (`PrefetchTypeOK`, with the bounds of batch and channel) and
  `CorpusComesInOrder` (`CorpusInOrder`). What has been yielded, what is in the
  channel and what is in the batch are, one after the other, the beginning of
  the corpus up to where the reader stands; after a panic, up to some sentence.
  Every other step of the trainers leaves this alone or starts a pass anew.

* `NgramPipelineProofs`, for any words, files, lines, workers, granularity,
  chunks, CPUs, failures and number of sessions. First what the operators do:
  varints of any number of groups are read back, and keys are those of one n-gram
  only; a sum does not depend on the order of its terms; a word enters the
  vocabulary once, and its index never changes. Then `PipelineIsRight`, the
  inductive invariant `PipelineInv`:
  - `TypesOK`: the setup is one of the setups, and no word is in the vocabulary twice;
  - `AttemptsOK`: a file has had no more attempts in a session than in all sessions,
    and one that is still to do has attempts left;
  - `JobsOK`: the record of a job is that of the last line it took, with the sum
    of the lines of that n-gram so far; its transaction has whole sums only; the
    n-grams behind it are kept, in the tries or in the transaction, and those ahead of
    it lack at least the present attempt. No two jobs are at the same file;
  - `StoreOK`: every key is that of an n-gram of a file, in the shard where that n-gram
    goes; with transactions it has the sum of the lines, and without, the tries
    together have a multiple of it, one per attempt at most;
  - `DoneOK`: the n-grams of a file that is done are stored.

  From it `PipelineTypes` (`TypeOK`), `KeysStayReadable` (`KeysAreReadable`),
  `SumsAreStored` (`StoredIsSum`), `LookupsFind` (`LookupFindsStored`: an
  n-gram is in one trie only, over failed attempts and sessions, by letters always and
  by hash while the CPUs stay (`OneShard`); a lookup is routed there by `NamesAgree`, if
  the file is named for what its n-grams begin with, in as many letters as the shards
  of that order have), `MergeKeepsAll` (`MergedIsWhole`), which adds
  `MergeInv`: the output holds what the shards merged so far held, summed by key,
  and `StatsAreRight` (`StatsAreExact`), which adds `StatsInv`: the frequencies are
  those of the keys of the shards that were visited, unless the pass has been
  cancelled, and the pairs those of the orders that were followed so far; both are of
  all shards only if none was passed over (`unread`). With one
  number of CPUs a key is in one shard only, so its count there is what is held; that
  keys and n-grams, and pairs and the n-grams of a context, are as many as
  each other is shown by bijections (`FreqIs`, `FollowIs`).

The durability invariant is a chain, one conjunct for each hand the success of
a file passes through: a success in a worker's hand or in the result channel
is of a file that is whole in the tries (`SuccessHasReached`); a file the ledger
completes is whole (`LedgerIsTrue`); what is on disk is also in the tries
(`DurableIsThere`); no shard is stuck (`NothingIsStuck`); when the
ledger is about to be written, the files it completes are durable
(`SyncedBeforeWritten`); and so are those of the ledger on disk
(`RecordedIsDurable`). None of the links is inductive without the one before.

Assumptions. Those of the constants (`ASSUME` in the modules, evaluated by
TLC), and hypotheses of single theorems. Each of these marks a place where the
code does not keep the property, section 6:

* The durability theorems of the reactive import assume `Dependable`: transactions
  are used, or saves do not fail. Without transactions a failed save leaves shards
  that later saves pass over. Histories, that is what is on disk when the first
  import starts, are assumed honest.
* `OkMeansDone` assumes histories without a failure that an earlier session
  recorded (`Settled`): such a file is queued twice and counted once.
  `CompleteIsProcessed` assumes that every order is resumed from its start or with
  at most one file to go (`Resumable`): the counter of a half done order starts at
  what was done, and is compared with the rest.
* `OneHandlePerFile`, `CompletedPrefixIsWhole`, `LedgerIsDurable` and
  `ReconcileKeepsWork` say something of setups in which no shard is ever evicted or
  a single worker works (`EvictsAlone`). `EvictionWorks` is about several workers under
  a limit too, which is what the code defaults to, and assumes of a behaviour what the
  locks of the code do not see to: the creations of two shards do not overlap
  (`OneCreates`), and nobody else touches the tracker between the peek and the pop of an
  eviction (`TrackerRests`). `LedgerIsOnDisk` and `StartsTakeNothingBack` assume that
  hashed n-grams have no limit on open shards. `StartsTakeNothingBack` assumes that the shard that
  a start asks for a file is one that its n-grams go to (`KeyGetsCounts`).
* `AsyncCheckpointIsDurable` assumes one checkpointer (`OneCheckpointer`).
* The theorems of NgramPipeline have no hypothesis of their own. The module assumes of its
  input what Google Books publishes: the lines of an n-gram stand together, an
  n-gram is in one file (`Grouped`), and a line that passes the filter counts at
  least one occurrence (`CountsAssumption`: with `min_count` 0 the code would take a
  line that counts none). What a file is named for is not assumed: that a lookup finds
  its n-grams is claimed of files that are named for what they begin with
  (`NamesItsShard`), and of others only that their n-grams are in one shard. Statistics that
  passed a shard over are not claimed to be exact. `VocabularyFits` says that `MaxGroups` groups hold the index of any word, as ten
  hold any `u64`.

How definitions were written for the proofs. `Pending` of SequentialImport is
the sequence of the files an order needs, by the rank of each, where a filter would
be a fold; `Touched` of ShardSet removes a key from the tracker by its
position. No RECURSIVE operator is in any module. Where a definition of the
community modules is recursive, as `FlattenSeq` and the folds are, a lemma about it
needs induction: the induction theorems of the library take an operator as a
parameter, which the provers cannot instantiate, but `WFMin` takes a set, and gives
that every set of numbers that is not empty has a least element (`LeastOf` in
CorpusTrainingProofs and NgramPipelineProofs). The lemmas about `FlattenSeq` and the folds
follow from it by a first place where they would fail; that a recursive function exists
at all, from the set of the numbers up to which it does. For that the
varints of NgramKeys are recursive functions instead of powers of the
base, and the tries of NgramPipeline are overlaid by `Put` and `Overlaid` instead of `@@`.

Only model-checked. Of the safety properties: `ModelIsExact`, which compares the
trie with a count over the whole corpus. Beyond the prover:
all liveness (`ImportReturns`, `ImportEnds`, `SyncingEnds`, `CommitsGoThrough`,
`AcceptedTasksRun`, `SchedulerEnds`, `TrainingReturns`).

## 5. What is not modelled, and why

* How long a backoff or a pause takes: it ends at some time.
* Statistics, totals of n-grams, progress events, logging, the terminal interface.
* n-grams inside the importers and ShardSet: a file is counted as a whole.
  NgramPipeline has n-grams, without syncs and evictions.
* A worker of the reactive import that panics. No code path of the worker is
  known to panic; if one did, no exit notice would be sent and the main task would
  wait (`import_ops.rs:1444`).
* `flush_lockfree_over_threshold` is in ShardSync and ShardSet, and left out of
  ReactiveImport: it makes increments durable earlier.
* In `ReactiveImport`, `ImportSessions` and `SequentialImport` every file stands
  for a prefix with a bitmap index: the ledger they save is the ledger they load.
  `CheckpointTrie` says when that is so (`SavedIsLoaded`) and for which prefixes it
  is not. Reconciliation is in ShardSet only.
* Hash-sharded storage beside the periodic saver: two threads then checkpoint the
  same shards, and the one that finds a shard `Syncing` passes it over
  (`ShardSync` has the states for it). `SequentialImport` excludes it by its setups.
* A line is read, fails to parse or is lost with its connection: decompression, the
  cache of downloads and HTTP are behind that.
* Letters of more than one byte, floating point (discounts, probabilities, weights).
* Backoff models, smoothing, scoring, neural, acoustic, retrieval and topic code:
  numerical, with no control worth a state machine. The file-backed accumulator of
  `ngram` and the task manager of `google_books` have some, and no caller.
* `start_prefix` and the updates of single status keys, which no importer calls.
* The components that `PROJECT.json` lists as `not_modelled`.

The map names some four thousand of the repository's lines. The rest is, for its
larger part, numerical code, language tables, parsers of other formats, user
interface and reporting, whose meaning TLA+ would only repeat.

## 6. Where code and documentation disagree

One disagreement is a run, in which TLC finds the documented statement violated:

* `shard_set_evicted`: `maybe_evict_shard` takes a shard out of the map before it
  writes it (`coordinator/mod.rs:720`), and the checkpoint visits only shards in
  the map. Between the two the ledger is saved without the shard's counts,
  although `checkpoint_ops.rs:217` promises "consistency between data and progress
  tracking". A crash then loses them, and the next session does not import them.

Others were found with the models, or in reading the code for them, and have no run
of their own:

*Eviction.*
* Two threads that open different shards each hold the lock of their own key only: both
  see room (`coordinator/mod.rs:679`) and both open, beyond the "Maximum number of open
  shards" of `config.rs:209`. And an eviction that has peeked at the oldest key pops, after
  the checkpoint of that shard, whichever key is the oldest by then
  (`coordinator/mod.rs:739`): if the victim was touched meanwhile, the tracker forgets
  a shard that is open, and never evicts it. TLC finds both in `shard_set` without
  `OneCreates` or without `TrackerRests`.
* Under a limit on open shards, with more than one worker, a shard that a worker
  has just got from the map may be evicted before the worker writes. The worker
  then writes through a handle that is in no map while another opens the same file
  again (`coordinator/mod.rs:719`, `create_or_open_shard`). TLC finds, with two
  workers and transactions and without any error, two handles on one file, shards
  above the limit, a recorded prefix without its counts, and a saved ledger ahead
  of the disk.
* With hashed n-grams, the shard that `resume_or_start` asks whether a file is
  complete is found by a hash of the file's prefix, and need not be among those
  that its n-grams were hashed to. `mark_prefix_completed`
  (`import_state.rs:176`) records the file there only if that shard is open, so
  that the next start may mark a completed file as failed (`importer/mod.rs:707`)
  and import it a second time on top of the first. `KeyGetsCounts` excludes it from
  `StartsTakeNothingBack`, and the setups of `shard_set` have it so.

*Resumption and the ledger.*
* On resumption a failed prefix is put into the queue twice and counted once; the
  loop may end with files unprocessed and report success.
* On resumption an order may be completed too early; a crash then hides its
  remaining files from every later session.
* After one sync that failed, later asynchronous saves leave a shard out and still
  record its files as completed; nothing calls `retry_failed_syncs`.
* `other` and `punctuation` have no place in the bitmap: completed, they are
  imported again by every later session.
* Failed prefixes are "retried on subsequent runs" (`checkpoint.rs:57`), but the
  sequential import does not record failures and completes the order
  (`import_ops.rs:635`), after which the order is skipped.
* `completed_prefixes_for_order` asks the records of the shards by prefix alone, so
  that a prefix of one order answers for that of another.
* A migration from JSON that a crash cuts hides the checkpoint it migrates.
* `finalize.rs:4-9` lists the steps of the end; the checkpoint is deleted
  (`finalize.rs:77`) before the merge, whose failure is then not resumable.

*Wrappers.*
* A signal is not delivered while the importer's mutex is held, which is until the
  import returns (`cron.rs:223`, and `run_import_with_shutdown` alike): the
  interrupt never interrupts.
* The periodic checkpoint writes the ledger that it was given at the start, so that
  a crash takes a resumed import back, while its documentation speaks of progress
  that is not lost; and the wrapper's final save restores the checkpoint that a
  finished import has just deleted.
* `completed_in_order % interval == 0` is true while nothing has completed: until
  then each failure and deferral is followed by a save.

*Concurrency.*
* The clean-up signals the workers and awaits them (`import_ops.rs:1725`,
  `state_machine.rs:446-451`), but nobody reads the exit and result channels after the
  loop. The exit channel has room for `2 * parallel_downloads` notices
  (`import_ops.rs:1096`); `SetParallelism` may raise the workers above that, as each "+" of
  the TUI adds one (`cli/tui/app.rs:188`), and then the last of them waits to say that it
  leaves (`worker_pool.rs:1137`) while the main task waits for it. The result channel
  fills in the same way with the second results of files that failed before, which are
  queued twice and counted once (`import_ops.rs:1027`). `state_machine.rs:4` speaks of
  "preventing hang bugs". TLC finds both without the conditions of `ImportReturns`: with
  one worker resized to three, and with three failed files.
* A cancel has no effect while all workers are paused; a failed periodic save returns and
  leaves workers behind; a pool may stay too small after shrinking and growing;
  an interrupted file is counted twice without transactions.
* A wait for a sync may return before the sync ends (`shard.rs:247`).
* Recurring tasks can keep the scheduler from its channel and its termination flag,
  although the flag is "checked at every state transition" (`util/cron/mod.rs:12`).

*Data.*
* "Consistent hashing" is a hash modulo a number that depends on the CPUs, and
  `prefix_search` (`query.rs:64-95`) looks into the wrong shards under `Adaptive` and
  `CpuProportional`.
* The n-grams of "other" and "punctuation" (`languages.rs:152-155`) are stored in the
  shard of that name and looked up in the shard of their own letters, while the comment at
  `storage.rs:1117` says that `route_tokens` agrees with `shard_key_for_file_prefix`.
* A shard that does not open or cannot be iterated is passed over by the counting passes
  (`sharding/mkn.rs:422` and `510`); the statistics are written without it and never
  computed again, while `sharding/mkn.rs:385` says that the pass "iterates through all
  shards".
* `merge_shards` decides by the shards that are open, not by those on disk
  (`finalize.rs:118`). When the last open before it has evicted the only one and then
  failed, it returns false, which its comment reserves for storage that is not sharded,
  and the import ends well. A resumption does not lead there: it opens all shards on
  disk (`storage.rs:310`, `coordinator/mod.rs:554`).
* `min_count` is compared with the count of one year, not with the sum.
* `import_files` stores n-grams as text where `import_http` stores vocabulary keys.
* The counting for sharded storage in `importer/mkn.rs:156` never counts
  continuations.
* `n4` is documented as "four or more" and counts exactly four.
* A token with a pipe in it has the key of two tokens (`trainer.rs`), and with
  `varints` the model is given one word for each character of a key; `min_word_freq`
  is never applied.
* A reader that panics ends the training with Ok from part of the corpus.
* `sample_negatives` (`embedding/trainer.rs:192`) never ends with one word.

## 7. Plan

Done: ShardSync, ReactiveImport, CheckpointPromise, ImportSessions,
CheckpointTrie, Cron; ShardSet, NgramKeys, ShardRouting, NgramPipeline, Prefetch,
CorpusTraining, SequentialImport; their runs, and the theorems of section 4.

Left, in this order:

1. A proof of `ModelIsExact`: the counts of a fold over sequences, with the lemmas
   on sums of NgramPipelineProofs.
2. Hash-sharded storage beside the periodic saver: ShardSync with a second
   checkpointer that passes over `Syncing` shards.
3. The task manager and the file-backed accumulator, once something calls them.

## 8. Running it

    tlc -config MC_ReactiveImport.cfg MC_ReactiveImport.tla
    tlapm ReactiveImportProofs.tla

Each configuration names its run's specification, constants and properties.
