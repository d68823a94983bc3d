---------------------------- MODULE MC_ShardSet ----------------------------
(* Two files of two or three shards, one or two workers. *)
EXTENDS ShardSet

CONSTANTS f1, f2, a, b, c, w1, w2

MCKeyOf == f1 :> a @@ f2 :> b

Setup(hash, cap, workers, errors) ==
    [hash |-> hash, cap |-> cap, workers |-> workers, errors |-> errors,
     spread |-> f1 :> {a, b} @@ f2 :> {b}]

\* Transactions and hashed n-grams, with every error, as long as no shard is
\* evicted; a worker that works on one shard at a time under a limit of one.
SafeSetups == {
    Setup(FALSE, 0, {w1, w2}, TRUE),
    Setup(FALSE, 1, {w1}, TRUE), Setup(FALSE, 1, {w2}, TRUE),
    Setup(TRUE, 0, {w1, w2}, TRUE)}

\* Hashed n-grams under a limit of one open shard, and no error at all.
EvictingSetups == {Setup(TRUE, 1, {w1}, FALSE)}

\* Two workers under a limit, who evict shards that the other one uses, by
\* transactions and by n-grams hashed to more shards than may be open.
SharedSetup(hash, cap) ==
    [hash |-> hash, cap |-> cap, workers |-> {w1, w2}, errors |-> FALSE,
     spread |-> f1 :> {a, b, c} @@ f2 :> {a}]

SharedSetups == {SharedSetup(FALSE, 1), SharedSetup(TRUE, 2)}

MCSetups == SafeSetups \cup SharedSetups

\* In these, one session in which two creations do not overlap and the tracker
\* rests during an eviction.
CreatesInTurn == setup \in SharedSetups => OneCreates /\ session = 1
PopsInTurn    == setup \in SharedSetups => TrackerRests

WorkersAlike == Permutations(Threads)
=============================================================================
