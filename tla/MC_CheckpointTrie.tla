-------------------------- MODULE MC_CheckpointTrie --------------------------
(* "b" and "c" are in one order, on both sides of a border of two chunks.    *)
EXTENDS CheckpointTrie, TLC

CONSTANTS b, c

BAndC == {b, c}

InOrder1 == [f \in Files |-> 1]

IndexOf == [f \in Files |-> IF f = b THEN 1 ELSE 2]

\* An old ledger with a file that is done and one that was interrupted.
BDone == {[state |-> b :> "Completed" @@ c :> "InProgress", complete |-> {}]}
=============================================================================
