-------------------------- MODULE MC_ShardSync --------------------------
(* ShardSync on small sets of threads and writes.                        *)
EXTENDS ShardSync, TLC

Symmetry == Permutations(Workers) \cup Permutations(Checkpointers)
                \cup Permutations(Docs)
==========================================================================
