------------------------ MODULE MC_SequentialImport ------------------------
(* Small instances of SequentialImport for TLC. *)
EXTENDS SequentialImport, TLC

CONSTANTS a, b, c

\* The second order has one file; the third is left out by the prefix filter.
MCFilesOf == << <<a, b>>, <<c>>, <<>> >>

Setup(source, writes, wrapper, x, y, z) ==
    [source |-> source, writes |-> writes, wrapper |-> wrapper, closed |-> {},
     ledger |-> a :> x @@ b :> y @@ c :> z,
     content |-> [f \in Files |->
                   CASE f = a /\ x = "Completed" -> "once"
                     [] f = b /\ y = "Completed" -> "once"
                     [] f = c /\ z = "Completed" -> "once"
                     [] f = b /\ y = "Failed" -> "part"
                     [] OTHER -> "none"]]

\* Sharded by prefix, one trie with increments, local files; from scratch, and
\* after sessions that left completed and failed files.
MCSetups ==
    {Setup("http", "increment", "none", "none", "none", "none"),
     Setup("http", "set", "shutdown", "none", "Failed", "Completed"),
     Setup("http", "increment", "periodic", "Completed", "Failed", "none"),
     Setup("http", "set", "periodic", "none", "none", "none"),
     Setup("files", "atomic", "none", "none", "none", "none"),
     Setup("files", "increment", "none", "Completed", "Failed", "none")}
=============================================================================
