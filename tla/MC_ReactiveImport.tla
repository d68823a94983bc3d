------------------------- MODULE MC_ReactiveImport -------------------------
(* Small instances of ReactiveImport for TLC. *)
EXTENDS ReactiveImport, TLC

CONSTANTS a, b

AB == {a, b}

OneOrder == [f \in Files |-> 1]

FromScratch == {[ledger |-> [f \in Files |-> "none"], closed |-> {},
                 content |-> [f \in Files |-> "none"]]}

\* Or nothing is left to do, or all files have failed before and are queued
\* twice.
Resumptions ==
    FromScratch
    \cup {[ledger |-> [f \in Files |-> "Completed"], closed |-> {},
           content |-> [f \in Files |-> "once"]],
          [ledger |-> [f \in Files |-> "Failed"], closed |-> {},
           content |-> [f \in Files |-> "part"]]}

FilesAreSymmetric == Permutations(Files)
=============================================================================
