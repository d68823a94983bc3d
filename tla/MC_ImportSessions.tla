------------------------- MODULE MC_ImportSessions -------------------------
(* Small instances of ImportSessions for TLC. *)
EXTENDS ImportSessions, TLC

CONSTANTS a, b, c

ABC == {a, b, c}

\* c is in an order of its own.
TwoOrders == [f \in Files |-> IF f = c THEN 2 ELSE 1]

\* What earlier sessions leave: completed, failed and untouched files, in
\* an open order or in one that was completed in spite of a failure.
Left(states, complete) ==
    [ledger  |-> [f \in Files |-> states[f]], closed |-> complete,
     content |-> [f \in Files |->
                   IF states[f] = "Completed" THEN "once"
                   ELSE IF states[f] = "Failed" THEN "part" ELSE "none"]]

OneLeft(x, y, z) == Left((a :> x @@ b :> y @@ c :> z), {})

Resumed ==
    {OneLeft("Completed", "Failed", "none"), OneLeft("Failed", "Failed", "Completed"),
     OneLeft("Completed", "Completed", "Completed"),
     Left(a :> "Failed" @@ b :> "Completed" @@ c :> "none", {1})}
=============================================================================
