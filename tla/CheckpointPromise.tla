------------------------- MODULE CheckpointPromise -------------------------
(***************************************************************************)
(* What an import promises about its checkpoints, whatever threads, errors *)
(* and crashes there are: the files it records as completed are among      *)
(* those whose counts are on disk, and those never leave the disk.         *)
(***************************************************************************)
CONSTANT Files

VARIABLES
    stored,     \* files whose counts survive a crash
    recorded    \* files the checkpoint on disk calls completed

TypeOK == stored \subseteq Files /\ recorded \subseteq Files

Init == TypeOK /\ recorded \subseteq stored

\* More counts reach the disk.
Store(fs) == stored' = stored \cup fs /\ UNCHANGED recorded

\* A checkpoint is written; a failed re-import may take a file off it.
Record(fs) == fs \subseteq stored /\ recorded' = fs /\ UNCHANGED stored

Next == \E fs \in SUBSET Files : Store(fs) \/ Record(fs)

Spec == Init /\ [][Next]_<<stored, recorded>>
=============================================================================
