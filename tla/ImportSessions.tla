-------------------------- MODULE ImportSessions --------------------------
(***************************************************************************)
(* Imports that are interrupted and resumed: ReactiveImport, with a crash  *)
(* at any moment, or a return, followed by resume_or_start (importer/      *)
(* mod.rs) and the next call of import_http_reactive.                      *)
(***************************************************************************)
EXTENDS ReactiveImport

CONSTANT MaxSessions    \* bound: how many sessions there are

VARIABLE session

sessionVars == <<vars, session>>

SessionsInit == Init /\ session = 1

\* load_import_checkpoint.  No prefix is ever recorded as in progress, and
\* what the checkpoint calls completed is completed in the shards as well, so
\* recovery and reconciliation change nothing.
ResumeOrStart ==
    /\ ledger' = saved.ledger /\ closed' = saved.closed /\ stuck' = {}
    /\ mpc' = "plan" /\ why' = "none" /\ ending' = "running"
    /\ pendingOf' = [o \in Orders |-> 0] /\ done' = [o \in Orders |-> 0]
    /\ pending' = 0 /\ retries' = 0 /\ received' = 0
    /\ active' = 0 /\ handles' = {} /\ nextId' = 0
    /\ queue' = <<>> /\ results' = <<>> /\ exits' = <<>> /\ resize' = <<>>
    /\ queueSize' = 0
    /\ pc' = [w \in Workers |-> "unborn"]
    /\ hold' = [w \in Workers |-> Nothing]
    /\ stopping' = {} /\ aborted' = {}
    /\ paused' = FALSE /\ cancelled' = FALSE /\ forced' = FALSE
    /\ target' = Parallelism /\ resizes' = 0

\* The process dies.  What is durable survives; of the rest, what the
\* operating system happens to have written.
SessionEnds ==
    /\ session < MaxSessions
    /\ mpc # "plan"
    /\ session' = session + 1
    /\ ResumeOrStart
    /\ \E kept \in SUBSET Files :
        durable' = [f \in Files |-> IF f \in kept THEN content[f] ELSE durable[f]]
    /\ content' = durable'
    /\ UNCHANGED saved

SessionsNext == (Next /\ UNCHANGED session) \/ SessionEnds

SessionsSpec == SessionsInit /\ [][SessionsNext]_sessionVars
=============================================================================
