------------------------------- MODULE MC_Cron -------------------------------
(* A one-shot task and two that recur, at different intervals. *)
EXTENDS Cron

CONSTANTS oneShot, checkpoint, report

MCTasks == {oneShot, checkpoint, report}
MCRecurring == {checkpoint, report}
MCInterval == (checkpoint :> 1) @@ (report :> 2)
==============================================================================
