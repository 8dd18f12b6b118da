------------------------------ MODULE OneOutcome ------------------------------
(***************************************************************************)
(* What every queued piece of work of this system promises to the page     *)
(* that waits for it: however often it is taken up and handed back, it     *)
(* ends, and it ends once.                                                 *)
(***************************************************************************)
VARIABLE task    \* "absent", "waiting", "active", "done" or "failed"

TaskInit == task = "absent"

Request == task = "absent" /\ task' = "waiting"
Take == task = "waiting" /\ task' = "active"
HandBack == task = "active" /\ task' = "waiting"
Complete == task = "active" /\ task' = "done"
GiveUp == task \in {"waiting", "active"} /\ task' = "failed"

TaskNext == Request \/ Take \/ HandBack \/ Complete \/ GiveUp

\* It ends at most once: what is done or failed stays so.
TaskSafety == TaskInit /\ [][TaskNext]_task

TaskSpec == TaskSafety /\ WF_task(Complete \/ GiveUp)
=============================================================================
