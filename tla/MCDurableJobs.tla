---------------------------- MODULE MCDurableJobs ----------------------------
(***************************************************************************)
(* TLC instances of DurableJobs.  The one with two crews has two workers   *)
(* and one reconciler, or, as long as no worker has taken a run,           *)
(* reconcilers that overlap, with a generation more, so that one of them   *)
(* can be two behind.                                                      *)
(***************************************************************************)
EXTENDS DurableJobs, TLC

Cron == CHOOSE r \in Reconcilers : TRUE

NoRunTaken == \A j \in Jobs, g \in Gens : arq[j][g].tries = 0

\* Bound: a worker and a second reconciler are not at work in one behaviour.
OneCrew ==
    \/ NoRunTaken
    \/ /\ \A r \in Reconcilers \ {Cron} : rec[r] = IdleRec
       /\ \A j \in Jobs : job[j].gen < MaxGen

\* Worker slots, with their lease tokens, are alike.
SlotSymmetry == Permutations(Workers)
=============================================================================
