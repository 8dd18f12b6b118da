----------------------------- MODULE DiscoveryJobs -----------------------------
(***************************************************************************)
(* Competitor discovery jobs (competitors_v22).  They have a store of      *)
(* their own with neither lease nor heartbeat: a snapshot that no          *)
(* transition has touched for a while is taken as lost by the reconciler,  *)
(* which queues it again under the same generation, whether or not its run *)
(* is still going on.  A manual retry is the only thing that raises the    *)
(* generation, and transitions do not compare it.                          *)
(* One job: jobs share nothing here but ARQ's queue.                       *)
(***************************************************************************)
EXTENDS Naturals

CONSTANTS
    DiscoveryGens,      \* bound on run_generation
    DiscoveryTries,     \* ARQ's max_tries, and V22_JOB_MAX_ATTEMPTS
    MaxStalls           \* bound: stale snapshots during a run, lost processes, and runs
                        \* that begin during a round of the reconciler

ASSUME DiscoveryAssumption == DiscoveryGens \in Nat \ {0}

VARIABLES
    disc,       \* the snapshot [status, gen, attempt, retryable, stale]
    physical,   \* [1..DiscoveryGens -> [state, tries]] ARQ's record of job:generation
    run,        \* [1..DiscoveryGens -> [pc, attempt]] the execution of that record
    recon,      \* the reconciler between its awaits [pc, status, attempt, gen]
    stalls

discVars == <<disc, physical, run, recon, stalls>>

Gens == 1..DiscoveryGens
NoRun == [pc |-> "none", attempt |-> 0]
NoRecon == [pc |-> "idle", status |-> "none", attempt |-> 0, gen |-> 1]
DiscTerminal == disc.status \in {"succeeded", "failed"}
MaxDiscAttempt == DiscoveryTries * (DiscoveryGens + 1) + MaxStalls

DiscTypeOK ==
    /\ disc \in [status : {"none", "queued", "running", "succeeded", "failed"}, gen : Gens,
                 attempt : 0..MaxDiscAttempt, retryable : BOOLEAN, stale : BOOLEAN]
    /\ physical \in [Gens -> [state : {"none", "queued", "running", "kept"}, tries : 0..DiscoveryTries]]
    /\ run \in [Gens -> [pc : {"none", "check", "begin", "work"}, attempt : 0..MaxDiscAttempt]]
    /\ recon \in [pc : {"idle", "act", "enqueue"}, status : {"none", "queued", "running"},
                  attempt : 0..MaxDiscAttempt, gen : Gens]
    /\ stalls \in 0..MaxStalls

DiscInit ==
    /\ disc = [status |-> "none", gen |-> 1, attempt |-> 0, retryable |-> FALSE, stale |-> FALSE]
    /\ physical = [g \in Gens |-> [state |-> "none", tries |-> 0]]
    /\ run = [g \in Gens |-> NoRun]
    /\ recon = NoRecon
    /\ stalls = 0

-----------------------------------------------------------------------------
(* The store *)

AllowedDisc(from, to) ==
    \/ from = "queued" /\ to \in {"queued", "running", "failed"}
    \/ from = "running" /\ to \in {"running", "queued", "succeeded", "failed"}

\* Mutant: a finished job is moved like any other.
DiscTransitionAnyTime(status, attempt, retryable) ==
    disc' = [disc EXCEPT !.status = status, !.attempt = attempt, !.retryable = retryable, !.stale = FALSE]

\* A finished job is left as it is (applied=False).  Every other transition renews
\* updated_at, which is what the reconciler goes by.
DiscTransition(status, attempt, retryable) ==
    IF DiscTerminal THEN UNCHANGED disc
    ELSE /\ AllowedDisc(disc.status, status)
         /\ disc' = [disc EXCEPT !.status = status, !.attempt = attempt,
                                 !.retryable = retryable, !.stale = FALSE]

\* register_job and the enqueue after it: the second may be lost.
SubmitDiscovery ==
    /\ disc.status = "none"
    /\ disc' = [disc EXCEPT !.status = "queued"]
    /\ physical' \in {physical, [physical EXCEPT ![1].state = "queued"]}
    /\ UNCHANGED <<run, recon, stalls>>

\* retry_failed and the enqueue after it.  attempt_count goes on counting.
RetryDiscovery ==
    /\ disc.status = "failed" /\ disc.retryable /\ disc.gen < DiscoveryGens
    /\ disc' = [disc EXCEPT !.status = "queued", !.gen = @ + 1, !.retryable = FALSE, !.stale = FALSE]
    /\ physical' \in {physical, [physical EXCEPT ![disc.gen + 1].state = "queued"]}
    /\ UNCHANGED <<run, recon, stalls>>

\* What may happen now and then, but not for ever: it is counted.
Coincidence(cond) ==
    IF cond THEN stalls < MaxStalls /\ stalls' = stalls + 1 ELSE UNCHANGED stalls

\* V22_JOB_STALE_SECONDS pass without a transition.  Without a run this is a
\* matter of time; during a run it means that the run is slow.
\* A round of the reconciler is shorter than that.
GoesStale ==
    /\ disc.status \in {"queued", "running"} /\ ~disc.stale
    /\ recon.pc = "idle"
    /\ disc' = [disc EXCEPT !.stale = TRUE]
    /\ Coincidence(\E g \in Gens : run[g].pc # "none")
    /\ UNCHANGED <<physical, run, recon>>

-----------------------------------------------------------------------------
(* execute_v22_competitor_discovery *)

\* ARQ starts a queued record, or gives it up when its tries are used.
PickDiscovery(g) ==
    /\ physical[g].state = "queued" /\ run[g].pc = "none"
    /\ Coincidence(recon.pc # "idle")
    /\ IF physical[g].tries = DiscoveryTries
       THEN physical' = [physical EXCEPT ![g].state = "kept"] /\ UNCHANGED run
       ELSE /\ physical' = [physical EXCEPT ![g] = [state |-> "running", tries |-> @.tries + 1]]
            /\ run' = [run EXCEPT ![g] = [pc |-> "check", attempt |-> 0]]
    /\ UNCHANGED <<disc, recon>>

\* The function returns or raises: ARQ keeps the result, and with it drops further
\* enqueues of the same id.
EndRun(g, state) ==
    /\ run' = [run EXCEPT ![g] = NoRun]
    /\ physical' = [physical EXCEPT ![g].state = state]
    /\ UNCHANGED <<recon, stalls>>

CheckDiscovery(g) ==
    /\ run[g].pc = "check"
    /\ UNCHANGED disc
    /\ IF DiscTerminal \/ disc.gen # g THEN EndRun(g, "kept")
       ELSE /\ run' = [run EXCEPT ![g] = [pc |-> "begin", attempt |-> disc.attempt + 1]]
            /\ UNCHANGED <<physical, recon, stalls>>

BeginDiscovery(g) ==
    /\ run[g].pc = "begin"
    /\ DiscTransition("running", run[g].attempt, FALSE)
    /\ IF DiscTerminal THEN EndRun(g, "kept")
       ELSE run' = [run EXCEPT ![g].pc = "work"] /\ UNCHANGED <<physical, recon, stalls>>

\* progress(): also moves a job that was queued again back to running.
ReportProgress(g) ==
    /\ run[g].pc = "work"
    /\ DiscTransition("running", disc.attempt, FALSE)
    /\ UNCHANGED <<physical, run, recon, stalls>>

\* The transition to succeeded raises InvalidJobTransition when the job was queued
\* again: the result is lost with the run.
FinishDiscovery(g) ==
    /\ run[g].pc = "work"
    /\ IF disc.status = "queued" THEN UNCHANGED disc ELSE DiscTransition("succeeded", disc.attempt, FALSE)
    /\ EndRun(g, "kept")

\* _finish_failure: another try with the attempt number of the run's own start,
\* or the end of the job.
FailDiscovery(g, transient) ==
    /\ run[g].pc = "work"
    /\ IF transient /\ run[g].attempt < DiscoveryTries
       THEN DiscTransition("queued", run[g].attempt, FALSE) /\ EndRun(g, "queued")
       ELSE DiscTransition("failed", run[g].attempt, transient) /\ EndRun(g, "kept")

\* A shutdown or a lost worker (ARQ delivers the record again), or ARQ's job timeout.
LoseRun(g) ==
    /\ run[g].pc # "none" /\ stalls < MaxStalls
    /\ stalls' = stalls + 1
    /\ \E state \in {"queued", "kept"} : physical' = [physical EXCEPT ![g].state = state]
    /\ run' = [run EXCEPT ![g] = NoRun]
    /\ UNCHANGED <<disc, recon>>

\* ARQ's kept result expires.
ForgetResult(g) ==
    /\ physical[g].state = "kept"
    /\ physical' = [physical EXCEPT ![g] = [state |-> "none", tries |-> 0]]
    /\ UNCHANGED <<disc, run, recon, stalls>>

-----------------------------------------------------------------------------
(* reconcile_competitor_discoveries_once *)

ReadStale ==
    /\ recon.pc = "idle" /\ disc.stale /\ ~DiscTerminal
    /\ Coincidence(\E g \in Gens : run[g].pc \in {"check", "begin"})
    /\ recon' = [pc |-> "act", status |-> disc.status, attempt |-> disc.attempt, gen |-> disc.gen]
    /\ UNCHANGED <<disc, physical, run>>

\* Mutant: the stale job is left to the run that may still be going on.
ActOnStaleRunning ==
    /\ recon.pc = "act"
    /\ IF recon.status = "running" /\ recon.attempt >= DiscoveryTries
       THEN recon' = NoRecon /\ DiscTransition("failed", disc.attempt, TRUE)
       ELSE recon' = NoRecon /\ UNCHANGED disc
    /\ UNCHANGED <<physical, run, stalls>>

\* The decision goes by the snapshot read before, the transition by the present one:
\* a run that begins in between is queued again.
ActOnStale ==
    /\ recon.pc = "act"
    /\ IF recon.status = "running" /\ recon.attempt >= DiscoveryTries
       THEN recon' = NoRecon /\ DiscTransition("failed", disc.attempt, TRUE)
       ELSE /\ DiscTransition("queued", recon.attempt, FALSE)
            /\ recon' = IF DiscTerminal THEN NoRecon ELSE [recon EXCEPT !.pc = "enqueue", !.gen = disc.gen]
    /\ UNCHANGED <<physical, run, stalls>>

\* ARQ drops an enqueue of an id that it knows.
EnqueueStale ==
    /\ recon.pc = "enqueue"
    /\ physical' = IF physical[recon.gen].state = "none"
                   THEN [physical EXCEPT ![recon.gen].state = "queued"] ELSE physical
    /\ recon' = NoRecon
    /\ UNCHANGED <<disc, run, stalls>>

LoseRecon ==
    /\ recon.pc # "idle" /\ stalls < MaxStalls
    /\ stalls' = stalls + 1
    /\ recon' = NoRecon
    /\ UNCHANGED <<disc, physical, run>>

RunEnds(g) == FinishDiscovery(g) \/ \E transient \in BOOLEAN : FailDiscovery(g, transient)

DiscNext ==
    \/ SubmitDiscovery \/ RetryDiscovery \/ GoesStale
    \/ ReadStale \/ ActOnStale \/ EnqueueStale \/ LoseRecon
    \/ \E g \in Gens : \/ PickDiscovery(g) \/ CheckDiscovery(g) \/ BeginDiscovery(g)
                       \/ ReportProgress(g) \/ RunEnds(g) \/ LoseRun(g) \/ ForgetResult(g)

\* ARQ forgets, coroutines go on, the cron runs, time passes, and ARQ does not always
\* happen to deliver just while the reconciler is at work (strong fairness).
DiscFairness ==
    /\ \A g \in Gens : /\ SF_discVars(PickDiscovery(g)) /\ WF_discVars(CheckDiscovery(g))
                       /\ WF_discVars(BeginDiscovery(g)) /\ WF_discVars(RunEnds(g))
                       /\ WF_discVars(ForgetResult(g))
    /\ WF_discVars(GoesStale /\ UNCHANGED stalls)
    /\ WF_discVars(ReadStale) /\ WF_discVars(ActOnStale) /\ WF_discVars(EnqueueStale)

DiscSpec == DiscInit /\ [][DiscNext]_discVars /\ DiscFairness

-----------------------------------------------------------------------------
(* Properties *)

\* A succeeded discovery stays succeeded, and a failed one is reopened only as the
\* next generation, by a manual retry: whatever slow runs and reconcilers still write.
DiscoveryOutcomeIsFinal ==
    [][DiscTerminal => disc' = disc \/ (disc.status = "failed" /\ disc'.gen = disc.gen + 1)]_discVars

\* Every discovery ends: also one whose run was slow, lost or refused, and one whose
\* enqueue ARQ dropped because it still kept the result of an earlier run.
DiscoveryEnds == (disc.status = "queued") ~> DiscTerminal
=============================================================================
