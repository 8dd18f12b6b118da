----------------------------- MODULE DurableJobs -----------------------------
(***************************************************************************)
(* The life of a v2.2 task across the processes that share the job store:   *)
(* the web service that submits it, the ARQ workers that execute it, the    *)
(* reconciler cron that synchronizes and recovers it, and the database that *)
(* hears of it by callbacks and by the result RPCs.                         *)
(*                                                                          *)
(* Every store call, every RPC and every queue call is a step of its own,   *)
(* so a process may be overtaken, be cancelled or crash between any two.    *)
(* ARQ, the callback receiver and the SQL functions are not in the          *)
(* repository; they are modelled from how the code relies on them.          *)
(***************************************************************************)
EXTENDS JobStore

CONSTANTS
    Workers,     \* job slots of the ARQ workers; the lease token of a run is its slot
    Reconcilers, \* reconcile_v22_jobs runs that may overlap
    Capability,  \* the jobs whose request is a capability envelope
    MaxTries,    \* max_tries of execute_v22_job
    MaxAttempts, \* V22_JOB_MAX_ATTEMPTS
    MaxSubmits,  \* bound: submissions of one job by its client
    MaxFaults    \* bound: crashes, cancellations, failed calls and lost answers, together

ASSUME SystemAssumption ==
    /\ Workers \subseteq Tokens
    /\ Workers \cap Reconcilers = {}
    /\ Capability \subseteq Jobs
    /\ {MaxTries, MaxAttempts, MaxAttempt} \subseteq Nat \ {0}
    /\ {MaxSubmits, MaxFaults} \subseteq Nat

VARIABLES
    api,      \* submissions in progress: a submit registers, then enqueues
    arq,      \* ARQ's record of each physical job: job -> generation -> state
    worker,   \* execute_v22_job in each slot
    beat,     \* maintain_heartbeat of each slot
    rec,      \* each reconcile_once
    sync,     \* CallbackSynchronizer.sync called by a worker or a reconciler
    db,       \* the analysis_jobs row, as callbacks have left it
    outcome,  \* the result the SQL functions have accepted for the job
    faults    \* faults so far

systemVars == <<api, arq, worker, beat, rec, sync, db, outcome, faults>>
vars == <<storeVars, systemVars>>

-----------------------------------------------------------------------------
Callers == Workers \cup Reconcilers

IdleWorker == [pc |-> "idle", job |-> "none", gen |-> 0, attempt |-> 0, seen |-> "none",
               err |-> "none", lost |-> FALSE, then |-> "none", retry |-> FALSE]
IdleRec    == [phase |-> "idle", todo |-> {}, skip |-> {}, late |-> {}, old |-> {}, pc |-> "next",
               job |-> "none", gen |-> 0, seen |-> "none", err |-> "none", then |-> "none",
               finish |-> FALSE, other |-> 0]
NoDispatch == [gen |-> 0, rev |-> 0, attempt |-> 0]
NoSync     == [step |-> "none", job |-> "none", rev |-> 0, gen |-> 0, attempt |-> 0,
               status |-> "none"]

Init ==
    /\ StoreInit
    /\ api = [j \in Jobs |-> [gen |-> 0, count |-> 0, seen |-> NoDispatch]]
    /\ arq = [j \in Jobs |-> [g \in Gens |-> [state |-> "absent", tries |-> 0]]]
    /\ worker = [w \in Workers |-> IdleWorker]
    /\ beat = [w \in Workers |-> "off"]
    /\ rec = [r \in Reconcilers |-> IdleRec]
    /\ sync = [p \in Callers |-> NoSync]
    /\ db = [j \in Jobs |-> [rev |-> 0, gen |-> 1, attempt |-> 0, status |-> "queued"]]
    /\ outcome = [j \in Jobs |-> [status |-> "open", gen |-> 0]]
    /\ faults = 0

-----------------------------------------------------------------------------
(* The queue.  ARQ drops an enqueue whose physical id is queued, running or  *)
(* has a kept result.                                                       *)

\* A step in which something goes wrong.
Fault == faults < MaxFaults /\ faults' = faults + 1

Enqueued(j, g) == [arq EXCEPT ![j][g].state = IF @ = "absent" THEN "queued" ELSE @]

\* ARQ's in-progress marker outlives the deadline of the job; when it lapses, a
\* run nobody finished is delivered again.
InProgressLapses(j, g) ==
    /\ arq[j][g].state = "running" /\ left[j] = 0
    /\ arq' = [arq EXCEPT ![j][g].state = "queued"]
    /\ UNCHANGED <<storeVars, api, worker, beat, rec, sync, db, outcome, faults>>

Deliver(w, j, g) ==
    /\ worker[w].pc = "idle" /\ arq[j][g].state = "queued"
    /\ IF arq[j][g].tries = MaxTries
       THEN /\ arq' = [arq EXCEPT ![j][g].state = "done"]
            /\ UNCHANGED worker
       ELSE /\ arq' = [arq EXCEPT ![j][g] = [state |-> "running", tries |-> @.tries + 1]]
            /\ worker' = [worker EXCEPT ![w] = [IdleWorker EXCEPT !.pc = "read", !.job = j, !.gen = g]]
    /\ UNCHANGED <<storeVars, api, beat, rec, sync, db, outcome, faults>>

-----------------------------------------------------------------------------
(* Submission.                                                              *)

\* submit and submit_verified enqueue only what they have registered.
Submit(j, k, d) ==
    /\ j \notin Capability
    /\ api[j].gen = 0 /\ api[j].count < MaxSubmits
    /\ \/ /\ RegisterJob(j, k, d, 1, 1, 0, Timeout)
          /\ api' = [api EXCEPT ![j].gen = 1, ![j].count = @ + 1]
       \/ /\ Replayed(j, k, d)
          /\ api' = [api EXCEPT ![j].count = @ + 1]
          /\ UNCHANGED storeVars
    /\ UNCHANGED <<arq, worker, beat, rec, sync, db, outcome, faults>>

\* submit_capability first asks SQL what it knows of the job: a finished one is
\* answered at once, one past its deadline or its attempts is refused.
AuthorizeDispatch(j) ==
    /\ j \in Capability
    /\ api[j].gen = 0 /\ api[j].seen = NoDispatch /\ api[j].count < MaxSubmits
    /\ outcome[j].status = "open" /\ db[j].status \in {"queued", "running"}
    /\ api[j].count > 0 => left[j] > 0
    /\ db[j].attempt < MaxAttempts
    /\ api' = [api EXCEPT ![j] = [gen |-> 0, count |-> @.count + 1,
                  seen |-> [gen |-> db[j].gen, rev |-> IF db[j].rev = 0 THEN 1 ELSE db[j].rev,
                            attempt |-> db[j].attempt]]]
    /\ UNCHANGED <<storeVars, arq, worker, beat, rec, sync, db, outcome, faults>>

\* Then it registers the job where SQL left it, under SQL's deadline, or finds it in
\* Redis, and enqueues what is queued, a replay included.
SubmitCapability(j, k, d) ==
    LET seen == api[j].seen
        due  == IF api[j].count = 1 THEN Timeout ELSE left[j]
    IN
    /\ seen # NoDispatch
    /\ \/ /\ RegisterJob(j, k, d, seen.gen, seen.rev, seen.attempt, due)
          /\ api' = [api EXCEPT ![j].gen = seen.gen, ![j].seen = NoDispatch]
       \/ /\ Replayed(j, k, d)
          /\ api' = [api EXCEPT ![j].seen = NoDispatch,
                       ![j].gen = IF job[j].status = "queued" /\ job[j].gen = seen.gen THEN seen.gen ELSE 0]
          /\ UNCHANGED storeVars
    /\ UNCHANGED <<arq, worker, beat, rec, sync, db, outcome, faults>>

\* The enqueue may fail, or the web service may stop before it.
SubmitEnqueue(j) ==
    /\ api[j].gen # 0
    /\ \/ arq' = Enqueued(j, api[j].gen) /\ UNCHANGED faults
       \/ UNCHANGED arq /\ Fault
    /\ api' = [api EXCEPT ![j].gen = 0]
    /\ UNCHANGED <<storeVars, worker, beat, rec, sync, db, outcome>>

-----------------------------------------------------------------------------
(* CallbackSynchronizer.sync: read the state, send it, acknowledge it.  A    *)
(* worker calls it from _notify_state and ignores the result; a reconciler  *)
(* enqueues a recovery only when it returns True.                           *)

\* Between two items a cycle remembers its lists and its clock only.
Between(r) == [IdleRec EXCEPT !.phase = rec[r].phase, !.todo = rec[r].todo, !.skip = rec[r].skip,
                              !.late = rec[r].late, !.old = rec[r].old]

Calling(j) == [NoSync EXCEPT !.step = "read", !.job = j]

\* p's call returns ok (an exception counts as False for every caller).
Return(p, ok) ==
    /\ sync' = [sync EXCEPT ![p] = NoSync]
    /\ worker' = [w \in Workers |-> IF w = p THEN [worker[w] EXCEPT !.pc = worker[w].then, !.then = "none"] ELSE worker[w]]
    /\ rec' = [r \in Reconcilers |->
                 IF r # p THEN rec[r]
                 ELSE IF ok /\ rec[r].then = "enqueue" THEN [rec[r] EXCEPT !.pc = "enqueue", !.then = "none"]
                 ELSE Between(r)]

SyncRead(p) ==
    LET j == sync[p].job IN
    /\ sync[p].step = "read"
    /\ \/ /\ ~Present(j)
          /\ IF p \in Reconcilers /\ rec[p].phase = "callbacks"
             THEN DiscardMissingJobIndexes(j) ELSE UNCHANGED storeVars
          /\ Return(p, FALSE)
       \/ /\ Present(j) /\ job[j].synced >= job[j].rev
          /\ Return(p, TRUE)
          /\ UNCHANGED storeVars
       \/ /\ Present(j) /\ job[j].synced < job[j].rev
          /\ sync' = [sync EXCEPT ![p] = [step |-> "send", job |-> j, rev |-> job[j].rev,
                                          gen |-> job[j].gen, attempt |-> job[j].attempt,
                                          status |-> job[j].status]]
          /\ UNCHANGED <<storeVars, worker, rec>>
    /\ UNCHANGED <<api, arq, beat, db, outcome, faults>>

\* The receiver applies an event only when its revision is new (external).
Applied(s) ==
    IF s.rev > db[s.job].rev
    THEN [db EXCEPT ![s.job] = [rev |-> s.rev, gen |-> s.gen, attempt |-> s.attempt,
                                   status |-> s.status]] ELSE db

SyncDelivered(p) ==
    /\ sync[p].step = "send"
    /\ db' = Applied(sync[p])
    /\ sync' = [sync EXCEPT ![p].step = "mark"]
    /\ UNCHANGED <<storeVars, api, arq, worker, beat, rec, outcome, faults>>

\* A transport error or a non-2xx answer, before or after the event was applied.
SyncFailed(p) ==
    /\ sync[p].step = "send"
    /\ db' \in {db, Applied(sync[p])}
    /\ Return(p, FALSE)
    /\ Fault
    /\ UNCHANGED <<storeVars, api, arq, beat, outcome>>

\* Mutant: whatever revision the state has by now is acknowledged.
SyncMarkCurrent(p) ==
    LET j == sync[p].job IN
    /\ sync[p].step = "mark" /\ Present(j)
    /\ MarkCallbackSynced(j, job[j].rev)
    /\ Return(p, TRUE)
    /\ UNCHANGED <<api, arq, beat, db, outcome, faults>>

SyncMark(p) ==
    LET j == sync[p].job IN
    /\ sync[p].step = "mark"
    /\ \/ /\ MarkCallbackSynced(j, sync[p].rev)
          /\ Return(p, TRUE)
       \/ /\ ~Present(j)
          /\ IF p \in Reconcilers /\ rec[p].phase = "callbacks"
             THEN DiscardMissingJobIndexes(j) ELSE UNCHANGED storeVars
          /\ Return(p, FALSE)
    /\ UNCHANGED <<api, arq, beat, db, outcome, faults>>

Sync(p) == SyncRead(p) \/ SyncDelivered(p) \/ SyncFailed(p) \/ SyncMark(p)

-----------------------------------------------------------------------------
(* execute_v22_job.                                                          *)

\* A run on its way out keeps only what the finally clause and ARQ need.
Leaving(w, retry) == [IdleWorker EXCEPT !.pc = "exit", !.job = worker[w].job, !.gen = worker[w].gen,
                                        !.retry = retry]
Leave(w, retry) == worker' = [worker EXCEPT ![w] = Leaving(w, retry)]
Fail(w, err)    == worker' = [worker EXCEPT ![w].pc = "fail", ![w].err = err]

\* An applied transition is followed by _notify_state; the run then goes on, or ends.
Notify(w, pc) ==
    /\ worker' = [worker EXCEPT ![w].pc = "sync", ![w].then = pc]
    /\ sync' = [sync EXCEPT ![w] = Calling(worker[w].job)]
NotifyAndLeave(w, retry) ==
    /\ worker' = [worker EXCEPT ![w] = [Leaving(w, retry) EXCEPT !.pc = "sync", !.then = "exit"]]
    /\ sync' = [sync EXCEPT ![w] = Calling(worker[w].job)]

ReadState(w) ==
    LET j == worker[w].job IN
    /\ worker[w].pc = "read"
    /\ \/ (Fenced(j, worker[w].gen) \/ Terminal(j)) /\ Leave(w, FALSE)
       \/ /\ ~Fenced(j, worker[w].gen) /\ ~Terminal(j)
          /\ worker' = [worker EXCEPT ![w].pc = "lease", ![w].attempt = job[j].attempt,
                                      ![w].seen = job[j].status]
    /\ UNCHANGED <<storeVars, api, arq, beat, rec, sync, db, outcome, faults>>

TakeLease(w) ==
    LET j == worker[w].job IN
    /\ worker[w].pc = "lease"
    /\ \/ /\ AcquireLease(j, worker[w].gen, w)
          /\ worker' = [worker EXCEPT ![w].pc = "begin"]
          /\ beat' = [beat EXCEPT ![w] = "wait"]
       \/ /\ lease[j] # NoLease
          /\ Leave(w, FALSE)
          /\ UNCHANGED <<storeVars, beat>>
    /\ UNCHANGED <<api, arq, rec, sync, db, outcome, faults>>

\* The cost ledger is unavailable: before the run a capability job goes back to ARQ,
\* otherwise the exception ends the run where it stands.
LedgerUnavailable(w) ==
    /\ worker[w].pc \in {"begin", "complete", "fail"}
    /\ Fault
    /\ Leave(w, worker[w].pc = "begin" /\ worker[w].job \in Capability /\ request[worker[w].job] # NoRequest)
    /\ UNCHANGED <<storeVars, api, arq, beat, rec, sync, db, outcome>>

\* The deadline, the missing request, then the transition to running.
BeginRun(w) ==
    LET j == worker[w].job
        g == worker[w].gen
        a == worker[w].attempt + 1
    IN
    /\ worker[w].pc = "begin"
    /\ \/ /\ left[j] = 0 \/ request[j] = NoRequest
          /\ Fail(w, "final")
          /\ UNCHANGED <<storeVars, sync>>
       \/ /\ left[j] > 0 /\ request[j] # NoRequest
          /\ a <= MaxAttempt
          /\ Transition(j, g, "running", a, 0, "none")
          /\ worker' = [worker EXCEPT ![w].pc = "sync", ![w].then = "exec", ![w].seen = "running",
                                      ![w].attempt = a]
          /\ sync' = [sync EXCEPT ![w] = Calling(j)]
       \/ /\ left[j] > 0 /\ request[j] # NoRequest
          /\ Refused(j, g, "running")
          /\ Leave(w, FALSE)
          /\ UNCHANGED <<storeVars, sync>>
    /\ UNCHANGED <<api, arq, beat, rec, db, outcome, faults>>

\* One report_stage of the executor; the read and the transition are fenced alike.
ReportStage(w) ==
    LET j == worker[w].job
        g == worker[w].gen
    IN
    /\ worker[w].pc = "exec"
    /\ IF worker[w].lost \/ Refused(j, g, "running") \/ job[j].status # "running"
       THEN Leave(w, FALSE) /\ UNCHANGED <<storeVars, sync>>
       ELSE Transition(j, g, "running", job[j].attempt, 0, "none") /\ Notify(w, "staged")
    /\ UNCHANGED <<api, arq, beat, rec, db, outcome, faults>>

\* persist: the SQL function accepts the report of the generation the database
\* knows, once, and answers a repetition with idempotent = true (external).
\* Mutant: a result is accepted after SQL has failed the task.
AcceptsResultLate(j, g) == db[j].gen = g

AcceptsResult(j, g) == db[j].gen = g /\ outcome[j].status \in {"open", "succeeded"}
Accepted(j, g) ==
    [outcome EXCEPT ![j] = IF @.status = "open" THEN [status |-> "succeeded", gen |-> g] ELSE @]

\* Mutant: the run goes on without waiting for the RPC.
PersistInBackground(w) ==
    /\ worker[w].pc = "staged"
    /\ outcome' \in {outcome, Accepted(worker[w].job, worker[w].gen)}
    /\ worker' = [worker EXCEPT ![w].pc = "complete"]
    /\ UNCHANGED <<storeVars, api, arq, beat, rec, sync, db, faults>>

Persist(w) ==
    LET j == worker[w].job
        g == worker[w].gen
    IN
    /\ worker[w].pc = "staged"
    /\ \/ /\ AcceptsResult(j, g)
          /\ outcome' = Accepted(j, g)
          /\ \/ /\ IF worker[w].lost THEN Leave(w, FALSE)
                   ELSE worker' = [worker EXCEPT ![w].pc = "complete"]
                /\ UNCHANGED faults
             \/ /\ Fail(w, IF left[j] = 0 THEN "final" ELSE "retryable")   \* no answer
                /\ Fault
       \/ /\ ~AcceptsResult(j, g)
          /\ \E e \in {"retryable", "final"} : Fail(w, e)
          /\ UNCHANGED <<outcome, faults>>
    /\ UNCHANGED <<storeVars, api, arq, beat, rec, sync, db>>

\* The executor fails; wait_for's end of it at the deadline is a final failure.
ExecutorFails(w) ==
    /\ worker[w].pc \in {"exec", "staged"}
    /\ Fault
    /\ \E e \in {"retryable", "final"} : Fail(w, e)
    /\ UNCHANGED <<storeVars, api, arq, beat, rec, sync, db, outcome>>

Complete(w) ==
    LET j == worker[w].job
        g == worker[w].gen
    IN
    /\ worker[w].pc = "complete"
    /\ \/ Transition(j, g, "succeeded", job[j].attempt, g, "none") /\ NotifyAndLeave(w, FALSE)
       \/ Refused(j, g, "succeeded") /\ Leave(w, FALSE) /\ UNCHANGED <<storeVars, sync>>
    /\ UNCHANGED <<api, arq, beat, rec, db, outcome, faults>>

\* _finish_failure: back to queued while attempts remain, else a terminal state.
AttemptCount(w) == IF worker[w].attempt > 1 THEN worker[w].attempt ELSE 1
Retries(w) == worker[w].err = "retryable" /\ AttemptCount(w) < MaxAttempts

FinishRetry(w) ==
    LET j == worker[w].job
        g == worker[w].gen
    IN
    /\ worker[w].pc = "fail" /\ Retries(w)
    /\ \/ /\ Transition(j, g, "queued", AttemptCount(w), 0, "none")
          /\ NotifyAndLeave(w, TRUE)
       \/ Fenced(j, g) /\ Leave(w, FALSE) /\ UNCHANGED <<storeVars, sync>>
       \/ Settled(j, g) /\ Leave(w, TRUE) /\ UNCHANGED <<storeVars, sync>>
    /\ UNCHANGED <<api, arq, beat, rec, db, outcome, faults>>

\* finalize_v22_capability_failure (external): SQL keeps an accepted result, and
\* otherwise fails the job when asked to; a generation it has moved past is refused.
DecidesFailure(j, g) == db[j].gen <= g /\ outcome[j].status # "succeeded"
Failed(j) ==
    [outcome EXCEPT ![j] = IF @.status = "open" THEN [status |-> "failed", gen |-> 0] ELSE @]

\* capability_terminal_transition asks SQL first; without an answer ARQ retries.
WorkerUndecided(w) ==
    /\ worker[w].pc = "fail" /\ ~Retries(w)
    /\ worker[w].job \in Capability /\ request[worker[w].job] # NoRequest
    /\ Fault
    /\ Leave(w, TRUE)
    /\ UNCHANGED <<storeVars, api, arq, beat, rec, sync, db, outcome>>

WorkerDecide(w) ==
    LET j == worker[w].job IN
    /\ worker[w].pc = "fail" /\ ~Retries(w)
    /\ j \in Capability /\ request[j] # NoRequest
    /\ \/ /\ outcome[j].status = "succeeded"
          /\ worker' = [worker EXCEPT ![w].pc = "restore"]
          /\ UNCHANGED outcome
       \/ /\ DecidesFailure(j, worker[w].gen)
          /\ outcome' = Failed(j)
          /\ worker' = [worker EXCEPT ![w].pc = "end"]
       \/ /\ outcome[j].status # "succeeded" /\ ~DecidesFailure(j, worker[w].gen)
          /\ Leave(w, TRUE)
          /\ UNCHANGED outcome
    /\ UNCHANGED <<storeVars, api, arq, beat, rec, sync, db, faults>>

\* A report SQL already has is restored through running.
WorkerRestore(w) ==
    LET j == worker[w].job
        g == worker[w].gen
        s == IF worker[w].seen = "queued" THEN "running" ELSE "succeeded"
    IN
    /\ worker[w].pc = "restore"
    /\ \/ /\ s = "running" /\ Transition(j, g, s, job[j].attempt, 0, "none")
          /\ worker' = [worker EXCEPT ![w].seen = "running"]
          /\ UNCHANGED sync
       \/ /\ s = "succeeded" /\ Transition(j, g, s, job[j].attempt, outcome[j].gen, "none")
          /\ NotifyAndLeave(w, FALSE)
       \/ Refused(j, g, s) /\ Leave(w, FALSE) /\ UNCHANGED <<storeVars, sync>>
    /\ UNCHANGED <<api, arq, beat, rec, db, outcome, faults>>

\* The failed transition, of a job SQL has failed or of one it is not asked about;
\* only the latter writes the attempt count.
FinishFailed(w) ==
    LET j == worker[w].job
        g == worker[w].gen
        a == IF worker[w].pc = "end" THEN job[j].attempt ELSE AttemptCount(w)
    IN
    /\ \/ worker[w].pc = "end"
       \/ worker[w].pc = "fail" /\ ~Retries(w) /\ (j \notin Capability \/ request[j] = NoRequest)
    /\ \/ Transition(j, g, "failed", a, 0, worker[w].err) /\ NotifyAndLeave(w, FALSE)
       \/ Refused(j, g, "failed") /\ Leave(w, FALSE) /\ UNCHANGED <<storeVars, sync>>
    /\ UNCHANGED <<api, arq, beat, rec, db, outcome, faults>>

\* The finally clause: the heartbeat stops and the lease is released ...
Release(w) ==
    LET j == worker[w].job
        g == worker[w].gen
    IN
    /\ worker[w].pc = "exit"
    /\ IF beat[w] # "off" /\ HoldsLease(j, g, w) THEN ReleaseLease(j, g, w) ELSE UNCHANGED storeVars
    /\ beat' = [beat EXCEPT ![w] = "off"]
    /\ worker' = [worker EXCEPT ![w].pc = "ack"]
    /\ UNCHANGED <<api, arq, rec, sync, db, outcome, faults>>

\* ... and ARQ keeps the result or, after Retry and after a shutdown, the job.
Ack(w) ==
    /\ worker[w].pc = "ack"
    /\ arq' = [arq EXCEPT ![worker[w].job][worker[w].gen].state =
                 IF worker[w].retry THEN "queued" ELSE "done"]
    /\ worker' = [worker EXCEPT ![w] = IdleWorker]
    /\ UNCHANGED <<storeVars, api, beat, rec, sync, db, outcome, faults>>

\* CancelledError: a worker shutdown (ARQ keeps the job) or ARQ's own timeout.
\* The call in flight, a callback included, is abandoned.
Cancelled(w) ==
    /\ worker[w].pc \in {"begin", "sync", "exec", "staged", "complete", "fail"}
    /\ Fault
    /\ \E retry \in BOOLEAN : (retry \/ left[worker[w].job] = 0) /\ Leave(w, retry)
    /\ sync' = [sync EXCEPT ![w] = NoSync]
    /\ UNCHANGED <<storeVars, api, arq, beat, rec, db, outcome>>

WorkerCrash(w) ==
    /\ worker[w].pc # "idle"
    /\ Fault
    /\ worker' = [worker EXCEPT ![w] = IdleWorker]
    /\ beat' = [beat EXCEPT ![w] = "off"]
    /\ sync' = [sync EXCEPT ![w] = NoSync]
    /\ UNCHANGED <<storeVars, api, arq, rec, db, outcome>>

-----------------------------------------------------------------------------
(* maintain_heartbeat: refresh the lease, read the status, write it back.    *)

BeatRefresh(w) ==
    LET j == worker[w].job
        g == worker[w].gen
    IN
    /\ beat[w] = "due"
    /\ \/ /\ RefreshLease(j, g, w)
          /\ beat' = [beat EXCEPT ![w] = IF Present(j) /\ ~Terminal(j) THEN job[j].status ELSE "wait"]
          /\ UNCHANGED worker
       \/ /\ ~HoldsLease(j, g, w)
          /\ beat' = [beat EXCEPT ![w] = "lost"]
          /\ worker' = [worker EXCEPT ![w].lost = TRUE]
          /\ UNCHANGED storeVars
    /\ UNCHANGED <<api, arq, rec, sync, db, outcome, faults>>

\* Mutant: the heartbeat refreshes the activity index without a new revision.
BeatWriteIndexOnly(w) ==
    LET j == worker[w].job IN
    /\ beat[w] \in {"queued", "running"} /\ Present(j)
    /\ active' = [active EXCEPT ![j] = 0]
    /\ beat' = [beat EXCEPT ![w] = "wait"]
    /\ UNCHANGED <<job, left, expires, request, idem, syncPending, recovery, lease, api, arq, worker, rec, sync, db, outcome, faults>>

BeatWrite(w) ==
    LET j == worker[w].job
        g == worker[w].gen
    IN
    /\ beat[w] \in {"queued", "running"}
    /\ \/ /\ Transition(j, g, beat[w], job[j].attempt, 0, "none")
          /\ beat' = [beat EXCEPT ![w] = "wait"]
          /\ UNCHANGED worker
       \/ /\ Present(j) /\ job[j].gen # g
          /\ beat' = [beat EXCEPT ![w] = "lost"]
          /\ worker' = [worker EXCEPT ![w].lost = TRUE]
          /\ UNCHANGED storeVars
       \/ /\ ~Present(j) \/ Settled(j, g)
          /\ beat' = [beat EXCEPT ![w] = "wait"]
          /\ UNCHANGED <<storeVars, worker>>
    /\ UNCHANGED <<api, arq, rec, sync, db, outcome, faults>>

Work(w) ==
    \/ \E j \in Jobs, g \in Gens : Deliver(w, j, g)
    \/ ReadState(w) \/ TakeLease(w) \/ LedgerUnavailable(w) \/ BeginRun(w) \/ ReportStage(w) \/ Persist(w)
    \/ ExecutorFails(w) \/ Complete(w) \/ FinishRetry(w) \/ WorkerUndecided(w) \/ WorkerDecide(w)
    \/ WorkerRestore(w) \/ FinishFailed(w) \/ Release(w) \/ Ack(w) \/ Cancelled(w)
    \/ WorkerCrash(w) \/ BeatRefresh(w) \/ BeatWrite(w)

-----------------------------------------------------------------------------
(* reconcile_once: the pending recoveries, the pending callbacks, then the   *)
(* stale jobs, each list read when its phase begins; the clock is read once. *)

Step(r, pc) == rec' = [rec EXCEPT ![r] = IF pc = "next" THEN Between(r) ELSE [@ EXCEPT !.pc = pc]]
Abort(r)    == rec' = [rec EXCEPT ![r] = IdleRec]   \* an exception leaves the cycle

\* Mutant: the reconciler goes on without the callback.
RecNotifySkipped(r, pc) ==
    /\ rec' = [rec EXCEPT ![r] = IF pc = "none" THEN Between(r) ELSE [@ EXCEPT !.pc = pc]]
    /\ UNCHANGED sync

RecNotify(r, pc) ==
    /\ rec' = [rec EXCEPT ![r].pc = "sync", ![r].then = pc]
    /\ sync' = [sync EXCEPT ![r] = Calling(rec[r].job)]

BeginCycle(r) ==
    LET pending == {j \in Jobs : recovery[j] > 0} IN
    /\ rec[r].phase = "idle"
    /\ rec' = [rec EXCEPT ![r] = [IdleRec EXCEPT !.phase = "recoveries",
                  !.todo = {<<j, recovery[j]>> : j \in pending}, !.skip = pending,
                  !.late = {j \in Jobs : left[j] = 0}, !.old = {j \in Jobs : active[j] >= Stale}]]
    /\ UNCHANGED <<storeVars, api, arq, worker, beat, sync, db, outcome, faults>>

\* Mutant: a cycle has no callback phase.
NextPhaseNoCallbacks(r) ==
    /\ rec[r].pc = "next" /\ rec[r].todo = {}
    /\ \/ /\ rec[r].phase = "recoveries"
          /\ rec' = [rec EXCEPT ![r].phase = "stale",
                       ![r].todo = {<<j, 0>> : j \in {i \in rec[r].old : active[i] >= Stale}},
                       ![r].skip = {}, ![r].old = {}]
       \/ rec[r].phase = "stale" /\ Abort(r)
    /\ UNCHANGED <<storeVars, api, arq, worker, beat, sync, db, outcome, faults>>

NextPhase(r) ==
    /\ rec[r].pc = "next" /\ rec[r].todo = {}
    /\ \/ /\ rec[r].phase = "recoveries"
          /\ rec' = [rec EXCEPT ![r].phase = "callbacks",
                       ![r].todo = {<<j, 0>> : j \in {i \in Jobs \ rec[r].skip : syncPending[i] > 0}},
                       ![r].skip = {}]
       \/ /\ rec[r].phase = "callbacks"
          /\ rec' = [rec EXCEPT ![r].phase = "stale",
                       ![r].todo = {<<j, 0>> : j \in {i \in rec[r].old : active[i] >= Stale}},
                       ![r].old = {}]
       \/ rec[r].phase = "stale" /\ Abort(r)
    /\ UNCHANGED <<storeVars, api, arq, worker, beat, sync, db, outcome, faults>>

NextItem(r) ==
    /\ rec[r].pc = "next"
    /\ \E item \in rec[r].todo :
          /\ rec' = [rec EXCEPT ![r].todo = @ \ {item}, ![r].job = item[1], ![r].gen = item[2],
                       ![r].pc = CASE rec[r].phase = "recoveries" -> "recover"
                                   [] rec[r].phase = "callbacks"  -> "sync"
                                   [] rec[r].phase = "stale"      -> "stale"]
          /\ sync' = IF rec[r].phase = "callbacks" THEN [sync EXCEPT ![r] = Calling(item[1])] ELSE sync
    /\ UNCHANGED <<storeVars, api, arq, worker, beat, db, outcome, faults>>

\* Mutant: a job past its deadline is passed over.
DecisionNever(j, finish) == IF finish THEN "next" ELSE "takeover"

\* SQL is asked first about a capability job that has its request; a job is then
\* failed, or only taken over.
Decision(j, finish) ==
    IF j \in Capability /\ request[j] # NoRequest THEN "decide"
    ELSE IF finish THEN "fail" ELSE "takeover"

\* _finish_pending_recovery up to the callback: the database hears of the new
\* generation before a worker can.
Recover(r) ==
    LET j == rec[r].job
        g == rec[r].gen
        drop == recovery[j] = g
    IN
    /\ rec[r].pc = "recover"
    /\ \/ /\ ~Present(j)
          /\ IF drop THEN DiscardMissingJobRecovery(j, g) ELSE UNCHANGED storeVars
          /\ Step(r, "next")
          /\ UNCHANGED sync
       \/ /\ Present(j) /\ (job[j].gen # g \/ Terminal(j))
          /\ IF drop THEN DiscardPendingRecovery(j, g) ELSE UNCHANGED storeVars
          /\ Step(r, "next")
          /\ UNCHANGED sync
       \/ /\ ~Fenced(j, g) /\ ~Terminal(j)
          /\ IF j \in rec[r].late
             THEN /\ rec' = [rec EXCEPT ![r].pc = Decision(j, TRUE), ![r].seen = job[j].status,
                                        ![r].err = "final", ![r].finish = TRUE]
                  /\ UNCHANGED sync
             ELSE IF job[j].synced < job[j].rev THEN RecNotify(r, "enqueue")
             ELSE Step(r, "enqueue") /\ UNCHANGED sync
          /\ UNCHANGED storeVars
    /\ UNCHANGED <<api, arq, worker, beat, db, outcome, faults>>

RecEnqueue(r) ==
    /\ rec[r].pc = "enqueue"
    /\ \/ arq' = Enqueued(rec[r].job, rec[r].gen) /\ Step(r, "close") /\ UNCHANGED faults
       \/ UNCHANGED arq /\ Step(r, "next") /\ Fault
    /\ UNCHANGED <<storeVars, api, worker, beat, sync, db, outcome>>

RecClose(r) ==
    LET j == rec[r].job
        g == rec[r].gen
    IN
    /\ rec[r].pc = "close"
    /\ IF Present(j) /\ recovery[j] = g /\ job[j].gen = g
       THEN MarkRecoveryEnqueued(j, g) ELSE UNCHANGED storeVars
    /\ Step(r, "next")
    /\ UNCHANGED <<api, arq, worker, beat, sync, db, outcome, faults>>

\* The stale scan reads the state ...
Exhausted(j) == job[j].status = "running" /\ job[j].attempt >= MaxAttempts

ReadStale(r) ==
    LET j == rec[r].job
        late == j \in rec[r].late
    IN
    /\ rec[r].pc = "stale"
    /\ \/ ~Present(j) /\ DiscardMissingJobIndexes(j) /\ Step(r, "next")
       \/ Present(j) /\ Terminal(j) /\ UNCHANGED storeVars /\ Step(r, "next")
       \/ /\ Present(j) /\ ~Terminal(j)
          /\ rec' = [rec EXCEPT ![r].pc = "pending", ![r].gen = job[j].gen, ![r].seen = job[j].status,
                                ![r].err = IF late THEN "final" ELSE "retryable",
                                ![r].finish = late \/ Exhausted(j)]
          /\ UNCHANGED storeVars
    /\ UNCHANGED <<api, arq, worker, beat, sync, db, outcome, faults>>

\* ... then the pending generation, which another reconciler may have opened since:
\* a generation it does not know is discarded, its own one is left to its barrier.
ReadPending(r) ==
    LET j == rec[r].job
        late == j \in rec[r].late
    IN
    /\ rec[r].pc = "pending"
    /\ \/ /\ recovery[j] \notin {0, rec[r].gen}
          /\ rec' = [rec EXCEPT ![r].pc = "discard", ![r].other = recovery[j]]
       \/ recovery[j] # 0 /\ recovery[j] = rec[r].gen /\ ~late /\ Step(r, "next")
       \/ /\ recovery[j] = 0 \/ (recovery[j] = rec[r].gen /\ late)
          /\ Step(r, Decision(j, rec[r].finish))
    /\ UNCHANGED <<storeVars, api, arq, worker, beat, sync, db, outcome, faults>>

DiscardOther(r) ==
    LET j == rec[r].job
        g == rec[r].other
    IN
    /\ rec[r].pc = "discard"
    /\ IF recovery[j] = g THEN DiscardPendingRecovery(j, g) ELSE UNCHANGED storeVars
    /\ rec' = [rec EXCEPT ![r].pc = Decision(j, rec[r].finish), ![r].other = 0]
    /\ UNCHANGED <<api, arq, worker, beat, sync, db, outcome, faults>>

\* capability_terminal_transition; with finish = FALSE it only probes SQL.
RecDecide(r) ==
    LET j == rec[r].job IN
    /\ rec[r].pc = "decide"
    /\ \/ /\ outcome[j].status = "succeeded"
          /\ Step(r, "restore")
          /\ UNCHANGED outcome
       \/ /\ outcome[j].status = "failed" \/ (rec[r].finish /\ DecidesFailure(j, rec[r].gen))
          /\ outcome' = Failed(j)
          /\ Step(r, "fail")
       \/ /\ outcome[j].status = "open" /\ ~rec[r].finish
          /\ Step(r, "takeover")
          /\ UNCHANGED outcome
       \/ /\ outcome[j].status = "open" /\ rec[r].finish /\ ~DecidesFailure(j, rec[r].gen)
          /\ Step(r, "next")
          /\ UNCHANGED outcome
    /\ UNCHANGED <<storeVars, api, arq, worker, beat, sync, db, faults>>

\* SQL is unavailable: the job stays as it is until a later cycle.
RecUndecided(r) ==
    /\ rec[r].pc = "decide"
    /\ Fault
    /\ Step(r, "next")
    /\ UNCHANGED <<storeVars, api, arq, worker, beat, sync, db, outcome>>

RecRestore(r) ==
    LET j == rec[r].job
        g == rec[r].gen
        s == IF rec[r].seen = "queued" THEN "running" ELSE "succeeded"
    IN
    /\ rec[r].pc = "restore"
    /\ \/ /\ s = "running" /\ Transition(j, g, s, job[j].attempt, 0, "none")
          /\ rec' = [rec EXCEPT ![r].seen = "running"]
          /\ UNCHANGED sync
       \/ /\ s = "succeeded" /\ Transition(j, g, s, job[j].attempt, outcome[j].gen, "none")
          /\ RecNotify(r, "none")
       \/ /\ Settled(j, g) /\ Step(r, "next")
          /\ UNCHANGED <<storeVars, sync>>
       \/ /\ Fenced(j, g) \/ Disallowed(j, g, s)
          /\ Abort(r)
          /\ UNCHANGED <<storeVars, sync>>
    /\ UNCHANGED <<api, arq, worker, beat, db, outcome, faults>>

RecFail(r) ==
    LET j == rec[r].job
        g == rec[r].gen
    IN
    /\ rec[r].pc = "fail"
    /\ \/ /\ Transition(j, g, "failed", job[j].attempt, 0, rec[r].err)
          /\ RecNotify(r, "none")
       \/ Settled(j, g) /\ Step(r, "next") /\ UNCHANGED <<storeVars, sync>>
       \/ Fenced(j, g) /\ Abort(r) /\ UNCHANGED <<storeVars, sync>>
    /\ UNCHANGED <<api, arq, worker, beat, db, outcome, faults>>

\* The takeover is refused for a job that has moved on.
TakeOver(r) ==
    LET j == rec[r].job
        g == rec[r].gen
    IN
    /\ rec[r].pc = "takeover"
    /\ \/ TakeOverStale(j, g) /\ Step(r, "reread")
       \/ /\ Present(j) /\ (Fenced(j, g) \/ Terminal(j) \/ recovery[j] # 0)
          /\ Step(r, "reread")
          /\ UNCHANGED storeVars
       \/ ~Present(j) /\ Abort(r) /\ UNCHANGED storeVars
    /\ UNCHANGED <<api, arq, worker, beat, sync, db, outcome, faults>>

\* Whatever generation is pending by now is then finished at once.
RereadPending(r) ==
    LET g == recovery[rec[r].job] IN
    /\ rec[r].pc = "reread"
    /\ IF g = 0 THEN Step(r, "next") ELSE rec' = [rec EXCEPT ![r].pc = "recover", ![r].gen = g]
    /\ UNCHANGED <<storeVars, api, arq, worker, beat, sync, db, outcome, faults>>

RecCrash(r) ==
    /\ rec[r].phase # "idle"
    /\ Fault
    /\ Abort(r)
    /\ sync' = [sync EXCEPT ![r] = NoSync]
    /\ UNCHANGED <<storeVars, api, arq, worker, beat, db, outcome>>

\* The steps that a running reconciler takes by itself.
Reconcile(r) ==
    \/ BeginCycle(r) \/ NextPhase(r) \/ NextItem(r) \/ Recover(r) \/ RecEnqueue(r) \/ RecClose(r)
    \/ ReadStale(r) \/ ReadPending(r) \/ DiscardOther(r) \/ RecDecide(r) \/ RecUndecided(r) \/ RecRestore(r) \/ RecFail(r) \/ TakeOver(r)
    \/ RereadPending(r)

-----------------------------------------------------------------------------
\* A tick makes one heartbeat due of every run that has a lease; past the deadline
\* wait_for has ended the executor and the heartbeat with it.  A dispatch is one web
\* request, far shorter than a tick.
Tick ==
    /\ \E j \in Jobs : Present(j)
    /\ \A j \in Jobs : api[j].seen = NoDispatch
    /\ StoreTick
    /\ beat' = [w \in Workers |-> IF beat[w] = "wait" /\ left[worker[w].job] > 0 THEN "due" ELSE beat[w]]
    /\ UNCHANGED <<api, arq, worker, rec, sync, db, outcome, faults>>

Next ==
    \/ \E j \in Jobs, k \in Keys, d \in Digests : Submit(j, k, d)
    \/ \E j \in Jobs, k \in Keys, d \in Digests : SubmitCapability(j, k, d)
    \/ \E j \in Jobs : AuthorizeDispatch(j) \/ SubmitEnqueue(j)
    \/ \E j \in Jobs, g \in Gens : InProgressLapses(j, g)
    \/ \E w \in Workers : Work(w)
    \/ \E p \in Callers : Sync(p)
    \/ \E r \in Reconcilers : Reconcile(r) \/ RecCrash(r)
    \/ Tick

Spec == Init /\ [][Next]_vars

\* Time passes, the cron starts a cycle again and again, and a cycle that does not
\* fail goes on.  Nothing is assumed of the workers or of the web service.
Fairness ==
    /\ WF_vars(Tick)
    /\ \A r \in Reconcilers : WF_vars(Reconcile(r)) /\ WF_vars(Sync(r))

FairSpec == Spec /\ Fairness

-----------------------------------------------------------------------------
(* What the system promises.                                                *)

\* The local state of the processes, and what the database and ARQ record of a job.
Dispatch    == [gen: 0..MaxGen, rev: 0..MaxRev, attempt: 0..MaxAttempt]
ApiState    == [gen: 0..MaxGen, count: 0..MaxSubmits, seen: Dispatch]
ArqState    == [state: {"absent", "queued", "running", "done"}, tries: 0..MaxTries]
WorkerState ==
    [pc: {"idle", "read", "lease", "begin", "sync", "exec", "staged", "complete", "fail", "restore",
          "end", "exit", "ack"},
     job: Jobs \cup {"none"}, gen: 0..MaxGen, attempt: 0..MaxAttempt, seen: Statuses \cup {"none"},
     err: Errors, lost: BOOLEAN, then: {"none", "exec", "staged", "exit"}, retry: BOOLEAN]
BeatStates  == {"off", "wait", "due", "queued", "running", "lost"}
RecState    ==
    [phase: {"idle", "recoveries", "callbacks", "stale"}, todo: SUBSET (Jobs \X (0..MaxGen)),
     skip: SUBSET Jobs, late: SUBSET Jobs, old: SUBSET Jobs,
     pc: {"next", "recover", "sync", "enqueue", "close", "stale", "pending", "discard", "decide",
          "restore", "fail", "takeover", "reread"},
     job: Jobs \cup {"none"}, gen: 0..MaxGen, seen: Statuses \cup {"none"}, err: Errors,
     then: {"none", "enqueue"}, finish: BOOLEAN, other: 0..MaxGen]
SyncState   ==
    [step: {"none", "read", "send", "mark"}, job: Jobs \cup {"none"}, rev: 0..MaxRev, gen: 0..MaxGen,
     attempt: 0..MaxAttempt, status: Statuses \cup {"none"}]
RowState    == [rev: 0..MaxRev, gen: Gens, attempt: 0..MaxAttempt, status: Statuses]
Outcomes    == [status: {"open", "succeeded", "failed"}, gen: 0..MaxGen]

\* The type invariant: the store's, and the local state of every process.
TypeOK ==
    /\ StoreTypeOK
    /\ api \in [Jobs -> ApiState]
    /\ arq \in [Jobs -> [Gens -> ArqState]]
    /\ worker \in [Workers -> WorkerState]
    /\ beat \in [Workers -> BeatStates]
    /\ rec \in [Reconcilers -> RecState]
    /\ sync \in [Callers -> SyncState]
    /\ db \in [Jobs -> RowState]
    /\ outcome \in [Jobs -> Outcomes]
    /\ faults \in 0..MaxFaults

\* Every change to Redis is an operation of the store's specification, so what is
\* proved of the store under any client holds of this system.
StoreIsRespected == [][UNCHANGED storeVars \/ StoreNext]_storeVars

\* A recovery generation is never offered to a worker before the database has
\* heard of it, across crashes of the reconciler, lost answers and overlapping
\* reconcilers: without it the new run's result would be refused, or the old
\* run's accepted.
RecoveryBarrier ==
    \A j \in Jobs, g \in Gens : g > 1 /\ arq[j][g].state # "absent" => db[j].gen >= g

\* A superseded run cannot publish: once a later generation has been offered to a
\* worker, the database accepts no report of an earlier one.
NoSupersededResult ==
    [][\A j \in Jobs : outcome'[j].gen # outcome[j].gen =>
          \A g \in Gens : g > outcome'[j].gen => arq[j][g].state = "absent"]_vars

\* A task reported as succeeded has its report in the database.
SucceededIsPersisted ==
    \A j \in Jobs : job[j].status = "succeeded" => outcome[j].status = "succeeded"

\* An acknowledged revision was delivered: the database holds it or a later one.
AcknowledgedIsDelivered ==
    \A j \in Jobs : Present(j) => job[j].synced <= db[j].rev

\* The database row of a finished task never changes its status again, whatever
\* order the callbacks of the workers and the reconcilers arrive in.
DatabaseOutcomeIsFinal ==
    [][\A j \in Jobs : db[j].status \in {"succeeded", "failed"} => db'[j].status = db[j].status]_vars

\* Every accepted task ends, even when its enqueue was lost, every worker that took
\* it hangs, and its callbacks fail: the reconciler fails what misses its deadline.
EventuallyFinished == \A j \in Jobs : Present(j) ~> Terminal(j)

\* The database learns how a finished task ended, though workers that should have
\* told it are gone.
EventuallyReported ==
    \A j \in Jobs : Terminal(j) ~> Terminal(j) /\ db[j].status = job[j].status

\* The bound the design states: a logical task is executed at most MaxAttempts times.
AttemptsBounded == \A j \in Jobs : job[j].attempt <= MaxAttempts

\* SQL decides the end of a capability task: Redis never shows another outcome.
CapabilityOutcomeAgrees ==
    \A j \in Capability : Terminal(j) => job[j].status = outcome[j].status

=============================================================================
