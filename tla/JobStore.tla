------------------------------- MODULE JobStore -------------------------------
(***************************************************************************)
(* The Redis-backed store of logical v2.2 tasks (DurableJobStore).  Every   *)
(* operation is one WATCH / MULTI / EXEC transaction that is retried until  *)
(* it commits, so every operation is one atomic action here.                *)
(*                                                                          *)
(* The specification at the end is the store under its most general client: *)
(* any operation, with any arguments, at any time.  What holds of it holds  *)
(* whatever the web service, the workers and the reconcilers do.            *)
(*                                                                          *)
(* Time is kept as ages and remaining times that Tick moves: the score of a *)
(* job in the active index is its age, a key with a TTL has ticks left.     *)
(***************************************************************************)
EXTENDS Integers, FiniteSets

CONSTANTS
    Jobs,       \* logical job identifiers
    Keys,       \* idempotency keys (each stands for a Case and a client key)
    Digests,    \* digests of request payloads
    Tokens,     \* lease tokens
    MaxGen,     \* bound: run generations
    MaxRev,     \* bound: state revisions
    MaxAttempt, \* bound: attempt counts
    Timeout,    \* job_timeout_seconds, in ticks
    Stale,      \* V22_JOB_STALE_SECONDS, in ticks: ages saturate here
    LeaseTTL,   \* V22_JOB_LEASE_SECONDS, in ticks
    StateTTL    \* state_ttl_seconds, in ticks; 0: beyond the run's horizon

ASSUME BoundsAssumption ==
    /\ {MaxGen, MaxRev, Timeout, LeaseTTL} \subseteq Nat \ {0}
    /\ {MaxAttempt, Stale, StateTTL} \subseteq Nat

\* "none" is Python's None: no identifier.
ASSUME NoneAssumption == "none" \notin Jobs \cup Keys \cup Digests \cup Tokens

VARIABLES
    job,        \* the state snapshot of each job, Missing when the key is absent
    left,       \* ticks left until deadline_at of the job
    expires,    \* ticks left of the state key's TTL
    request,    \* ticks left of the request key's TTL; NoRequest when absent
    idem,       \* the idempotency index: key -> identity
    active,     \* age of the job's entry in the active index, NotActive if absent
    syncPending,\* the sync-pending index: score (a revision), 0 when absent
    recovery,   \* the recovery-pending index: score (a generation), 0 when absent
    lease       \* the lease key of each job

storeVars == <<job, left, expires, request, idem, active, syncPending, recovery, lease>>

-----------------------------------------------------------------------------
Statuses == {"queued", "running", "succeeded", "failed"}
Errors   == {"none", "retryable", "final"}
Gens     == 1..MaxGen
NotActive == -1
NoRequest == -1

\* report holds the generation that produced it, 0 for None.
JobState ==
    [status: Statuses \cup {"absent"}, attempt: 0..MaxAttempt, gen: 0..MaxGen,
     rev: 0..MaxRev, synced: 0..MaxRev, report: 0..MaxGen, error: Errors,
     key: Keys \cup {"none"}, digest: Digests \cup {"none"}]

Missing ==
    [status |-> "absent", attempt |-> 0, gen |-> 0, rev |-> 0, synced |-> 0,
     report |-> 0, error |-> "none", key |-> "none", digest |-> "none"]

Identity == [job: Jobs \cup {"none"}, digest: Digests \cup {"none"}, ttl: 0..StateTTL]
Lease    == [gen: 0..MaxGen, token: Tokens \cup {"none"}, ttl: 0..LeaseTTL]

NoIdentity == [job |-> "none", digest |-> "none", ttl |-> 0]
NoLease    == [gen |-> 0, token |-> "none", ttl |-> 0]

Present(j)  == job[j].status # "absent"
Terminal(j) == job[j].status \in {"succeeded", "failed"}

AllowedTransitions ==
    [queued    |-> {"queued", "running", "failed"},
     running   |-> {"running", "queued", "succeeded", "failed"},
     succeeded |-> {},
     failed    |-> {}]

\* The type invariant of the store: every snapshot is a JobState, every index
\* score and every remaining time is in its range.
StoreTypeOK ==
    /\ job \in [Jobs -> JobState]
    /\ left \in [Jobs -> 0..Timeout]
    /\ expires \in [Jobs -> 0..StateTTL]
    /\ request \in [Jobs -> NoRequest..StateTTL]
    /\ idem \in [Keys -> Identity]
    /\ active \in [Jobs -> NotActive..Stale]
    /\ syncPending \in [Jobs -> 0..MaxRev]
    /\ recovery \in [Jobs -> 0..MaxGen]
    /\ lease \in [Jobs -> Lease]

StoreInit ==
    /\ job = [j \in Jobs |-> Missing]
    /\ left = [j \in Jobs |-> 0]
    /\ expires = [j \in Jobs |-> 0]
    /\ request = [j \in Jobs |-> NoRequest]
    /\ idem = [k \in Keys |-> NoIdentity]
    /\ active = [j \in Jobs |-> NotActive]
    /\ syncPending = [j \in Jobs |-> 0]
    /\ recovery = [j \in Jobs |-> 0]
    /\ lease = [j \in Jobs |-> NoLease]

-----------------------------------------------------------------------------
(* Registration.                                                            *)

\* The identity checks of register_job: the three ways it returns without writing.
IdempotencyConflict(k, d)    == idem[k].job # "none" /\ idem[k].digest # d
JobIdentityConflict(j, k, d) ==
    \/ idem[k].job # "none" /\ idem[k].digest = d /\ (idem[k].job # j \/ ~Present(j))
    \/ idem[k].job = "none" /\ Present(j) /\ (job[j].key # k \/ job[j].digest # d)
Replayed(j, k, d) ==
    \/ idem[k].job = j /\ idem[k].digest = d /\ Present(j)
    \/ idem[k].job = "none" /\ Present(j) /\ job[j].key = k /\ job[j].digest = d

\* g, r and a are initial_generation, initial_revision and initial_attempt_count; the
\* deadline is l ticks away (deadline_at, or the timeout from now).
RegisterJob(j, k, d, g, r, a, l) ==
    /\ ~IdempotencyConflict(k, d) /\ ~JobIdentityConflict(j, k, d) /\ ~Replayed(j, k, d)
    /\ job' = [job EXCEPT ![j] =
                 [status |-> "queued", attempt |-> a, gen |-> g, rev |-> r, synced |-> 0,
                  report |-> 0, error |-> "none", key |-> k, digest |-> d]]
    /\ left' = [left EXCEPT ![j] = l]
    /\ expires' = [expires EXCEPT ![j] = StateTTL]
    /\ request' = [request EXCEPT ![j] = StateTTL]
    /\ idem' = [idem EXCEPT ![k] = [job |-> j, digest |-> d, ttl |-> StateTTL]]
    /\ active' = [active EXCEPT ![j] = 0]
    /\ syncPending' = [syncPending EXCEPT ![j] = r]
    /\ UNCHANGED <<recovery, lease>>

-----------------------------------------------------------------------------
(* State transitions.                                                       *)

\* Mutant: a finished job accepts another transition.
SettledIgnored(j, g) == FALSE

\* The guards of transition with an expected generation, in their order: absence
\* and a foreign generation raise, a terminal state is returned unchanged, and a
\* status the current one does not allow raises.
Fenced(j, g) == ~Present(j) \/ job[j].gen # g
Settled(j, g) == ~Fenced(j, g) /\ Terminal(j)
Disallowed(j, g, status) ==
    ~Fenced(j, g) /\ ~Terminal(j) /\ status \notin AllowedTransitions[job[j].status]
Refused(j, g, status) == Fenced(j, g) \/ Settled(j, g) \/ Disallowed(j, g, status)

\* Mutants: the end of a job leaves its recovery entry behind; the state is written
\* with the TTL of the lease.
TransitionKeepsRecovery(j, g, status, attempt, report, error) ==
    LET final == status \in {"succeeded", "failed"}
        rev   == job[j].rev + 1
    IN  /\ ~Refused(j, g, status)
        /\ rev <= MaxRev
        /\ job' = [job EXCEPT ![j] = [@ EXCEPT !.status = status, !.attempt = attempt,
                                       !.rev = rev, !.report = report, !.error = error]]
        /\ expires' = [expires EXCEPT ![j] = StateTTL]
        /\ active' = [active EXCEPT ![j] = IF final THEN NotActive ELSE 0]
        /\ syncPending' = [syncPending EXCEPT ![j] = rev]
        /\ UNCHANGED <<left, request, idem, recovery, lease>>
TransitionShortTTL(j, g, status, attempt, report, error) ==
    LET final == status \in {"succeeded", "failed"}
        rev   == job[j].rev + 1
    IN  /\ ~Refused(j, g, status)
        /\ rev <= MaxRev
        /\ job' = [job EXCEPT ![j] = [@ EXCEPT !.status = status, !.attempt = attempt,
                                       !.rev = rev, !.report = report, !.error = error]]
        /\ expires' = [expires EXCEPT ![j] = LeaseTTL]
        /\ active' = [active EXCEPT ![j] = IF final THEN NotActive ELSE 0]
        /\ recovery' = [recovery EXCEPT ![j] = IF final THEN 0 ELSE @]
        /\ syncPending' = [syncPending EXCEPT ![j] = rev]
        /\ UNCHANGED <<left, request, idem, lease>>

Transition(j, g, status, attempt, report, error) ==
    LET final == status \in {"succeeded", "failed"}
        rev   == job[j].rev + 1
    IN  /\ ~Refused(j, g, status)
        /\ rev <= MaxRev
        /\ job' = [job EXCEPT ![j] = [@ EXCEPT !.status = status, !.attempt = attempt,
                                       !.rev = rev, !.report = report, !.error = error]]
        /\ expires' = [expires EXCEPT ![j] = StateTTL]
        /\ request' = [request EXCEPT ![j] = IF @ = NoRequest THEN NoRequest ELSE StateTTL]
        /\ active' = [active EXCEPT ![j] = IF final THEN NotActive ELSE 0]
        /\ recovery' = [recovery EXCEPT ![j] = IF final THEN 0 ELSE @]
        /\ syncPending' = [syncPending EXCEPT ![j] = rev]
        /\ UNCHANGED <<left, idem, lease>>

MayTakeOver(j, g) ==
    /\ Present(j) /\ ~Terminal(j)
    /\ job[j].gen = g
    /\ recovery[j] = 0
    /\ job[j].rev < MaxRev /\ g < MaxGen

\* Mutant: the takeover opens a generation without a new revision.
TakeOverSameRevision(j, g) ==
    /\ MayTakeOver(j, g)
    /\ job' = [job EXCEPT ![j] = [@ EXCEPT !.status = "queued", !.gen = g + 1]]
    /\ recovery' = [recovery EXCEPT ![j] = g + 1]
    /\ UNCHANGED <<left, expires, request, idem, active, syncPending, lease>>

TakeOverStale(j, g) ==
    /\ MayTakeOver(j, g)
    /\ job' = [job EXCEPT ![j] = [@ EXCEPT !.status = "queued", !.gen = g + 1,
                                   !.rev = job[j].rev + 1]]
    /\ expires' = [expires EXCEPT ![j] = StateTTL]
    /\ lease' = [lease EXCEPT ![j] = NoLease]
    /\ active' = [active EXCEPT ![j] = 0]
    /\ syncPending' = [syncPending EXCEPT ![j] = job[j].rev + 1]
    /\ recovery' = [recovery EXCEPT ![j] = g + 1]
    /\ UNCHANGED <<left, request, idem>>

RetryFailed(j) ==
    /\ job[j].status = "failed" /\ job[j].error = "retryable"
    /\ job[j].rev < MaxRev /\ job[j].gen < MaxGen
    /\ job' = [job EXCEPT ![j] = [@ EXCEPT !.status = "queued", !.gen = job[j].gen + 1,
                                   !.rev = job[j].rev + 1, !.report = 0, !.error = "none"]]
    /\ expires' = [expires EXCEPT ![j] = StateTTL]
    /\ request' = [request EXCEPT ![j] = IF @ = NoRequest THEN NoRequest ELSE StateTTL]
    /\ active' = [active EXCEPT ![j] = 0]
    /\ syncPending' = [syncPending EXCEPT ![j] = job[j].rev + 1]
    /\ UNCHANGED <<left, idem, recovery, lease>>

\* Mutant: the next revision is acknowledged, unclamped.
SyncedNext(j, r) == r + 1

\* mark_callback_synced never acknowledges more than the revision it finds.
SyncedRevision(j, r) ==
    LET m == IF r > job[j].synced THEN r ELSE job[j].synced
    IN  IF m > job[j].rev THEN job[j].rev ELSE m

MarkCallbackSynced(j, r) ==
    /\ Present(j)
    /\ job' = [job EXCEPT ![j].synced = SyncedRevision(j, r)]
    /\ expires' = [expires EXCEPT ![j] = StateTTL]
    /\ syncPending' = [syncPending EXCEPT ![j] = IF SyncedRevision(j, r) >= job[j].rev THEN 0 ELSE @]
    /\ UNCHANGED <<left, request, idem, active, recovery, lease>>

-----------------------------------------------------------------------------
(* Leases.                                                                  *)

HoldsLease(j, g, t) == lease[j].gen = g /\ lease[j].token = t

AcquireLease(j, g, t) ==
    /\ lease[j] = NoLease
    /\ lease' = [lease EXCEPT ![j] = [gen |-> g, token |-> t, ttl |-> LeaseTTL]]
    /\ UNCHANGED <<job, left, expires, request, idem, active, syncPending, recovery>>

RefreshLease(j, g, t) ==
    /\ HoldsLease(j, g, t)
    /\ lease' = [lease EXCEPT ![j].ttl = LeaseTTL]
    /\ UNCHANGED <<job, left, expires, request, idem, active, syncPending, recovery>>

ReleaseLease(j, g, t) ==
    /\ HoldsLease(j, g, t)
    /\ lease' = [lease EXCEPT ![j] = NoLease]
    /\ UNCHANGED <<job, left, expires, request, idem, active, syncPending, recovery>>

-----------------------------------------------------------------------------
(* The indexes the reconciler maintains.                                    *)

DiscardMissingJobIndexes(j) ==
    /\ ~Present(j)
    /\ active' = [active EXCEPT ![j] = NotActive]
    /\ syncPending' = [syncPending EXCEPT ![j] = 0]
    /\ recovery' = [recovery EXCEPT ![j] = 0]
    /\ lease' = [lease EXCEPT ![j] = NoLease]
    /\ UNCHANGED <<job, left, expires, request, idem>>

DiscardMissingJobRecovery(j, g) ==
    /\ recovery[j] = g
    /\ DiscardMissingJobIndexes(j)

DiscardPendingRecovery(j, g) ==
    /\ recovery[j] = g
    /\ recovery' = [recovery EXCEPT ![j] = 0]
    /\ UNCHANGED <<job, left, expires, request, idem, active, syncPending, lease>>

MarkRecoveryEnqueued(j, g) ==
    /\ Present(j) /\ recovery[j] = g /\ job[j].gen = g
    /\ recovery' = [recovery EXCEPT ![j] = 0]
    /\ active' = [active EXCEPT ![j] = IF Terminal(j) THEN @ ELSE 0]
    /\ UNCHANGED <<job, left, expires, request, idem, syncPending, lease>>

-----------------------------------------------------------------------------
(* Time: deadlines come closer, index entries age, keys with a TTL vanish.   *)

Down(n)  == IF n > 0 THEN n - 1 ELSE 0
LastTick(n) == StateTTL > 0 /\ n <= 1

StoreTick ==
    /\ job' = [j \in Jobs |-> IF Present(j) /\ LastTick(expires[j]) THEN Missing ELSE job[j]]
    /\ left' = [j \in Jobs |-> Down(left[j])]
    /\ expires' = [j \in Jobs |-> Down(expires[j])]
    /\ request' = [j \in Jobs |-> IF request[j] = NoRequest \/ LastTick(request[j])
                                  THEN NoRequest ELSE Down(request[j])]
    /\ idem' = [k \in Keys |-> IF idem[k].job = "none" \/ LastTick(idem[k].ttl)
                               THEN NoIdentity ELSE [idem[k] EXCEPT !.ttl = Down(@)]]
    /\ active' = [j \in Jobs |-> IF active[j] \in {NotActive, Stale} THEN active[j] ELSE active[j] + 1]
    /\ lease' = [j \in Jobs |-> IF lease[j].ttl <= 1 THEN NoLease ELSE [lease[j] EXCEPT !.ttl = @ - 1]]
    /\ UNCHANGED <<syncPending, recovery>>

-----------------------------------------------------------------------------
(* The store under its most general client.                                 *)

StoreOperation ==
    \E j \in Jobs :
        \/ \E g \in Gens, a \in 0..MaxAttempt :
              \/ \E s \in {"queued", "running"} : Transition(j, g, s, a, 0, "none")
              \/ \E p \in Gens : Transition(j, g, "succeeded", a, p, "none")
              \/ \E e \in {"retryable", "final"} : Transition(j, g, "failed", a, 0, e)
        \/ \E g \in Gens : TakeOverStale(j, g)
        \/ RetryFailed(j)
        \/ \E r \in 1..MaxRev : MarkCallbackSynced(j, r)
        \/ \E g \in Gens, t \in Tokens :
              AcquireLease(j, g, t) \/ RefreshLease(j, g, t) \/ ReleaseLease(j, g, t)
        \/ DiscardMissingJobIndexes(j)
        \/ \E g \in Gens :
              \/ DiscardMissingJobRecovery(j, g)
              \/ DiscardPendingRecovery(j, g)
              \/ MarkRecoveryEnqueued(j, g)
        \/ \E k \in Keys, d \in Digests, g \in Gens, r \in 1..MaxRev, a \in 0..MaxAttempt,
              l \in 0..Timeout : RegisterJob(j, k, d, g, r, a, l)

StoreNext == StoreTick \/ StoreOperation

StoreSpec == StoreInit /\ [][StoreNext]_storeVars
-----------------------------------------------------------------------------
(* What the store promises every client.                                    *)

\* The three global indexes never disagree with the snapshot they index: a live
\* job is in the active index exactly while it is not terminal (so the stale scan
\* cannot lose it and never sees a finished one), a finished job is not waiting
\* for a recovery, and a job is in the sync-pending index, under its newest
\* revision, exactly while the callback lags behind.
IndexAgreement ==
    \A j \in Jobs : Present(j) =>
        /\ Terminal(j) <=> active[j] = NotActive
        /\ Terminal(j) => recovery[j] = 0
        /\ syncPending[j] = IF job[j].synced < job[j].rev THEN job[j].rev ELSE 0

\* A live idempotency key names a live job that was registered under that key
\* with that digest, and never outlives it: the "existing is None" conflict of
\* register_job cannot be the fate of an honest replay.
KeyNamesItsJob ==
    \A k \in Keys : \A j \in Jobs : idem[k].job = j =>
        /\ Present(j)
        /\ job[j].key = k /\ job[j].digest = idem[k].digest
        /\ idem[k].ttl <= expires[j]

\* A finished job changes only by acknowledging its callback, by its key's expiry,
\* or, when its failure is retryable, by being reopened under a new generation.
TerminalIsFinal ==
    [][\A j \in Jobs : Terminal(j) /\ Present(j)' =>
          \/ job'[j] = [job[j] EXCEPT !.synced = job'[j].synced]
          \/ /\ job[j].error = "retryable" /\ job'[j].status = "queued"
             /\ job'[j].gen = job[j].gen + 1 /\ job'[j].report = 0]_storeVars

\* A revision names one snapshot: whenever anything a client can see of a live job
\* changes, its revision grows by one, and the acknowledged revision never falls.
\* The SSE stream and the database drop every snapshot whose revision is not new.
RevisionNamesSnapshot ==
    [][\A j \in Jobs : Present(j) /\ Present(j)' =>
          \/ job'[j].rev = job[j].rev + 1 /\ job'[j].synced = job[j].synced
          \/ /\ job'[j] = [job[j] EXCEPT !.synced = job'[j].synced]
             /\ job'[j].synced >= job[j].synced]_storeVars

=============================================================================
