--------------------------- MODULE JobStoreProofs ---------------------------
(***************************************************************************)
(* Proofs that the job store keeps its promises to every client, for any    *)
(* sets of jobs and keys, any bounds and any timing.                        *)
(***************************************************************************)
EXTENDS JobStore, TLAPS

-----------------------------------------------------------------------------
(* Facts about the helpers of the store.                                    *)

\* The bounds as plain facts.
LEMMA Bounds ==
    /\ MaxGen \in Nat /\ MaxGen > 0 /\ MaxRev \in Nat /\ MaxRev > 0
    /\ Timeout \in Nat /\ Timeout > 0 /\ LeaseTTL \in Nat /\ LeaseTTL > 0
    /\ MaxAttempt \in Nat /\ Stale \in Nat /\ StateTTL \in Nat
  BY BoundsAssumption

\* Registration writes only for a job without a snapshot under a key without an
\* identity: every other combination is a conflict or a replay.
LEMMA RegisterIsFresh ==
    ASSUME NEW j \in Jobs, NEW k \in Keys, NEW d, NEW g, NEW r, NEW a, NEW l,
           RegisterJob(j, k, d, g, r, a, l)
    PROVE  ~Present(j) /\ idem[k].job = "none"
  BY DEF RegisterJob, IdempotencyConflict, JobIdentityConflict, Replayed

\* The fields of a snapshot.
LEMMA SnapshotFields ==
    ASSUME StoreTypeOK, NEW j \in Jobs
    PROVE  /\ job[j] \in JobState
           /\ job[j].status \in Statuses \cup {"absent"}
           /\ job[j].rev \in 0..MaxRev /\ job[j].synced \in 0..MaxRev
           /\ job[j].gen \in 0..MaxGen
  BY DEF StoreTypeOK, JobState

\* The absent values are of their types.
LEMMA AbsentValues == Missing \in JobState /\ NoLease \in Lease /\ NoIdentity \in Identity
  BY Bounds DEF Missing, JobState, Errors, NoLease, Lease, NoIdentity, Identity

\* What mark_callback_synced writes never exceeds the revision it finds.
LEMMA SyncedRevisionBounds ==
    ASSUME StoreTypeOK, NEW j \in Jobs, NEW r \in 1..MaxRev
    PROVE  /\ SyncedRevision(j, r) \in 0..MaxRev
           /\ SyncedRevision(j, r) <= job[j].rev
           /\ job[j].synced <= job[j].rev => SyncedRevision(j, r) >= job[j].synced
  BY SnapshotFields, Bounds DEF SyncedRevision

-----------------------------------------------------------------------------
(* Type correctness: one lemma per kind of operation.                       *)

\* The empty store is well typed.
LEMMA TypeInit == StoreInit => StoreTypeOK
  <1> SUFFICES ASSUME StoreInit PROVE StoreTypeOK
    OBVIOUS
  <1>1. job \in [Jobs -> JobState]
    BY AbsentValues DEF StoreInit
  <1>2. idem \in [Keys -> Identity]
    BY AbsentValues DEF StoreInit
  <1>3. lease \in [Jobs -> Lease]
    BY AbsentValues DEF StoreInit
  <1>4. left \in [Jobs -> 0..Timeout] /\ expires \in [Jobs -> 0..StateTTL]
    BY Bounds DEF StoreInit
  <1>5. request \in [Jobs -> NoRequest..StateTTL] /\ active \in [Jobs -> NotActive..Stale]
    BY Bounds DEF StoreInit, NoRequest, NotActive
  <1>6. syncPending \in [Jobs -> 0..MaxRev] /\ recovery \in [Jobs -> 0..MaxGen]
    BY Bounds DEF StoreInit
  <1> QED
    BY <1>1, <1>2, <1>3, <1>4, <1>5, <1>6 DEF StoreTypeOK

\* register_job writes a well-typed snapshot and well-typed index entries.
LEMMA TypeRegister ==
    ASSUME StoreTypeOK, NEW j \in Jobs, NEW k \in Keys, NEW d \in Digests, NEW g \in Gens,
           NEW r \in 1..MaxRev, NEW a \in 0..MaxAttempt,
           NEW l \in 0..Timeout, RegisterJob(j, k, d, g, r, a, l)
    PROVE  StoreTypeOK'
  <1>1. job' \in [Jobs -> JobState]
    <2>1. [status |-> "queued", attempt |-> a, gen |-> g, rev |-> r, synced |-> 0, report |-> 0,
           error |-> "none", key |-> k, digest |-> d] \in JobState
      BY Bounds DEF JobState, Statuses, Errors, Gens
    <2> QED
      BY <2>1 DEF RegisterJob, StoreTypeOK
  <1>2. idem' \in [Keys -> Identity]
    <2>1. [job |-> j, digest |-> d, ttl |-> StateTTL] \in Identity
      BY Bounds DEF Identity
    <2> QED
      BY <2>1 DEF RegisterJob, StoreTypeOK
  <1>3. request' \in [Jobs -> NoRequest..StateTTL] /\ active' \in [Jobs -> NotActive..Stale]
    BY Bounds DEF RegisterJob, StoreTypeOK, NoRequest, NotActive
  <1>4. /\ left' \in [Jobs -> 0..Timeout] /\ expires' \in [Jobs -> 0..StateTTL]
        /\ syncPending' \in [Jobs -> 0..MaxRev]
    BY Bounds DEF RegisterJob, StoreTypeOK
  <1> QED
    BY <1>1, <1>2, <1>3, <1>4 DEF RegisterJob, StoreTypeOK

\* transition keeps the types: a revision or a score it writes is in range.
LEMMA TypeTransition ==
    ASSUME StoreTypeOK, NEW j \in Jobs, NEW g \in Gens, NEW s \in Statuses,
           NEW a \in 0..MaxAttempt, NEW p \in 0..MaxGen, NEW e \in Errors,
           Transition(j, g, s, a, p, e)
    PROVE  StoreTypeOK'
  <1>1. job[j].rev + 1 \in 0..MaxRev
    <2>1. job[j].rev + 1 <= MaxRev
      BY DEF Transition
    <2> QED
      BY <2>1, SnapshotFields, Bounds
  <1>2. job' \in [Jobs -> JobState]
    <2>1. [job[j] EXCEPT !.status = s, !.attempt = a, !.rev = job[j].rev + 1, !.report = p,
                         !.error = e] \in JobState
      BY <1>1, SnapshotFields DEF JobState
    <2> QED
      BY <2>1 DEF StoreTypeOK, Transition
  <1>3. request' \in [Jobs -> NoRequest..StateTTL] /\ active' \in [Jobs -> NotActive..Stale]
    BY Bounds DEF StoreTypeOK, Transition, NoRequest, NotActive
  <1>4. /\ expires' \in [Jobs -> 0..StateTTL]
        /\ syncPending' \in [Jobs -> 0..MaxRev] /\ recovery' \in [Jobs -> 0..MaxGen]
    BY Bounds, <1>1 DEF StoreTypeOK, Transition
  <1> QED
    BY <1>2, <1>3, <1>4 DEF StoreTypeOK, Transition

\* take_over_stale keeps the types.
LEMMA TypeTakeOver ==
    ASSUME StoreTypeOK, NEW j \in Jobs, NEW g \in Gens, TakeOverStale(j, g)
    PROVE  StoreTypeOK'
  <1>1. job[j].rev + 1 \in 0..MaxRev /\ g + 1 \in 0..MaxGen
    BY SnapshotFields, Bounds DEF TakeOverStale, MayTakeOver, Gens
  <1>2. job' \in [Jobs -> JobState]
    <2>1. [job[j] EXCEPT !.status = "queued", !.gen = g + 1, !.rev = job[j].rev + 1] \in JobState
      BY <1>1, SnapshotFields DEF JobState, Statuses
    <2> QED
      BY <2>1 DEF TakeOverStale, StoreTypeOK
  <1>3. lease' \in [Jobs -> Lease]
    BY AbsentValues DEF TakeOverStale, StoreTypeOK
  <1>4. active' \in [Jobs -> NotActive..Stale]
    BY Bounds DEF TakeOverStale, StoreTypeOK, NotActive
  <1>5. /\ expires' \in [Jobs -> 0..StateTTL]
        /\ syncPending' \in [Jobs -> 0..MaxRev] /\ recovery' \in [Jobs -> 0..MaxGen]
    BY Bounds, <1>1 DEF TakeOverStale, StoreTypeOK
  <1> QED
    BY <1>2, <1>3, <1>4, <1>5 DEF TakeOverStale, StoreTypeOK

\* retry_failed keeps the types.
LEMMA TypeRetry ==
    ASSUME StoreTypeOK, NEW j \in Jobs, RetryFailed(j)
    PROVE  StoreTypeOK'
  <1>1. job[j].rev + 1 \in 0..MaxRev /\ job[j].gen + 1 \in 0..MaxGen
    BY SnapshotFields, Bounds DEF RetryFailed
  <1>2. job' \in [Jobs -> JobState]
    <2>1. [job[j] EXCEPT !.status = "queued", !.gen = job[j].gen + 1, !.rev = job[j].rev + 1,
                         !.report = 0, !.error = "none"] \in JobState
      <3>1. 0 \in 0..MaxGen /\ "none" \in Errors /\ "queued" \in Statuses
        BY Bounds DEF Errors, Statuses
      <3> QED
        BY <1>1, <3>1, SnapshotFields DEF JobState
    <2> QED
      BY <2>1 DEF RetryFailed, StoreTypeOK
  <1>3. request' \in [Jobs -> NoRequest..StateTTL] /\ active' \in [Jobs -> NotActive..Stale]
    BY Bounds DEF RetryFailed, StoreTypeOK, NoRequest, NotActive
  <1>4. expires' \in [Jobs -> 0..StateTTL] /\ syncPending' \in [Jobs -> 0..MaxRev]
    BY Bounds, <1>1 DEF RetryFailed, StoreTypeOK
  <1> QED
    BY <1>2, <1>3, <1>4 DEF RetryFailed, StoreTypeOK

\* mark_callback_synced keeps the types.
LEMMA TypeMark ==
    ASSUME StoreTypeOK, NEW j \in Jobs, NEW r \in 1..MaxRev, MarkCallbackSynced(j, r)
    PROVE  StoreTypeOK'
  <1>1. job' \in [Jobs -> JobState]
    <2>1. [job[j] EXCEPT !.synced = SyncedRevision(j, r)] \in JobState
      BY SyncedRevisionBounds, SnapshotFields DEF JobState
    <2> QED
      BY <2>1 DEF MarkCallbackSynced, StoreTypeOK
  <1>2. expires' \in [Jobs -> 0..StateTTL] /\ syncPending' \in [Jobs -> 0..MaxRev]
    BY Bounds DEF MarkCallbackSynced, StoreTypeOK
  <1> QED
    BY <1>1, <1>2 DEF MarkCallbackSynced, StoreTypeOK

\* The three lease operations keep the types.
LEMMA TypeLease ==
    ASSUME StoreTypeOK, NEW j \in Jobs, NEW g \in Gens, NEW t \in Tokens,
           AcquireLease(j, g, t) \/ RefreshLease(j, g, t) \/ ReleaseLease(j, g, t)
    PROVE  StoreTypeOK'
  <1>1. lease' \in [Jobs -> Lease]
    <2>1. [gen |-> g, token |-> t, ttl |-> LeaseTTL] \in Lease
      BY Bounds DEF Lease, Gens
    <2>2. [lease[j] EXCEPT !.ttl = LeaseTTL] \in Lease
      BY Bounds DEF Lease, StoreTypeOK
    <2> QED
      BY <2>1, <2>2, AbsentValues DEF AcquireLease, RefreshLease, ReleaseLease, StoreTypeOK
  <1> QED
    BY <1>1 DEF AcquireLease, RefreshLease, ReleaseLease, StoreTypeOK

\* The index maintenance of the reconciler keeps the types.
LEMMA TypeIndexes ==
    ASSUME StoreTypeOK, NEW j \in Jobs, NEW g \in Gens,
           \/ DiscardMissingJobIndexes(j)
           \/ DiscardMissingJobRecovery(j, g)
           \/ DiscardPendingRecovery(j, g)
           \/ MarkRecoveryEnqueued(j, g)
    PROVE  StoreTypeOK'
  <1>1. CASE DiscardMissingJobIndexes(j) \/ DiscardMissingJobRecovery(j, g)
    <2>1. DiscardMissingJobIndexes(j)
      BY <1>1 DEF DiscardMissingJobRecovery
    <2>2. lease' \in [Jobs -> Lease]
      BY <2>1, AbsentValues DEF DiscardMissingJobIndexes, StoreTypeOK
    <2>3. active' \in [Jobs -> NotActive..Stale]
      BY <2>1, Bounds DEF DiscardMissingJobIndexes, StoreTypeOK, NotActive
    <2>4. syncPending' \in [Jobs -> 0..MaxRev] /\ recovery' \in [Jobs -> 0..MaxGen]
      BY <2>1, Bounds DEF DiscardMissingJobIndexes, StoreTypeOK
    <2> QED
      BY <2>1, <2>2, <2>3, <2>4 DEF DiscardMissingJobIndexes, StoreTypeOK
  <1>2. CASE DiscardPendingRecovery(j, g)
    BY <1>2, Bounds DEF DiscardPendingRecovery, StoreTypeOK
  <1>3. CASE MarkRecoveryEnqueued(j, g)
    <2>1. active' \in [Jobs -> NotActive..Stale]
      BY <1>3, Bounds DEF MarkRecoveryEnqueued, StoreTypeOK, NotActive
    <2>2. recovery' \in [Jobs -> 0..MaxGen]
      BY <1>3, Bounds DEF MarkRecoveryEnqueued, StoreTypeOK
    <2> QED
      BY <1>3, <2>1, <2>2 DEF MarkRecoveryEnqueued, StoreTypeOK
  <1> QED
    BY <1>1, <1>2, <1>3

\* The passing of time, expiry included, keeps the types.
LEMMA TypeTick ==
    ASSUME StoreTypeOK, StoreTick
    PROVE  StoreTypeOK'
  <1>1. job' \in [Jobs -> JobState]
    BY AbsentValues DEF StoreTick, StoreTypeOK
  <1>2. left' \in [Jobs -> 0..Timeout] /\ expires' \in [Jobs -> 0..StateTTL]
    BY Bounds DEF StoreTick, StoreTypeOK, Down
  <1>3. request' \in [Jobs -> NoRequest..StateTTL]
    BY Bounds DEF StoreTick, StoreTypeOK, Down, NoRequest
  <1>4. idem' \in [Keys -> Identity]
    <2> SUFFICES ASSUME NEW k \in Keys, idem[k] \in Identity
                 PROVE  [idem[k] EXCEPT !.ttl = Down(@)] \in Identity
      BY AbsentValues DEF StoreTick, StoreTypeOK
    <2> QED
      BY Bounds DEF Identity, Down
  <1>5. active' \in [Jobs -> NotActive..Stale]
    <2> SUFFICES ASSUME NEW j \in Jobs PROVE active'[j] \in NotActive..Stale
      BY DEF StoreTick
    <2>1. active[j] \in NotActive..Stale
      BY DEF StoreTypeOK
    <2>2. active[j] \notin {NotActive, Stale} => active[j] + 1 \in NotActive..Stale
      BY <2>1, Bounds DEF NotActive
    <2> QED
      BY <2>1, <2>2 DEF StoreTick
  <1>6. lease' \in [Jobs -> Lease]
    <2> SUFFICES ASSUME NEW j \in Jobs, lease[j] \in Lease, ~(lease[j].ttl <= 1)
                 PROVE  [lease[j] EXCEPT !.ttl = @ - 1] \in Lease
      BY AbsentValues DEF StoreTick, StoreTypeOK
    <2> QED
      BY Bounds DEF Lease
  <1> QED
    BY <1>1, <1>2, <1>3, <1>4, <1>5, <1>6 DEF StoreTick, StoreTypeOK

\* No operation and no tick makes the store write a value outside its type.
LEMMA StoreKeepsTypes ==
    ASSUME StoreTypeOK, [StoreNext]_storeVars
    PROVE  StoreTypeOK'
  <1>1. CASE StoreTick
    BY <1>1, TypeTick
  <1>2. CASE StoreOperation
    <2> PICK j \in Jobs : StoreOperation!(j)
      BY <1>2 DEF StoreOperation
    <2>1. CASE \E k \in Keys, d \in Digests, g \in Gens, r \in 1..MaxRev, a \in 0..MaxAttempt,
                  l \in 0..Timeout : RegisterJob(j, k, d, g, r, a, l)
      BY <2>1, TypeRegister
    <2>2. CASE \E g \in Gens, a \in 0..MaxAttempt :
                  \/ \E s \in {"queued", "running"} : Transition(j, g, s, a, 0, "none")
                  \/ \E p \in Gens : Transition(j, g, "succeeded", a, p, "none")
                  \/ \E e \in {"retryable", "final"} : Transition(j, g, "failed", a, 0, e)
      <3>1. 0 \in 0..MaxGen /\ Gens \subseteq 0..MaxGen
        BY Bounds DEF Gens
      <3> QED
        BY <2>2, <3>1, TypeTransition DEF Statuses, Errors
    <2>3. CASE \/ \E g \in Gens : TakeOverStale(j, g)
               \/ RetryFailed(j)
               \/ \E r \in 1..MaxRev : MarkCallbackSynced(j, r)
      BY <2>3, TypeTakeOver, TypeRetry, TypeMark
    <2>4. CASE \E g \in Gens, t \in Tokens :
                  AcquireLease(j, g, t) \/ RefreshLease(j, g, t) \/ ReleaseLease(j, g, t)
      BY <2>4, TypeLease
    <2>5. CASE DiscardMissingJobIndexes(j) \/ \E g \in Gens :
                  \/ DiscardMissingJobRecovery(j, g)
                  \/ DiscardPendingRecovery(j, g)
                  \/ MarkRecoveryEnqueued(j, g)
      <3>1. 1 \in Gens
        BY Bounds DEF Gens
      <3> QED
        BY <2>5, <3>1, TypeIndexes
    <2> QED
      BY <2>1, <2>2, <2>3, <2>4, <2>5
  <1>3. CASE UNCHANGED storeVars
    BY <1>3 DEF storeVars, StoreTypeOK
  <1> QED
    BY <1>1, <1>2, <1>3 DEF StoreNext

\* The type invariant of the store: no client can make the store write a value
\* outside its type (every transaction of DurableJobStore).
THEOREM StoreTypeCorrect == StoreSpec => []StoreTypeOK
  BY TypeInit, StoreKeepsTypes, PTL DEF StoreSpec

-----------------------------------------------------------------------------
(* The indexes agree with the snapshots.  The acknowledged revision never    *)
(* exceeds the revision: without it mark_callback_synced could lower it.     *)

SyncedWithinRevision == \A j \in Jobs : job[j].synced <= job[j].rev

IndexInv == IndexAgreement /\ SyncedWithinRevision

\* A job whose snapshot and index entries a step leaves alone still agrees.
LEMMA IndexUntouched ==
    ASSUME IndexInv, NEW i \in Jobs,
           job'[i] = job[i], active'[i] = active[i], recovery'[i] = recovery[i],
           syncPending'[i] = syncPending[i]
    PROVE  /\ Present(i)' => /\ Terminal(i)' <=> active'[i] = NotActive
                             /\ Terminal(i)' => recovery'[i] = 0
                             /\ syncPending'[i] = IF job'[i].synced < job'[i].rev THEN job'[i].rev ELSE 0
           /\ job'[i].synced <= job'[i].rev
  BY DEF IndexInv, IndexAgreement, SyncedWithinRevision, Present, Terminal

\* register_job enters the new job in the active and sync-pending indexes.
LEMMA IndexRegister ==
    ASSUME StoreTypeOK, IndexInv, NEW j \in Jobs, NEW k \in Keys, NEW d \in Digests, NEW g \in Gens,
           NEW r \in 1..MaxRev, NEW a \in 0..MaxAttempt,
           NEW l \in 0..Timeout, RegisterJob(j, k, d, g, r, a, l)
    PROVE  IndexInv'
  <1>1. /\ job'[j].status = "queued" /\ job'[j].rev = r /\ job'[j].synced = 0
        /\ active'[j] = 0 /\ syncPending'[j] = r
    BY DEF RegisterJob, StoreTypeOK
  <1>2. \A i \in Jobs : i # j => /\ job'[i] = job[i] /\ active'[i] = active[i]
                                 /\ recovery'[i] = recovery[i] /\ syncPending'[i] = syncPending[i]
    BY DEF RegisterJob, StoreTypeOK
  <1> QED
    BY <1>1, <1>2, IndexUntouched, Bounds
    DEF IndexInv, IndexAgreement, SyncedWithinRevision, Present, Terminal, NotActive

\* transition moves the index entries with the status and the revision.
LEMMA IndexTransition ==
    ASSUME StoreTypeOK, IndexInv, NEW j \in Jobs, NEW g \in Gens, NEW s \in Statuses,
           NEW a \in 0..MaxAttempt, NEW p \in 0..MaxGen, NEW e \in Errors,
           Transition(j, g, s, a, p, e)
    PROVE  IndexInv'
  <1>1. /\ job'[j].status = s /\ job'[j].rev = job[j].rev + 1 /\ job'[j].synced = job[j].synced
        /\ active'[j] = IF s \in {"succeeded", "failed"} THEN NotActive ELSE 0
        /\ recovery'[j] = IF s \in {"succeeded", "failed"} THEN 0 ELSE recovery[j]
        /\ syncPending'[j] = job[j].rev + 1
    BY SnapshotFields DEF Transition, StoreTypeOK, JobState
  <1>2. \A i \in Jobs : i # j => /\ job'[i] = job[i] /\ active'[i] = active[i]
                                 /\ recovery'[i] = recovery[i] /\ syncPending'[i] = syncPending[i]
    BY DEF Transition, StoreTypeOK
  <1>3. job[j].synced < job[j].rev + 1
    BY SnapshotFields, Bounds DEF IndexInv, SyncedWithinRevision
  <1>4. job'[j].synced <= job'[j].rev /\ job'[j].synced < job'[j].rev
    BY <1>1, <1>3, SnapshotFields, Bounds
  <1>5. /\ Terminal(j)' <=> active'[j] = NotActive
        /\ Terminal(j)' => recovery'[j] = 0
    BY <1>1 DEF Terminal, NotActive
  <1> QED
    BY <1>1, <1>2, <1>4, <1>5, IndexUntouched DEF IndexInv, IndexAgreement, SyncedWithinRevision

\* take_over_stale and retry_failed put the job back into the indexes.
LEMMA IndexReopen ==
    ASSUME StoreTypeOK, IndexInv, NEW j \in Jobs,
           RetryFailed(j) \/ \E g \in Gens : TakeOverStale(j, g)
    PROVE  IndexInv'
  <1>1. /\ job'[j].status = "queued" /\ job'[j].rev = job[j].rev + 1 /\ job'[j].synced = job[j].synced
        /\ active'[j] = 0 /\ syncPending'[j] = job[j].rev + 1
    <2>1. CASE RetryFailed(j)
      BY <2>1, SnapshotFields DEF RetryFailed, StoreTypeOK, JobState
    <2>2. CASE \E g \in Gens : TakeOverStale(j, g)
      <3> PICK g \in Gens : TakeOverStale(j, g)
        BY <2>2
      <3>1. job'[j] = [job[j] EXCEPT !.status = "queued", !.gen = g + 1, !.rev = job[j].rev + 1]
        BY DEF TakeOverStale, StoreTypeOK
      <3>2. active'[j] = 0 /\ syncPending'[j] = job[j].rev + 1
        BY DEF TakeOverStale, StoreTypeOK
      <3> QED
        BY <3>1, <3>2, SnapshotFields DEF JobState
    <2> QED
      BY <2>1, <2>2
  <1>2. \A i \in Jobs : i # j => /\ job'[i] = job[i] /\ active'[i] = active[i]
                                 /\ recovery'[i] = recovery[i] /\ syncPending'[i] = syncPending[i]
    BY DEF RetryFailed, TakeOverStale, StoreTypeOK
  <1>3. job[j].synced < job[j].rev + 1
    BY SnapshotFields, Bounds DEF IndexInv, SyncedWithinRevision
  <1>4. job'[j].synced <= job'[j].rev /\ job'[j].synced < job'[j].rev
    BY <1>1, <1>3, SnapshotFields, Bounds
  <1>5. ~Terminal(j)' /\ active'[j] # NotActive
    BY <1>1 DEF Terminal, NotActive
  <1> QED
    BY <1>1, <1>2, <1>4, <1>5, IndexUntouched DEF IndexInv, IndexAgreement, SyncedWithinRevision

\* mark_callback_synced leaves the sync-pending index exactly when it has caught up.
LEMMA IndexMark ==
    ASSUME StoreTypeOK, IndexInv, NEW j \in Jobs, NEW r \in 1..MaxRev, MarkCallbackSynced(j, r)
    PROVE  IndexInv'
  <1>1. /\ job'[j].status = job[j].status /\ job'[j].rev = job[j].rev
        /\ job'[j].synced = SyncedRevision(j, r)
        /\ active'[j] = active[j] /\ recovery'[j] = recovery[j]
        /\ syncPending'[j] = IF SyncedRevision(j, r) >= job[j].rev THEN 0 ELSE syncPending[j]
    BY SnapshotFields DEF MarkCallbackSynced, StoreTypeOK, JobState
  <1>2. \A i \in Jobs : i # j => /\ job'[i] = job[i] /\ active'[i] = active[i]
                                 /\ recovery'[i] = recovery[i] /\ syncPending'[i] = syncPending[i]
    BY DEF MarkCallbackSynced, StoreTypeOK
  <1>3. /\ SyncedRevision(j, r) \in Nat /\ job[j].rev \in Nat /\ SyncedRevision(j, r) <= job[j].rev
        /\ job[j].synced \in Nat /\ job[j].synced <= SyncedRevision(j, r)
    BY SyncedRevisionBounds, SnapshotFields, Bounds DEF IndexInv, SyncedWithinRevision
  <1>4. syncPending'[j] = IF job'[j].synced < job'[j].rev THEN job'[j].rev ELSE 0
    <2>1. syncPending[j] = IF job[j].synced < job[j].rev THEN job[j].rev ELSE 0
      BY DEF IndexInv, IndexAgreement, MarkCallbackSynced
    <2> QED
      BY <1>1, <1>3, <2>1
  <1>5. job'[j].synced <= job'[j].rev
    BY <1>1, <1>3
  <1>6. /\ Terminal(j)' <=> active'[j] = NotActive
        /\ Terminal(j)' => recovery'[j] = 0
    BY <1>1 DEF Terminal, IndexInv, IndexAgreement, MarkCallbackSynced
  <1> QED
    BY <1>2, <1>4, <1>5, <1>6, IndexUntouched DEF IndexInv, IndexAgreement, SyncedWithinRevision

\* What the reconciler discards belongs to no live job, or is a recovery entry only.
LEMMA IndexMaintenance ==
    ASSUME StoreTypeOK, IndexInv, NEW j \in Jobs, NEW g \in Gens,
           \/ DiscardMissingJobIndexes(j)
           \/ DiscardMissingJobRecovery(j, g)
           \/ DiscardPendingRecovery(j, g)
           \/ MarkRecoveryEnqueued(j, g)
    PROVE  IndexInv'
  <1>1. job' = job
    BY DEF DiscardMissingJobIndexes, DiscardMissingJobRecovery, DiscardPendingRecovery,
           MarkRecoveryEnqueued
  <1>2. \A i \in Jobs : i # j => /\ active'[i] = active[i] /\ recovery'[i] = recovery[i]
                                 /\ syncPending'[i] = syncPending[i]
    BY DEF DiscardMissingJobIndexes, DiscardMissingJobRecovery, DiscardPendingRecovery,
           MarkRecoveryEnqueued, StoreTypeOK
  <1>3. Present(j) => /\ syncPending'[j] = syncPending[j]
                      /\ recovery'[j] \in {recovery[j], 0}
                      /\ active'[j] = active[j] \/ (~Terminal(j) /\ active'[j] = 0)
    BY DEF DiscardMissingJobIndexes, DiscardMissingJobRecovery, DiscardPendingRecovery,
           MarkRecoveryEnqueued, StoreTypeOK
  <1>4. Present(j)' =>
          /\ Terminal(j)' <=> active'[j] = NotActive
          /\ Terminal(j)' => recovery'[j] = 0
          /\ syncPending'[j] = IF job'[j].synced < job'[j].rev THEN job'[j].rev ELSE 0
    <2> SUFFICES ASSUME Present(j)
                 PROVE  /\ Terminal(j) <=> active'[j] = NotActive
                        /\ Terminal(j) => recovery'[j] = 0
                        /\ syncPending'[j] = IF job[j].synced < job[j].rev THEN job[j].rev ELSE 0
      BY <1>1 DEF Present, Terminal
    <2>1. /\ Terminal(j) <=> active[j] = NotActive
          /\ Terminal(j) => recovery[j] = 0
          /\ syncPending[j] = IF job[j].synced < job[j].rev THEN job[j].rev ELSE 0
      BY DEF IndexInv, IndexAgreement
    <2>2. Terminal(j) <=> active'[j] = NotActive
      BY <1>3, <2>1 DEF NotActive
    <2> QED
      BY <1>3, <2>1, <2>2
  <1>5. SyncedWithinRevision'
    BY <1>1 DEF IndexInv, SyncedWithinRevision
  <1> QED
    BY <1>1, <1>2, <1>4, <1>5, IndexUntouched DEF IndexInv, IndexAgreement

\* Expiry removes snapshots, never the index entries of a live one.
LEMMA IndexTick ==
    ASSUME StoreTypeOK, IndexInv, StoreTick
    PROVE  IndexInv'
  <1> SUFFICES ASSUME NEW i \in Jobs
               PROVE  /\ Present(i)' =>
                           /\ Terminal(i)' <=> active'[i] = NotActive
                           /\ Terminal(i)' => recovery'[i] = 0
                           /\ syncPending'[i] = IF job'[i].synced < job'[i].rev THEN job'[i].rev ELSE 0
                      /\ job'[i].synced <= job'[i].rev
    BY DEF IndexInv, IndexAgreement, SyncedWithinRevision
  <1>1. recovery'[i] = recovery[i] /\ syncPending'[i] = syncPending[i]
    BY DEF StoreTick
  <1>2. active'[i] = NotActive <=> active[i] = NotActive
    <2>1. active[i] \in NotActive..Stale
      BY DEF StoreTypeOK
    <2>2. active[i] \notin {NotActive, Stale} => active[i] + 1 # NotActive
      BY <2>1, Bounds DEF NotActive
    <2> QED
      BY <2>1, <2>2 DEF StoreTick
  <1>3. job'[i] \in {job[i], Missing}
    BY DEF StoreTick
  <1>4. CASE job'[i] = job[i]
    BY <1>1, <1>2, <1>4 DEF IndexInv, IndexAgreement, SyncedWithinRevision, Present, Terminal
  <1>5. CASE job'[i] = Missing
    BY <1>5 DEF Present, Missing
  <1> QED
    BY <1>3, <1>4, <1>5

\* The strengthened invariant is inductive: every operation of DurableJobStore keeps
\* the indexes and the acknowledged revision in step with the snapshot.
THEOREM IndexInvariant == StoreSpec => []IndexInv
  <1>1. StoreInit => IndexInv
    BY DEF StoreInit, IndexInv, IndexAgreement, SyncedWithinRevision, Present, Missing
  <1>2. StoreTypeOK /\ IndexInv /\ [StoreNext]_storeVars => IndexInv'
    <2> SUFFICES ASSUME StoreTypeOK, IndexInv, [StoreNext]_storeVars PROVE IndexInv'
      OBVIOUS
    <2>1. CASE StoreTick
      BY <2>1, IndexTick
    <2>2. CASE StoreOperation
      <3> PICK j \in Jobs : StoreOperation!(j)
        BY <2>2 DEF StoreOperation
      <3>1. CASE \E k \in Keys, d \in Digests, g \in Gens, r \in 1..MaxRev, a \in 0..MaxAttempt,
                    l \in 0..Timeout : RegisterJob(j, k, d, g, r, a, l)
        BY <3>1, IndexRegister
      <3>2. CASE \E g \in Gens, a \in 0..MaxAttempt :
                    \/ \E s \in {"queued", "running"} : Transition(j, g, s, a, 0, "none")
                    \/ \E p \in Gens : Transition(j, g, "succeeded", a, p, "none")
                    \/ \E e \in {"retryable", "final"} : Transition(j, g, "failed", a, 0, e)
        <4>1. 0 \in 0..MaxGen /\ Gens \subseteq 0..MaxGen
          BY Bounds DEF Gens
        <4> QED
          BY <3>2, <4>1, IndexTransition DEF Statuses, Errors
      <3>3. CASE \/ \E g \in Gens : TakeOverStale(j, g)
                 \/ RetryFailed(j)
                 \/ \E r \in 1..MaxRev : MarkCallbackSynced(j, r)
        BY <3>3, IndexReopen, IndexMark
      <3>4. CASE \E g \in Gens, t \in Tokens :
                    AcquireLease(j, g, t) \/ RefreshLease(j, g, t) \/ ReleaseLease(j, g, t)
        BY <3>4, IndexUntouched
        DEF AcquireLease, RefreshLease, ReleaseLease, IndexInv, IndexAgreement, SyncedWithinRevision
      <3>5. CASE DiscardMissingJobIndexes(j) \/ \E g \in Gens :
                    \/ DiscardMissingJobRecovery(j, g)
                    \/ DiscardPendingRecovery(j, g)
                    \/ MarkRecoveryEnqueued(j, g)
        <4>1. 1 \in Gens
          BY Bounds DEF Gens
        <4> QED
          BY <3>5, <4>1, IndexMaintenance
      <3> QED
        BY <3>1, <3>2, <3>3, <3>4, <3>5
    <2>3. CASE UNCHANGED storeVars
      BY <2>3, IndexUntouched DEF storeVars, IndexInv, IndexAgreement, SyncedWithinRevision
    <2> QED
      BY <2>1, <2>2, <2>3 DEF StoreNext
  <1> QED
    BY <1>1, <1>2, StoreTypeCorrect, PTL DEF StoreSpec

\* The active, sync-pending and recovery-pending indexes always agree with the
\* snapshots, whatever the clients of DurableJobStore do: the stale scan cannot lose
\* a live job and no unacknowledged revision is forgotten.
THEOREM IndexesAgree == StoreSpec => []IndexAgreement
  <1>1. IndexInv => IndexAgreement
    BY DEF IndexInv
  <1> QED
    BY <1>1, IndexInvariant, PTL

-----------------------------------------------------------------------------
(* The idempotency index.                                                   *)

\* A step that keeps the index, the keys and the digests, and shortens no state
\* key's life, keeps every identity right.
LEMMA KeyKept ==
    ASSUME StoreTypeOK, KeyNamesItsJob, idem' = idem,
           \A i \in Jobs : Present(i) => /\ Present(i)'
                                         /\ job'[i].key = job[i].key /\ job'[i].digest = job[i].digest
                                         /\ expires'[i] \in {expires[i], StateTTL}
    PROVE  KeyNamesItsJob'
  <1> SUFFICES ASSUME NEW k \in Keys, NEW i \in Jobs, idem[k].job = i
               PROVE  /\ Present(i)'
                      /\ job'[i].key = k /\ job'[i].digest = idem[k].digest
                      /\ idem[k].ttl <= expires'[i]
    BY DEF KeyNamesItsJob
  <1>1. idem[k].ttl \in 0..StateTTL
    BY DEF StoreTypeOK, Identity
  <1>2. idem[k].ttl <= StateTTL
    BY <1>1, Bounds
  <1> QED
    BY <1>2 DEF KeyNamesItsJob

\* register_job points the key at the job it writes, for as long as that lives.
LEMMA KeyRegister ==
    ASSUME StoreTypeOK, KeyNamesItsJob, NEW j \in Jobs, NEW k \in Keys, NEW d \in Digests,
           NEW g \in Gens, NEW r \in 1..MaxRev, NEW a \in 0..MaxAttempt,
           NEW l \in 0..Timeout, RegisterJob(j, k, d, g, r, a, l)
    PROVE  KeyNamesItsJob'
  <1> SUFFICES ASSUME NEW c \in Keys, NEW i \in Jobs, idem'[c].job = i
               PROVE  /\ Present(i)'
                      /\ job'[i].key = c /\ job'[i].digest = idem'[c].digest
                      /\ idem'[c].ttl <= expires'[i]
    BY DEF KeyNamesItsJob
  <1>1. CASE c = k
    <2>1. idem'[c] = [job |-> j, digest |-> d, ttl |-> StateTTL]
      BY <1>1 DEF RegisterJob, StoreTypeOK
    <2>2. /\ job'[j].status = "queued" /\ job'[j].key = k /\ job'[j].digest = d
          /\ expires'[j] = StateTTL
      BY DEF RegisterJob, StoreTypeOK
    <2> QED
      BY <1>1, <2>1, <2>2, Bounds DEF Present
  <1>2. CASE c # k
    <2>1. idem'[c] = idem[c]
      BY <1>2 DEF RegisterJob, StoreTypeOK
    <2>2. i # j
      BY <2>1, RegisterIsFresh DEF KeyNamesItsJob
    <2>3. job'[i] = job[i] /\ expires'[i] = expires[i]
      BY <2>2 DEF RegisterJob, StoreTypeOK
    <2> QED
      BY <2>1, <2>3 DEF KeyNamesItsJob, Present
  <1> QED
    BY <1>1, <1>2

\* The key expires no later than the state it names.
LEMMA KeyTick ==
    ASSUME StoreTypeOK, KeyNamesItsJob, StoreTick
    PROVE  KeyNamesItsJob'
  <1> SUFFICES ASSUME NEW k \in Keys, NEW i \in Jobs, idem'[k].job = i
               PROVE  /\ Present(i)'
                      /\ job'[i].key = k /\ job'[i].digest = idem'[k].digest
                      /\ idem'[k].ttl <= expires'[i]
    BY DEF KeyNamesItsJob
  <1>1. idem'[k] = [idem[k] EXCEPT !.ttl = Down(@)] /\ ~LastTick(idem[k].ttl)
    <2>1. idem'[k] # NoIdentity
      BY NoneAssumption DEF NoIdentity
    <2> QED
      BY <2>1 DEF StoreTick
  <1>2. idem[k] \in Identity /\ expires[i] \in 0..StateTTL
    BY DEF StoreTypeOK
  <1>3. idem'[k].job = idem[k].job /\ idem'[k].digest = idem[k].digest /\ idem'[k].ttl = Down(idem[k].ttl)
    BY <1>1, <1>2 DEF Identity
  <1>4. /\ Present(i) /\ job[i].key = k /\ job[i].digest = idem[k].digest
        /\ idem[k].ttl <= expires[i]
    BY <1>3 DEF KeyNamesItsJob
  <1>5. idem[k].ttl \in 0..StateTTL
    BY <1>2 DEF Identity
  <1>6. ~LastTick(expires[i]) /\ Down(idem[k].ttl) <= Down(expires[i])
    BY <1>1, <1>2, <1>4, <1>5, Bounds DEF LastTick, Down
  <1>7. job'[i] = job[i] /\ expires'[i] = Down(expires[i])
    BY <1>6 DEF StoreTick
  <1> QED
    BY <1>3, <1>4, <1>6, <1>7 DEF Present

\* A live idempotency key always names a live job registered under it with its
\* digest, and does not outlive it (register_job and the TTLs of the two keys).
THEOREM KeysNameTheirJobs == StoreSpec => []KeyNamesItsJob
  <1>1. StoreInit => KeyNamesItsJob
    BY NoneAssumption DEF StoreInit, KeyNamesItsJob, NoIdentity
  <1>2. StoreTypeOK /\ KeyNamesItsJob /\ [StoreNext]_storeVars => KeyNamesItsJob'
    <2> SUFFICES ASSUME StoreTypeOK, KeyNamesItsJob, [StoreNext]_storeVars PROVE KeyNamesItsJob'
      OBVIOUS
    <2>1. CASE StoreTick
      BY <2>1, KeyTick
    <2>2. CASE StoreOperation
      <3> PICK j \in Jobs : StoreOperation!(j)
        BY <2>2 DEF StoreOperation
      <3>1. CASE \E k \in Keys, d \in Digests, g \in Gens, r \in 1..MaxRev, a \in 0..MaxAttempt,
                    l \in 0..Timeout : RegisterJob(j, k, d, g, r, a, l)
        BY <3>1, KeyRegister
      <3>2. CASE \E g \in Gens, a \in 0..MaxAttempt :
                    \/ \E s \in {"queued", "running"} : Transition(j, g, s, a, 0, "none")
                    \/ \E p \in Gens : Transition(j, g, "succeeded", a, p, "none")
                    \/ \E e \in {"retryable", "final"} : Transition(j, g, "failed", a, 0, e)
        <4> PICK g \in Gens, a \in 0..MaxAttempt, s \in Statuses, p \in 0..MaxGen, e \in Errors :
                   Transition(j, g, s, a, p, e)
          <5>1. 0 \in 0..MaxGen /\ Gens \subseteq 0..MaxGen
            BY Bounds DEF Gens
          <5> QED
            BY <3>2, <5>1 DEF Statuses, Errors
        <4>1. job'[j] = [job[j] EXCEPT !.status = s, !.attempt = a, !.rev = job[j].rev + 1,
                                       !.report = p, !.error = e]
          BY DEF Transition, StoreTypeOK
        <4>2. Present(j)' /\ job'[j].key = job[j].key /\ job'[j].digest = job[j].digest
          BY <4>1, SnapshotFields DEF Present, Statuses, JobState
        <4>3. \A i \in Jobs : i # j => job'[i] = job[i] /\ expires'[i] = expires[i]
          BY DEF Transition, StoreTypeOK
        <4>4. expires'[j] = StateTTL /\ idem' = idem
          BY DEF Transition, StoreTypeOK
        <4> QED
          BY <4>2, <4>3, <4>4, KeyKept DEF Present
      <3>3. CASE \E g \in Gens : TakeOverStale(j, g)
        <4> PICK g \in Gens : TakeOverStale(j, g)
          BY <3>3
        <4>1. job'[j] = [job[j] EXCEPT !.status = "queued", !.gen = g + 1, !.rev = job[j].rev + 1]
          BY DEF TakeOverStale, StoreTypeOK
        <4>2. Present(j)' /\ job'[j].key = job[j].key /\ job'[j].digest = job[j].digest
          BY <4>1, SnapshotFields DEF Present, JobState
        <4>3. \A i \in Jobs : i # j => job'[i] = job[i] /\ expires'[i] = expires[i]
          BY DEF TakeOverStale, StoreTypeOK
        <4>4. expires'[j] = StateTTL /\ idem' = idem
          BY DEF TakeOverStale, StoreTypeOK
        <4> QED
          BY <4>2, <4>3, <4>4, KeyKept DEF Present
      <3>4. CASE RetryFailed(j)
        <4>1. job'[j] = [job[j] EXCEPT !.status = "queued", !.gen = job[j].gen + 1,
                                       !.rev = job[j].rev + 1, !.report = 0, !.error = "none"]
          BY <3>4 DEF RetryFailed, StoreTypeOK
        <4>2. Present(j)' /\ job'[j].key = job[j].key /\ job'[j].digest = job[j].digest
          BY <4>1, SnapshotFields DEF Present, JobState
        <4>3. \A i \in Jobs : i # j => job'[i] = job[i] /\ expires'[i] = expires[i]
          BY <3>4 DEF RetryFailed, StoreTypeOK
        <4>4. expires'[j] = StateTTL /\ idem' = idem
          BY <3>4 DEF RetryFailed, StoreTypeOK
        <4> QED
          BY <4>2, <4>3, <4>4, KeyKept DEF Present
      <3>5. CASE \E r \in 1..MaxRev : MarkCallbackSynced(j, r)
        <4> PICK r \in 1..MaxRev : MarkCallbackSynced(j, r)
          BY <3>5
        <4>1. job'[j] = [job[j] EXCEPT !.synced = SyncedRevision(j, r)]
          BY DEF MarkCallbackSynced, StoreTypeOK
        <4>2. Present(j)' /\ job'[j].key = job[j].key /\ job'[j].digest = job[j].digest
          BY <4>1, SnapshotFields DEF Present, JobState, MarkCallbackSynced
        <4>3. \A i \in Jobs : i # j => job'[i] = job[i] /\ expires'[i] = expires[i]
          BY DEF MarkCallbackSynced, StoreTypeOK
        <4>4. expires'[j] = StateTTL /\ idem' = idem
          BY DEF MarkCallbackSynced, StoreTypeOK
        <4> QED
          BY <4>2, <4>3, <4>4, KeyKept DEF Present
      <3>6. CASE job' = job /\ expires' = expires /\ idem' = idem
        BY <3>6 DEF KeyNamesItsJob, Present
      <3> QED
        BY <3>1, <3>2, <3>3, <3>4, <3>5, <3>6
        DEF AcquireLease, RefreshLease, ReleaseLease, DiscardMissingJobIndexes,
            DiscardMissingJobRecovery, DiscardPendingRecovery, MarkRecoveryEnqueued
    <2>3. CASE UNCHANGED storeVars
      BY <2>3 DEF storeVars, KeyNamesItsJob, Present
    <2> QED
      BY <2>1, <2>2, <2>3 DEF StoreNext
  <1> QED
    BY <1>1, <1>2, StoreTypeCorrect, PTL DEF StoreSpec

-----------------------------------------------------------------------------
(* What one step may do to a snapshot that lives through it.                 *)

\* A snapshot that only acknowledges its callback, upwards.
Acknowledged(i) ==
    job'[i] = [job[i] EXCEPT !.synced = job'[i].synced] /\ job'[i].synced >= job[i].synced

\* A snapshot with the next revision, of a job that was not finished.
Advanced(i) ==
    ~Terminal(i) /\ job'[i].rev = job[i].rev + 1 /\ job'[i].synced = job[i].synced

\* A retryable failure opened again under a new generation.
Reopened(i) ==
    /\ job'[i].rev = job[i].rev + 1 /\ job'[i].synced = job[i].synced
    /\ job[i].error = "retryable" /\ job'[i].status = "queued"
    /\ job'[i].gen = job[i].gen + 1 /\ job'[i].report = 0

\* A snapshot a step leaves alone acknowledges nothing new.
LEMMA SameIsAcknowledged ==
    ASSUME StoreTypeOK, NEW i \in Jobs, job'[i] = job[i]
    PROVE  Acknowledged(i)
  <1>1. job[i] = [job[i] EXCEPT !.synced = job[i].synced]
    BY SnapshotFields DEF JobState
  <1> QED
    BY <1>1, SnapshotFields, Bounds DEF Acknowledged

\* Every store operation and every tick treats a surviving snapshot in one of these
\* three ways: nothing rewrites a finished job behind its revision.
LEMMA StepShape ==
    ASSUME StoreTypeOK, IndexInv, [StoreNext]_storeVars, NEW i \in Jobs, Present(i), Present(i)'
    PROVE  Acknowledged(i) \/ Advanced(i) \/ Reopened(i)
  <1>1. CASE UNCHANGED storeVars
    BY <1>1, SameIsAcknowledged DEF storeVars
  <1>2. CASE StoreTick
    <2>1. job'[i] = job[i]
      BY <1>2 DEF StoreTick, Present, Missing
    <2> QED
      BY <2>1, SameIsAcknowledged
  <1>3. CASE StoreOperation
    <2> PICK j \in Jobs : StoreOperation!(j)
      BY <1>3 DEF StoreOperation
    <2>1. CASE \E k \in Keys, d \in Digests, g \in Gens, r \in 1..MaxRev, a \in 0..MaxAttempt,
                  l \in 0..Timeout : RegisterJob(j, k, d, g, r, a, l)
      <3>1. i # j
        BY <2>1, RegisterIsFresh
      <3>2. job'[i] = job[i]
        BY <2>1, <3>1 DEF RegisterJob, StoreTypeOK
      <3> QED
        BY <3>2, SameIsAcknowledged
    <2>2. CASE \E g \in Gens, a \in 0..MaxAttempt :
                  \/ \E s \in {"queued", "running"} : Transition(j, g, s, a, 0, "none")
                  \/ \E p \in Gens : Transition(j, g, "succeeded", a, p, "none")
                  \/ \E e \in {"retryable", "final"} : Transition(j, g, "failed", a, 0, e)
      <3> PICK g, a, s, p, e : Transition(j, g, s, a, p, e)
        BY <2>2
      <3>1. CASE i # j
        <4>1. job'[i] = job[i]
          BY <3>1 DEF Transition, StoreTypeOK
        <4> QED
          BY <4>1, SameIsAcknowledged
      <3>2. CASE i = j
        <4>1. ~Terminal(i)
          BY <3>2 DEF Transition, Refused, Settled
        <4>2. job'[i] = [job[i] EXCEPT !.status = s, !.attempt = a, !.rev = job[i].rev + 1,
                                       !.report = p, !.error = e]
          BY <3>2 DEF Transition, StoreTypeOK
        <4> QED
          BY <4>1, <4>2, SnapshotFields DEF Advanced, JobState
      <3> QED
        BY <3>1, <3>2
    <2>3. CASE \E g \in Gens : TakeOverStale(j, g)
      <3> PICK g \in Gens : TakeOverStale(j, g)
        BY <2>3
      <3>1. CASE i # j
        <4>1. job'[i] = job[i]
          BY <3>1 DEF TakeOverStale, StoreTypeOK
        <4> QED
          BY <4>1, SameIsAcknowledged
      <3>2. CASE i = j
        <4>1. ~Terminal(i)
          BY <3>2 DEF TakeOverStale, MayTakeOver
        <4>2. job'[i] = [job[i] EXCEPT !.status = "queued", !.gen = g + 1, !.rev = job[i].rev + 1]
          BY <3>2 DEF TakeOverStale, StoreTypeOK
        <4> QED
          BY <4>1, <4>2, SnapshotFields DEF Advanced, JobState
      <3> QED
        BY <3>1, <3>2
    <2>4. CASE RetryFailed(j)
      <3>1. CASE i # j
        <4>1. job'[i] = job[i]
          BY <2>4, <3>1 DEF RetryFailed, StoreTypeOK
        <4> QED
          BY <4>1, SameIsAcknowledged
      <3>2. CASE i = j
        <4>1. job[i].error = "retryable"
          BY <2>4, <3>2 DEF RetryFailed
        <4>2. job'[i] = [job[i] EXCEPT !.status = "queued", !.gen = job[i].gen + 1,
                                       !.rev = job[i].rev + 1, !.report = 0, !.error = "none"]
          BY <2>4, <3>2 DEF RetryFailed, StoreTypeOK
        <4> QED
          BY <4>1, <4>2, SnapshotFields DEF Reopened, JobState
      <3> QED
        BY <3>1, <3>2
    <2>5. CASE \E r \in 1..MaxRev : MarkCallbackSynced(j, r)
      <3> PICK r \in 1..MaxRev : MarkCallbackSynced(j, r)
        BY <2>5
      <3>1. CASE i # j
        <4>1. job'[i] = job[i]
          BY <3>1 DEF MarkCallbackSynced, StoreTypeOK
        <4> QED
          BY <4>1, SameIsAcknowledged
      <3>2. CASE i = j
        <4>1. job'[i] = [job[i] EXCEPT !.synced = SyncedRevision(i, r)]
          BY <3>2 DEF MarkCallbackSynced, StoreTypeOK
        <4>2. SyncedRevision(i, r) >= job[i].synced
          BY SyncedRevisionBounds, SnapshotFields, Bounds DEF IndexInv, SyncedWithinRevision, SyncedRevision
        <4>3. job'[i].synced = SyncedRevision(i, r)
          BY <4>1, SnapshotFields DEF JobState
        <4> QED
          BY <4>1, <4>2, <4>3 DEF Acknowledged
      <3> QED
        BY <3>1, <3>2
    <2>6. CASE job' = job
      BY <2>6, SameIsAcknowledged
    <2> QED
      BY <2>1, <2>2, <2>3, <2>4, <2>5, <2>6
      DEF AcquireLease, RefreshLease, ReleaseLease, DiscardMissingJobIndexes,
          DiscardMissingJobRecovery, DiscardPendingRecovery, MarkRecoveryEnqueued
  <1> QED
    BY <1>1, <1>2, <1>3 DEF StoreNext

\* The invariant StepShape needs holds throughout (mark_callback_synced, transition).
THEOREM StoreInvariant == StoreSpec => [](StoreTypeOK /\ IndexInv)
  BY StoreTypeCorrect, IndexInvariant, PTL

\* A finished job changes only by acknowledging its callback or by being reopened,
\* whatever transitions, takeovers and heartbeats its clients still attempt.
THEOREM FinishedStaysFinished == StoreSpec => TerminalIsFinal
  <1> DEFINE A == \A j \in Jobs : Terminal(j) /\ Present(j)' =>
                    \/ job'[j] = [job[j] EXCEPT !.synced = job'[j].synced]
                    \/ /\ job[j].error = "retryable" /\ job'[j].status = "queued"
                       /\ job'[j].gen = job[j].gen + 1 /\ job'[j].report = 0
  <1>1. StoreTypeOK /\ IndexInv /\ [StoreNext]_storeVars => [A]_storeVars
    <2> SUFFICES ASSUME StoreTypeOK, IndexInv, [StoreNext]_storeVars, NEW j \in Jobs,
                        Terminal(j), Present(j)'
                 PROVE  \/ job'[j] = [job[j] EXCEPT !.synced = job'[j].synced]
                        \/ /\ job[j].error = "retryable" /\ job'[j].status = "queued"
                           /\ job'[j].gen = job[j].gen + 1 /\ job'[j].report = 0
      OBVIOUS
    <2>1. Present(j)
      BY DEF Terminal, Present
    <2> QED
      BY <2>1, StepShape DEF Acknowledged, Advanced, Reopened
  <1>2. StoreSpec => [][A]_storeVars
    BY <1>1, StoreInvariant, PTL DEF StoreSpec
  <1> QED
    BY <1>2 DEF TerminalIsFinal

\* Whatever a client can see of a live job changes under a new revision only, and the
\* acknowledged revision never falls: a revision names one snapshot.
THEOREM RevisionsNameSnapshots == StoreSpec => RevisionNamesSnapshot
  <1> DEFINE A == \A j \in Jobs : Present(j) /\ Present(j)' =>
                    \/ job'[j].rev = job[j].rev + 1 /\ job'[j].synced = job[j].synced
                    \/ /\ job'[j] = [job[j] EXCEPT !.synced = job'[j].synced]
                       /\ job'[j].synced >= job[j].synced
  <1>1. StoreTypeOK /\ IndexInv /\ [StoreNext]_storeVars => [A]_storeVars
    BY StepShape DEF Acknowledged, Advanced, Reopened
  <1>2. StoreSpec => [][A]_storeVars
    BY <1>1, StoreInvariant, PTL DEF StoreSpec
  <1> QED
    BY <1>2 DEF RevisionNamesSnapshot

=============================================================================
