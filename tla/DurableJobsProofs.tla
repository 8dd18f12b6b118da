-------------------------- MODULE DurableJobsProofs --------------------------
(***************************************************************************)
(* Proofs about the processes that share the job store, for any number of   *)
(* jobs, workers and reconcilers, any bounds and any timing of the keys.    *)
(*                                                                          *)
(* Every step is described once, by what it may do to the snapshots, to the *)
(* local state of one process and to the database; the invariants are then  *)
(* proved from these descriptions.                                          *)
(***************************************************************************)
EXTENDS DurableJobs, JobStoreProofs

-----------------------------------------------------------------------------
(* The inductive invariant: what each process knows where it stands.         *)

\* A snapshot that exists has a generation and a revision.
JobOK(j) == job[j] = Missing \/ (Present(j) /\ job[j].gen # 0 /\ job[j].rev # 0)

\* A dispatch has been told a generation and a revision by SQL.
ApiOK(j) == api[j].seen = NoDispatch \/ (api[j].seen.gen # 0 /\ api[j].seen.rev # 0)

\* An accepted result names the generation it came from.
OutcomeOK(j) == outcome[j].status = "succeeded" <=> outcome[j].gen # 0

\* A run has a job, waits for a callback it has started, fails for a reason, and has a
\* heartbeat only while it has the lease.
RunOK(x, b, s) ==
    /\ x.pc # "idle" => x.job \in Jobs /\ x.gen # 0
    /\ x.pc = "sync" => x.then # "none"
    /\ x.pc \in {"fail", "end"} => x.err # "none"
    /\ x.pc \in {"idle", "read", "lease", "ack"} => b = "off"
    /\ s.step # "none" => x.pc = "sync"

\* It completes or restores what SQL has, and ends what SQL has failed.
RunDecided(x, o) ==
    /\ x.pc \in {"complete", "restore"} => o[x.job].status = "succeeded"
    /\ x.pc = "end" => o[x.job].status = "failed"

\* Its physical job has been queued.
RunQueued(x, q) == x.pc # "idle" => q[x.job][x.gen].state # "absent"

WorkerOK(w) == RunOK(worker[w], beat[w], sync[w]) /\ RunDecided(worker[w], outcome) /\ RunQueued(worker[w], arq)

\* A reconciler acts on a job and on a generation, and fails for a reason.
CycleOK(x, s) ==
    /\ x.phase = "idle" => x.pc = "next" /\ x.todo = {}
    /\ x.phase = "recoveries" => \A item \in x.todo : item[2] # 0
    /\ x.pc # "next" => x.job \in Jobs
    /\ x.pc # "sync" => x.then = "none"
    /\ x.pc \notin {"next", "sync", "stale"} \/ x.then = "enqueue" => x.gen # 0
    /\ x.pc \in {"pending", "discard", "decide", "fail"} => x.err # "none"
    /\ x.pc = "discard" => x.other # 0
    /\ s.step # "none" => x.pc = "sync" /\ s.job = x.job

\* It restores what SQL has.
CycleDecided(x, o) == x.pc = "restore" => o[x.job].status = "succeeded"

RecOK(r) == CycleOK(rec[r], sync[r]) /\ CycleDecided(rec[r], outcome)

\* A callback is about a snapshot that existed.
EventOK(x) ==
    /\ x.step # "none" => x.job \in Jobs
    /\ x.step \in {"send", "mark"} => x.rev # 0 /\ x.gen # 0 /\ x.status # "none"

SyncOK(p) == EventOK(sync[p])

SystemInv ==
    /\ TypeOK
    /\ \A j \in Jobs : JobOK(j) /\ ApiOK(j) /\ OutcomeOK(j)
    /\ \A w \in Workers : WorkerOK(w)
    /\ \A r \in Reconcilers : RecOK(r)
    /\ \A p \in Callers : SyncOK(p)

-----------------------------------------------------------------------------
(* What one step may do.                                                     *)

\* A failed transition is of a job that SQL does not decide, or has failed, or one that
\* a reconciler fails.
MayFail(i) ==
    \/ i \notin Capability \/ request[i] = NoRequest \/ outcome[i].status = "failed"
    \/ \E r \in Reconcilers : rec[r].pc = "fail" /\ rec[r].job = i

\* The five things that can happen to a snapshot: nothing, its expiry, its registration,
\* a new revision, an acknowledged callback.
Registered(i) ==
    /\ ~Present(i) /\ job'[i].status = "queued" /\ job'[i].synced = 0 /\ job'[i].rev # 0
    /\ job'[i].gen = 1 \/ (api[i].seen # NoDispatch /\ job'[i].gen = api[i].seen.gen)
Moved(i) ==
    /\ Present(i) /\ ~Terminal(i) /\ Present(i)'
    /\ job'[i].rev = job[i].rev + 1 /\ job'[i].synced = job[i].synced
    /\ job'[i].gen \in {job[i].gen, job[i].gen + 1}
    /\ job'[i].status = "succeeded" => outcome[i].status = "succeeded"
    /\ job'[i].status = "failed" => MayFail(i)
Marked(i) ==
    /\ Present(i)
    /\ \E p \in Callers : /\ sync[p].step = "mark" /\ sync[p].job = i
                          /\ job'[i] = [job[i] EXCEPT !.synced = SyncedRevision(i, sync[p].rev)]
SnapshotMoves(i) ==
    job'[i] = job[i] \/ (job'[i] = Missing /\ StateTTL > 0) \/ Registered(i) \/ Moved(i) \/ Marked(i)

\* Every change to Redis is an operation of the store.
StoreMoves == [StoreNext]_storeVars /\ \A i \in Jobs : SnapshotMoves(i)

\* SQL decides once, and accepts a result of the generation that its row names.
OutcomeMoves ==
    /\ outcome' \in [Jobs -> Outcomes]
    /\ \A i \in Jobs : /\ outcome'[i].status = "succeeded" <=> outcome'[i].gen # 0
                       /\ \/ outcome'[i] = outcome[i]
                          \/ /\ outcome[i].status = "open"
                             /\ outcome'[i].status = "succeeded" => outcome'[i].gen = db[i].gen

\* A run is queued by a submission or by a reconciler that pushes it.
Pushed(j, g) ==
    \/ api[j].gen = g
    \/ \E r \in Reconcilers : rec[r].pc = "enqueue" /\ rec[r].job = j /\ rec[r].gen = g
QueueMoves ==
    /\ arq' \in [Jobs -> [Gens -> ArqState]]
    /\ \A j \in Jobs, g \in Gens :
          /\ arq[j][g].state # "absent" => arq'[j][g].state # "absent"
          /\ arq'[j][g].state # "absent" => arq[j][g].state # "absent" \/ Pushed(j, g)

\* A worker's step leaves the other processes alone, and sends nothing.
SlotMoves(w) ==
    /\ worker' \in [Workers -> WorkerState] /\ beat' \in [Workers -> BeatStates]
    /\ sync' \in [Callers -> SyncState]
    /\ \A v \in Workers \ {w} : worker'[v] = worker[v] /\ beat'[v] = beat[v]
    /\ \A p \in Callers \ {w} : sync'[p] = sync[p]
    /\ sync'[w] = sync[w] \/ sync'[w].step \in {"none", "read"}
    /\ WorkerOK(w)' /\ SyncOK(w)'
WorkerMoves(w) ==
    /\ StoreMoves /\ OutcomeMoves /\ QueueMoves /\ SlotMoves(w) /\ faults' \in 0..MaxFaults
    /\ UNCHANGED <<api, rec, db>>

\* Nor does a reconciler's step touch the other processes, or send.
CycleMoves(r) ==
    /\ rec' \in [Reconcilers -> RecState] /\ sync' \in [Callers -> SyncState]
    /\ \A q \in Reconcilers \ {r} : rec'[q] = rec[q]
    /\ \A p \in Callers \ {r} : sync'[p] = sync[p]
    /\ sync'[r] = sync[r] \/ sync'[r].step \in {"none", "read"}
    /\ RecOK(r)' /\ SyncOK(r)'
RecMoves(r) ==
    /\ StoreMoves /\ OutcomeMoves /\ QueueMoves /\ CycleMoves(r) /\ faults' \in 0..MaxFaults
    /\ UNCHANGED <<api, worker, beat, db>>

\* A callback reads a snapshot, is sent, is acknowledged, or ends, and the row takes its
\* event while it is sent.
EventMoves(p) ==
    /\ \A q \in Callers \ {p} : sync'[q] = sync[q]
    /\ \/ sync'[p].step = "none" /\ (db' = db \/ (sync[p].step = "send" /\ db' = Applied(sync[p])))
       \/ /\ sync[p].step = "read" /\ sync'[p].step = "send" /\ sync'[p].job = sync[p].job
          /\ Present(sync[p].job) /\ UNCHANGED <<job, db>>
          /\ LET now == job[sync[p].job] IN
             sync'[p].rev = now.rev /\ sync'[p].gen = now.gen /\ sync'[p].status = now.status
       \/ /\ sync[p].step = "send" /\ sync'[p] = [sync[p] EXCEPT !.step = "mark"]
          /\ UNCHANGED job /\ db' = Applied(sync[p])
CallMoves(p) ==
    /\ StoreMoves /\ EventMoves(p) /\ faults' \in 0..MaxFaults
    /\ UNCHANGED <<api, arq, beat, outcome>>

-----------------------------------------------------------------------------
(* The store operations that the processes use.                              *)

\* A step that leaves Redis alone.
LEMMA QuietStore == ASSUME UNCHANGED storeVars PROVE StoreMoves
  BY DEF StoreMoves, SnapshotMoves, storeVars

\* A step that leaves the snapshots alone.
LEMMA QuietSnapshots == ASSUME StoreNext, UNCHANGED job PROVE StoreMoves
  BY DEF StoreMoves, SnapshotMoves

\* transition, as the worker, its heartbeat and the reconciler call it.
LEMMA TransitionMoves ==
    ASSUME SystemInv, NEW j \in Jobs, NEW g \in 1..MaxGen, NEW s \in Statuses, NEW a \in 0..MaxAttempt,
           NEW p \in 0..MaxGen, NEW e \in Errors, Transition(j, g, s, a, p, e),
           \/ s \in {"queued", "running"} /\ p = 0 /\ e = "none"
           \/ s = "succeeded" /\ p # 0 /\ e = "none" /\ outcome[j].status = "succeeded"
           \/ s = "failed" /\ p = 0 /\ e # "none" /\ MayFail(j)
    PROVE  StoreMoves
  <1>1. StoreNext
    BY DEF StoreNext, StoreOperation, Gens, Errors
  <1>2. ASSUME NEW i \in Jobs PROVE SnapshotMoves(i)
    <2>1. CASE i # j
      BY <2>1 DEF Transition, SnapshotMoves, SystemInv, TypeOK, StoreTypeOK
    <2>2. CASE i = j
      <3>1. job'[j] = [job[j] EXCEPT !.status = s, !.attempt = a, !.rev = job[j].rev + 1, !.report = p, !.error = e]
        BY DEF Transition, SystemInv, TypeOK, StoreTypeOK
      <3>2. job[j] \in JobState
        BY DEF SystemInv, TypeOK, StoreTypeOK
      <3>3. Present(j) /\ ~Terminal(j)
        BY DEF Transition, Refused, Fenced, Settled
      <3> QED
        BY <2>2, <3>1, <3>2, <3>3 DEF SnapshotMoves, Moved, JobState, Present, Statuses
    <2> QED
      BY <2>1, <2>2
  <1> QED
    BY <1>1, <1>2 DEF StoreMoves

-----------------------------------------------------------------------------
(* The local state of a worker.                                              *)

\* What is known of one slot.
LEMMA Slot ==
    ASSUME SystemInv, NEW w \in Workers
    PROVE  /\ worker[w] \in WorkerState /\ beat[w] \in BeatStates /\ sync[w] \in SyncState
           /\ RunOK(worker[w], beat[w], sync[w]) /\ RunDecided(worker[w], outcome)
           /\ RunQueued(worker[w], arq) /\ SyncOK(w)
           /\ w \in Callers
  BY DEF SystemInv, TypeOK, WorkerOK, Callers

\* The job and the generation of a run, and what it writes about its attempts.
LEMMA RunFields ==
    ASSUME SystemInv, NEW w \in Workers, worker[w].pc # "idle"
    PROVE  /\ worker[w].job \in Jobs /\ worker[w].gen \in 1..MaxGen /\ worker[w].gen \in Gens
           /\ job[worker[w].job].attempt \in 0..MaxAttempt
           /\ AttemptCount(w) \in 0..MaxAttempt /\ worker[w].attempt \in 0..MaxAttempt
           /\ worker[w].err \in Errors /\ w \in Tokens
  <1>1. worker[w].job \in Jobs /\ worker[w].gen \in 0..MaxGen /\ worker[w].gen # 0
        /\ worker[w].attempt \in 0..MaxAttempt /\ worker[w].err \in Errors
    BY Slot DEF RunOK, WorkerState
  <1>2. job[worker[w].job].attempt \in 0..MaxAttempt
    BY <1>1 DEF SystemInv, TypeOK, StoreTypeOK, JobState
  <1>3. MaxAttempt \in Nat \ {0} /\ w \in Tokens
    BY SystemAssumption
  <1> QED
    BY <1>1, <1>2, <1>3, Bounds DEF AttemptCount, Gens

\* No step takes a physical job out of ARQ's records, and a worker puts none in.
LEMMA SameQueue == ASSUME SystemInv, UNCHANGED arq PROVE QueueMoves
  BY DEF SystemInv, TypeOK, QueueMoves

\* A worker takes a physical job that is queued, and puts one back that it has taken.
LEMMA WorkQueue ==
    ASSUME SystemInv, NEW w \in Workers, Work(w)
    PROVE  QueueMoves
  <1>1. CASE UNCHANGED arq
    BY <1>1, SameQueue
  <1>2. CASE \E j \in Jobs, g \in Gens : Deliver(w, j, g)
    <2> PICK j \in Jobs, g \in Gens : Deliver(w, j, g)
      BY <1>2
    <2>1. arq \in [Jobs -> [Gens -> ArqState]] /\ arq[j] \in [Gens -> ArqState] /\ arq[j][g] \in ArqState
      BY DEF SystemInv, TypeOK
    <2>2. MaxTries \in Nat /\ arq[j][g].state = "queued"
      BY SystemAssumption DEF Deliver
    <2>3. \E x \in ArqState : x.state # "absent" /\ arq' = [arq EXCEPT ![j][g] = x]
      <3>1. CASE arq[j][g].tries = MaxTries
        <4>1. [arq[j][g] EXCEPT !.state = "done"] \in ArqState
          BY <2>1 DEF ArqState
        <4>2. [arq[j][g] EXCEPT !.state = "done"].state # "absent"
          BY <2>1 DEF ArqState
        <4>3. arq' = [arq EXCEPT ![j][g] = [arq[j][g] EXCEPT !.state = "done"]]
          BY <3>1, <2>1 DEF Deliver
        <4> QED
          BY <4>1, <4>2, <4>3
      <3>2. CASE arq[j][g].tries # MaxTries
        <4>1. [state |-> "running", tries |-> arq[j][g].tries + 1] \in ArqState
          <5>1. arq[j][g].tries \in 0..MaxTries
            BY <2>1 DEF ArqState
          <5>2. arq[j][g].tries + 1 \in 0..MaxTries
            BY <5>1, <2>2, <3>2
          <5> QED
            BY <5>2 DEF ArqState
        <4>2. arq' = [arq EXCEPT ![j][g] = [state |-> "running", tries |-> arq[j][g].tries + 1]]
          BY <3>2, <2>1 DEF Deliver
        <4> QED
          BY <4>1, <4>2
      <3> QED
        BY <3>1, <3>2
    <2> PICK x \in ArqState : x.state # "absent" /\ arq' = [arq EXCEPT ![j][g] = x]
      BY <2>3
    <2> QED
      BY <2>1, <2>2 DEF QueueMoves
  <1>3. CASE Ack(w)
    <2>1. worker[w].pc # "idle"
      BY <1>3 DEF Ack
    <2> DEFINE j == worker[w].job
    <2> DEFINE g == worker[w].gen
    <2> DEFINE state == IF worker[w].retry THEN "queued" ELSE "done"
    <2>2. j \in Jobs /\ g \in Gens /\ arq[j][g].state # "absent"
      BY <2>1, Slot, RunFields DEF RunQueued
    <2>3. arq' = [arq EXCEPT ![j][g].state = state]
      BY <1>3 DEF Ack
    <2>4. arq \in [Jobs -> [Gens -> ArqState]] /\ arq[j] \in [Gens -> ArqState] /\ arq[j][g] \in ArqState
      BY <2>2 DEF SystemInv, TypeOK
    <2> HIDE DEF j, g
    <2>5. [arq[j][g] EXCEPT !.state = state] \in ArqState /\ [arq[j][g] EXCEPT !.state = state].state # "absent"
      BY <2>4 DEF ArqState
    <2> DEFINE x == [arq[j][g] EXCEPT !.state = state]
    <2>6. arq' = [arq EXCEPT ![j][g] = x]
      BY <2>2, <2>3, <2>4
    <2> HIDE DEF x
    <2>7. x \in ArqState /\ x.state # "absent"
      BY <2>5 DEF x
    <2> QED
      BY <2>2, <2>4, <2>6, <2>7 DEF QueueMoves
  <1> QED
    BY <1>1, <1>2, <1>3
    DEF Work, ReadState, TakeLease, LedgerUnavailable, BeginRun, ReportStage, Persist, ExecutorFails,
        Complete, FinishRetry, WorkerUndecided, WorkerDecide, WorkerRestore, FinishFailed, Release,
        Cancelled, WorkerCrash, BeatRefresh, BeatWrite

\* The physical job of a run stays known to ARQ while the run is in its slot.
LEMMA StillQueued ==
    ASSUME SystemInv, QueueMoves, NEW w \in Workers, worker[w].pc # "idle"
    PROVE  arq'[worker[w].job][worker[w].gen].state # "absent"
  BY Slot, RunFields DEF RunQueued, QueueMoves

\* The values that every process starts from are of their types.
LEMMA IdleValues == IdleWorker \in WorkerState /\ IdleRec \in RecState /\ NoSync \in SyncState
  <1>1. IdleWorker \in WorkerState
    BY Bounds DEF IdleWorker, WorkerState, Errors
  <1>2. IdleRec \in RecState
    BY Bounds DEF IdleRec, RecState, Errors
  <1>3. NoSync \in SyncState
    BY Bounds DEF NoSync, SyncState
  <1> QED
    BY <1>1, <1>2, <1>3

\* A callback that begins.
LEMMA CallingOK ==
    ASSUME NEW j \in Jobs
    PROVE  Calling(j) \in SyncState /\ Calling(j).step = "read" /\ Calling(j).job = j /\ EventOK(Calling(j))
  <1>1. [NoSync EXCEPT !.step = "read", !.job = j] \in SyncState
    BY IdleValues DEF SyncState
  <1>2. /\ [NoSync EXCEPT !.step = "read", !.job = j].step = "read"
        /\ [NoSync EXCEPT !.step = "read", !.job = j].job = j
    BY IdleValues DEF SyncState
  <1> QED
    BY <1>1, <1>2 DEF Calling, EventOK

\* A slot that goes to a state in which it may be.
LEMMA SlotGoes ==
    ASSUME SystemInv, QueueMoves, NEW w \in Workers, NEW x \in WorkerState, NEW b \in BeatStates, NEW s,
           worker' = [worker EXCEPT ![w] = x], beat' = [beat EXCEPT ![w] = b],
           sync' = [sync EXCEPT ![w] = s],
           s \in {sync[w], NoSync} \/ \E j \in Jobs : s = Calling(j),
           RunOK(x, b, s), RunDecided(x, outcome'), RunQueued(x, arq')
    PROVE  SlotMoves(w)
  <1>1. worker \in [Workers -> WorkerState] /\ beat \in [Workers -> BeatStates] /\ sync \in [Callers -> SyncState]
    BY DEF SystemInv, TypeOK
  <1>2. /\ worker' \in [Workers -> WorkerState] /\ beat' \in [Workers -> BeatStates]
        /\ \A v \in Workers \ {w} : worker'[v] = worker[v] /\ beat'[v] = beat[v]
        /\ worker'[w] = x /\ beat'[w] = b
    BY <1>1
  <1>3. s \in SyncState /\ EventOK(s) /\ (s = sync[w] \/ s.step \in {"none", "read"})
    <2>1. CASE s = sync[w]
      BY <2>1, Slot DEF SyncOK
    <2>2. CASE s = NoSync
      BY <2>2, IdleValues DEF NoSync, EventOK
    <2>3. CASE \E j \in Jobs : s = Calling(j)
      BY <2>3, CallingOK
    <2> QED
      BY <2>1, <2>2, <2>3
  <1>4. sync' \in [Callers -> SyncState] /\ sync'[w] = s /\ \A p \in Callers \ {w} : sync'[p] = sync[p]
    BY <1>1, <1>3, Slot
  <1>5. WorkerOK(w)' /\ SyncOK(w)'
    BY <1>2, <1>3, <1>4 DEF WorkerOK, SyncOK
  <1> QED
    BY <1>2, <1>3, <1>4, <1>5 DEF SlotMoves

\* What a run keeps on its way out.
LEMMA LeavingOK ==
    ASSUME SystemInv, NEW w \in Workers, NEW retry \in BOOLEAN
    PROVE  /\ Leaving(w, retry) \in WorkerState
           /\ Leaving(w, retry).pc = "exit" /\ Leaving(w, retry).job = worker[w].job
           /\ Leaving(w, retry).gen = worker[w].gen
  BY Slot, IdleValues DEF WorkerState, Leaving

\* A run that leaves keeps its job.
LEMMA Leaves ==
    ASSUME SystemInv, QueueMoves, NEW w \in Workers, NEW retry \in BOOLEAN, worker[w].pc \notin {"idle", "sync"},
           Leave(w, retry), UNCHANGED <<beat, sync>>
    PROVE  SlotMoves(w)
  <1>1. /\ worker' = [worker EXCEPT ![w] = Leaving(w, retry)]
        /\ beat' = [beat EXCEPT ![w] = beat[w]] /\ sync' = [sync EXCEPT ![w] = sync[w]]
    BY DEF Leave, SystemInv, TypeOK
  <1>2. RunOK(Leaving(w, retry), beat[w], sync[w]) /\ RunDecided(Leaving(w, retry), outcome') /\ RunQueued(Leaving(w, retry), arq')
    BY Slot, LeavingOK, StillQueued DEF RunOK, RunDecided, RunQueued
  <1> QED
    BY <1>1, <1>2, Slot, LeavingOK, SlotGoes

\* A run that fails has a reason.
LEMMA Fails ==
    ASSUME SystemInv, QueueMoves, NEW w \in Workers, NEW e \in {"retryable", "final"},
           worker[w].pc \notin {"idle", "sync"}, Fail(w, e), UNCHANGED <<beat, sync>>
    PROVE  SlotMoves(w)
  <1> DEFINE x == [worker[w] EXCEPT !.pc = "fail", !.err = e]
  <1>1. /\ worker' = [worker EXCEPT ![w] = x]
        /\ beat' = [beat EXCEPT ![w] = beat[w]] /\ sync' = [sync EXCEPT ![w] = sync[w]]
    BY DEF Fail, SystemInv, TypeOK
  <1>2. /\ x \in WorkerState /\ x.pc = "fail" /\ x.err = e /\ x.job = worker[w].job /\ x.gen = worker[w].gen
    BY Slot DEF WorkerState, Errors
  <1>3. RunOK(x, beat[w], sync[w]) /\ RunDecided(x, outcome') /\ RunQueued(x, arq')
    BY <1>2, Slot, StillQueued DEF RunOK, RunDecided, RunQueued
  <1> HIDE DEF x
  <1> QED
    BY <1>1, <1>2, <1>3, Slot, SlotGoes

\* A run that changes only where it stands.
LEMMA GoesOn ==
    ASSUME SystemInv, QueueMoves, NEW w \in Workers, NEW pc \in {"begin", "complete", "end", "restore"},
           worker[w].pc \notin {"idle", "sync"}, worker' = [worker EXCEPT ![w].pc = pc],
           UNCHANGED sync, NEW b \in BeatStates, beat' = [beat EXCEPT ![w] = b],
           pc = "end" => worker[w].err # "none" /\ outcome'[worker[w].job].status = "failed",
           pc \in {"complete", "restore"} => outcome'[worker[w].job].status = "succeeded"
    PROVE  SlotMoves(w)
  <1> DEFINE x == [worker[w] EXCEPT !.pc = pc]
  <1>1. worker' = [worker EXCEPT ![w] = x] /\ sync' = [sync EXCEPT ![w] = sync[w]]
    BY DEF SystemInv, TypeOK
  <1>2. /\ x \in WorkerState /\ x.pc = pc /\ x.err = worker[w].err /\ x.job = worker[w].job
        /\ x.gen = worker[w].gen
    BY Slot DEF WorkerState
  <1>3. RunOK(x, b, sync[w]) /\ RunDecided(x, outcome') /\ RunQueued(x, arq')
    BY <1>2, Slot, StillQueued DEF RunOK, RunDecided, RunQueued
  <1> HIDE DEF x
  <1> QED
    BY <1>1, <1>2, <1>3, Slot, SlotGoes

\* A run that waits for its callback.
LEMMA Waits ==
    ASSUME SystemInv, QueueMoves, NEW w \in Workers, NEW x \in WorkerState, UNCHANGED beat,
           worker[w].pc \notin {"idle", "read", "lease", "ack"},
           worker' = [worker EXCEPT ![w] = x], sync' = [sync EXCEPT ![w] = Calling(worker[w].job)],
           x.pc = "sync", x.then # "none", x.job = worker[w].job, x.gen = worker[w].gen
    PROVE  SlotMoves(w)
  <1>1. beat' = [beat EXCEPT ![w] = beat[w]]
    BY DEF SystemInv, TypeOK
  <1>2. RunOK(x, beat[w], Calling(worker[w].job)) /\ RunDecided(x, outcome') /\ RunQueued(x, arq') /\ worker[w].job \in Jobs
    BY Slot, StillQueued DEF RunOK, RunDecided, RunQueued
  <1> QED
    BY <1>1, <1>2, Slot, SlotGoes

\* A run that is to wait for _notify_state.
LEMMA Waiting ==
    ASSUME NEW y \in WorkerState, NEW pc \in {"exec", "staged", "exit"}
    PROVE  /\ [y EXCEPT !.pc = "sync", !.then = pc] \in WorkerState
           /\ [y EXCEPT !.pc = "sync", !.then = pc].pc = "sync"
           /\ [y EXCEPT !.pc = "sync", !.then = pc].then # "none"
           /\ [y EXCEPT !.pc = "sync", !.then = pc].job = y.job
           /\ [y EXCEPT !.pc = "sync", !.then = pc].gen = y.gen
  BY DEF WorkerState

\* A run waits for the callback of the transition it has applied, and then goes on.
LEMMA Notifies ==
    ASSUME SystemInv, QueueMoves, NEW w \in Workers, NEW pc \in {"exec", "staged", "exit"}, UNCHANGED beat,
           worker[w].pc \notin {"idle", "read", "lease", "ack"}, Notify(w, pc)
    PROVE  SlotMoves(w)
  <1> DEFINE x == [worker[w] EXCEPT !.pc = "sync", !.then = pc]
  <1>1. worker' = [worker EXCEPT ![w] = x]
    BY DEF Notify, SystemInv, TypeOK
  <1>2. x \in WorkerState /\ x.pc = "sync" /\ x.then # "none" /\ x.job = worker[w].job /\ x.gen = worker[w].gen
    BY Slot, Waiting
  <1> HIDE DEF x
  <1> QED
    BY <1>1, <1>2, Waits DEF Notify

\* A run waits for its last callback, and then leaves.
LEMMA NotifiesAndLeaves ==
    ASSUME SystemInv, QueueMoves, NEW w \in Workers, NEW retry \in BOOLEAN, UNCHANGED beat,
           worker[w].pc \notin {"idle", "read", "lease", "ack"}, NotifyAndLeave(w, retry)
    PROVE  SlotMoves(w)
  <1> DEFINE y == Leaving(w, retry)
             x == [y EXCEPT !.pc = "sync", !.then = "exit"]
  <1>1. worker' = [worker EXCEPT ![w] = x] /\ sync' = [sync EXCEPT ![w] = Calling(worker[w].job)]
    BY DEF NotifyAndLeave
  <1>2. y \in WorkerState /\ y.job = worker[w].job /\ y.gen = worker[w].gen
    BY LeavingOK
  <1> HIDE DEF y
  <1>3. x \in WorkerState /\ x.pc = "sync" /\ x.then # "none" /\ x.job = y.job /\ x.gen = y.gen
    BY <1>2, Waiting
  <1> HIDE DEF x
  <1> QED
    BY <1>1, <1>2, <1>3, Waits

\* A run that begins, that reads its state, or that is over.
LEMMA DeliverSlot ==
    ASSUME SystemInv, QueueMoves, NEW w \in Workers, NEW j \in Jobs, NEW g \in Gens, Deliver(w, j, g)
    PROVE  SlotMoves(w)
  <1> DEFINE y == IdleWorker
             new == [y EXCEPT !.pc = "read", !.job = j, !.gen = g]
  <1>1. new \in WorkerState /\ new.pc = "read" /\ new.job = j /\ new.gen = g /\ g # 0
    <2>1. y \in WorkerState /\ g \in 0..MaxGen /\ g # 0
      BY IdleValues, Bounds DEF Gens
    <2> HIDE DEF y
    <2> QED
      BY <2>1 DEF WorkerState
  <1>2. \E x \in {new, worker[w]} : worker' = [worker EXCEPT ![w] = x]
    BY DEF Deliver, SystemInv, TypeOK
  <1> HIDE DEF new
  <1> PICK x \in {new, worker[w]} : worker' = [worker EXCEPT ![w] = x]
    BY <1>2
  <1>3. beat' = [beat EXCEPT ![w] = beat[w]] /\ sync' = [sync EXCEPT ![w] = sync[w]]
    BY DEF Deliver, SystemInv, TypeOK
  <1>4. x \in WorkerState /\ RunOK(x, beat[w], sync[w]) /\ RunDecided(x, outcome') /\ RunQueued(x, arq')
    <2>1. worker[w].pc = "idle" /\ arq[j][g].state = "queued"
      BY DEF Deliver
    <2>2. arq'[j][g].state # "absent"
      BY <2>1 DEF QueueMoves
    <2> QED
      BY <1>1, <2>1, <2>2, Slot DEF RunOK, RunDecided, RunQueued
  <1> QED
    BY <1>3, <1>4, Slot, SlotGoes

\* A run reads the state, and goes on to the lease or leaves.
LEMMA ReadSlot ==
    ASSUME SystemInv, QueueMoves, NEW w \in Workers, ReadState(w)
    PROVE  SlotMoves(w)
  <1> DEFINE j == worker[w].job
  <1>1. CASE Leave(w, FALSE)
    BY <1>1, Leaves DEF ReadState
  <1>2. CASE ~Fenced(j, worker[w].gen) /\ ~Terminal(j) /\ ~Leave(w, FALSE)
    <2> DEFINE x == [worker[w] EXCEPT !.pc = "lease", !.attempt = job[j].attempt, !.seen = job[j].status]
    <2>1. /\ worker' = [worker EXCEPT ![w] = x] /\ beat' = [beat EXCEPT ![w] = beat[w]]
          /\ sync' = [sync EXCEPT ![w] = sync[w]]
      BY <1>2 DEF ReadState, SystemInv, TypeOK
    <2>2. j \in Jobs /\ worker[w].pc = "read"
      BY Slot DEF RunOK, ReadState
    <2>3. job[j].attempt \in 0..MaxAttempt /\ job[j].status \in Statuses
      BY <1>2, <2>2 DEF SystemInv, TypeOK, StoreTypeOK, JobState, Fenced, Present, Statuses
    <2> HIDE DEF j
    <2>4. /\ x \in WorkerState /\ x.pc = "lease" /\ x.job = worker[w].job /\ x.gen = worker[w].gen
      BY Slot, <2>3 DEF WorkerState
    <2>5. RunOK(x, beat[w], sync[w]) /\ RunDecided(x, outcome') /\ RunQueued(x, arq')
      BY Slot, <2>2, <2>4, StillQueued DEF RunOK, RunDecided, RunQueued
    <2> HIDE DEF x
    <2> QED
      BY <2>1, <2>4, <2>5, Slot, SlotGoes
  <1> QED
    BY <1>1, <1>2 DEF ReadState

\* A slot whose run is over is free.
LEMMA OverSlot ==
    ASSUME SystemInv, QueueMoves, NEW w \in Workers, worker' = [worker EXCEPT ![w] = IdleWorker],
           NEW b \in BeatStates, beat' = [beat EXCEPT ![w] = b], b = "off",
           NEW s \in {NoSync, sync[w]}, sync' = [sync EXCEPT ![w] = s], s.step = "none"
    PROVE  SlotMoves(w)
  <1>1. IdleWorker \in WorkerState /\ IdleWorker.pc = "idle"
    BY IdleValues DEF IdleWorker
  <1>2. RunOK(IdleWorker, b, s) /\ RunDecided(IdleWorker, outcome') /\ RunQueued(IdleWorker, arq')
    BY <1>1, StillQueued DEF RunOK, RunDecided, RunQueued
  <1> QED
    BY <1>1, <1>2, SlotGoes

\* Every step of a worker leaves its slot in a state in which it may be.
LEMMA WorkSlot ==
    ASSUME SystemInv, QueueMoves, NEW w \in Workers, Work(w)
    PROVE  SlotMoves(w)
  <1> DEFINE j == worker[w].job
  <1> DEFINE g == worker[w].gen
  <1>0. beat' = beat => beat' = [beat EXCEPT ![w] = beat[w]]
    BY DEF SystemInv, TypeOK
  <1>1. CASE \E i \in Jobs, n \in Gens : Deliver(w, i, n)
    BY <1>1, DeliverSlot
  <1>2. CASE ReadState(w)
    BY <1>2, ReadSlot
  <1>3. CASE TakeLease(w)
    BY <1>3, GoesOn, Leaves DEF TakeLease, BeatStates
  <1>4. CASE LedgerUnavailable(w)
    BY <1>4, Leaves DEF LedgerUnavailable
  <1>5. CASE BeginRun(w)
    <2>1. CASE Fail(w, "final") /\ UNCHANGED sync
      BY <1>5, <2>1, Fails DEF BeginRun
    <2>2. CASE Leave(w, FALSE) /\ UNCHANGED sync
      BY <1>5, <2>2, Leaves DEF BeginRun
    <2>3. CASE ~(Fail(w, "final") /\ UNCHANGED sync) /\ ~(Leave(w, FALSE) /\ UNCHANGED sync)
      <3> DEFINE a == worker[w].attempt + 1
                 x == [worker[w] EXCEPT !.pc = "sync", !.then = "exec", !.seen = "running", !.attempt = a]
      <3>1. worker' = [worker EXCEPT ![w] = x] /\ sync' = [sync EXCEPT ![w] = Calling(worker[w].job)] /\ a <= MaxAttempt
        BY <1>5, <2>3 DEF BeginRun, SystemInv, TypeOK
      <3>2. a \in 0..MaxAttempt
        BY <3>1, Slot, Bounds DEF WorkerState
      <3> HIDE DEF a
      <3>3. x \in WorkerState /\ x.pc = "sync" /\ x.then # "none" /\ x.job = worker[w].job /\ x.gen = worker[w].gen
        BY Slot, <3>2 DEF WorkerState, Statuses
      <3> HIDE DEF x
      <3> QED
        BY <1>5, <3>1, <3>3, Waits DEF BeginRun
    <2> QED
      BY <2>1, <2>2, <2>3
  <1>6. CASE ReportStage(w)
    BY <1>6, Leaves, Notifies DEF ReportStage
  <1>7. CASE Persist(w)
    <2>1. CASE worker' = [worker EXCEPT ![w].pc = "complete"] /\ AcceptsResult(j, g) /\ outcome' = Accepted(j, g)
      <3>1. j \in Jobs /\ worker[w].pc = "staged" /\ UNCHANGED <<sync, beat>>
        BY <1>7, Slot DEF Persist, RunOK
      <3>2. outcome'[j].status = "succeeded"
        <4>1. outcome \in [Jobs -> Outcomes] /\ outcome[j] \in Outcomes
          BY <3>1 DEF SystemInv, TypeOK
        <4> QED
          BY <2>1, <3>1, <4>1 DEF AcceptsResult, Accepted
      <3> QED
        BY <2>1, <3>1, <3>2, <1>0, Slot, GoesOn
    <2>2. CASE \E e \in {"retryable", "final"} : Fail(w, e)
      BY <1>7, <2>2, Fails DEF Persist
    <2>3. CASE Leave(w, FALSE)
      BY <1>7, <2>3, Leaves DEF Persist
    <2> QED
      BY <1>7, <2>1, <2>2, <2>3 DEF Persist
  <1>8. CASE ExecutorFails(w)
    BY <1>8, Fails DEF ExecutorFails
  <1>9. CASE Complete(w)
    BY <1>9, Leaves, NotifiesAndLeaves DEF Complete
  <1>10. CASE FinishRetry(w)
    BY <1>10, Leaves, NotifiesAndLeaves DEF FinishRetry
  <1>11. CASE WorkerUndecided(w)
    BY <1>11, Leaves DEF WorkerUndecided
  <1>12. CASE WorkerDecide(w)
    <2>1. worker[w].pc = "fail" /\ worker[w].err # "none" /\ j \in Jobs /\ UNCHANGED <<sync, beat>>
      BY <1>12, Slot DEF WorkerDecide, RunOK
    <2>2. CASE worker' = [worker EXCEPT ![w].pc = "restore"] /\ outcome' = outcome /\ outcome[j].status = "succeeded"
      BY <2>1, <2>2, <1>0, Slot, GoesOn
    <2>3. CASE worker' = [worker EXCEPT ![w].pc = "end"] /\ outcome' = Failed(j) /\ DecidesFailure(j, g)
      <3>1. outcome \in [Jobs -> Outcomes] /\ outcome[j] \in Outcomes
        BY <2>1 DEF SystemInv, TypeOK
      <3>2. outcome'[j].status = "failed"
        BY <2>1, <2>3, <3>1 DEF Failed, DecidesFailure, Outcomes
      <3> QED
        BY <2>1, <2>3, <3>2, <1>0, Slot, GoesOn
    <2>4. CASE Leave(w, TRUE)
      BY <2>1, <2>4, Leaves
    <2> QED
      BY <1>12, <2>2, <2>3, <2>4 DEF WorkerDecide
  <1>13. CASE WorkerRestore(w)
    <2>1. CASE worker' = [worker EXCEPT ![w].seen = "running"] /\ UNCHANGED sync
      <3> DEFINE x == [worker[w] EXCEPT !.seen = "running"]
      <3>1. /\ worker' = [worker EXCEPT ![w] = x] /\ beat' = [beat EXCEPT ![w] = beat[w]]
            /\ sync' = [sync EXCEPT ![w] = sync[w]] /\ UNCHANGED outcome
        BY <1>13, <2>1 DEF WorkerRestore, SystemInv, TypeOK
      <3>2. /\ x \in WorkerState /\ x.pc = worker[w].pc /\ x.job = worker[w].job /\ x.gen = worker[w].gen
            /\ x.then = worker[w].then /\ x.err = worker[w].err
        BY Slot DEF WorkerState, Statuses
      <3>3. RunOK(x, beat[w], sync[w]) /\ RunDecided(x, outcome') /\ RunQueued(x, arq')
        BY <3>1, <3>2, Slot, StillQueued DEF RunOK, RunDecided, RunQueued
      <3> HIDE DEF x
      <3> QED
        BY <3>1, <3>2, <3>3, Slot, SlotGoes
    <2>2. CASE Leave(w, FALSE) /\ UNCHANGED sync
      BY <1>13, <2>2, Leaves DEF WorkerRestore
    <2>3. CASE NotifyAndLeave(w, FALSE)
      BY <1>13, <2>3, NotifiesAndLeaves DEF WorkerRestore
    <2> QED
      BY <1>13, <2>1, <2>2, <2>3 DEF WorkerRestore
  <1>14. CASE FinishFailed(w)
    BY <1>14, Leaves, NotifiesAndLeaves DEF FinishFailed
  <1>15. CASE Release(w)
    <2> DEFINE x == [worker[w] EXCEPT !.pc = "ack"]
    <2>1. /\ worker' = [worker EXCEPT ![w] = x] /\ sync' = [sync EXCEPT ![w] = sync[w]]
          /\ beat' = [beat EXCEPT ![w] = "off"] /\ worker[w].pc = "exit"
      BY <1>15 DEF Release, SystemInv, TypeOK
    <2>2. x \in WorkerState /\ x.pc = "ack" /\ x.job = worker[w].job /\ x.gen = worker[w].gen
      BY Slot DEF WorkerState
    <2>3. RunOK(x, "off", sync[w]) /\ RunDecided(x, outcome') /\ RunQueued(x, arq') /\ "off" \in BeatStates
      BY <2>1, <2>2, Slot, StillQueued DEF RunOK, RunDecided, RunQueued, BeatStates
    <2> HIDE DEF x
    <2> QED
      BY <2>1, <2>2, <2>3, Slot, SlotGoes
  <1>16. CASE Ack(w)
    <2>1. /\ worker' = [worker EXCEPT ![w] = IdleWorker] /\ sync' = [sync EXCEPT ![w] = sync[w]]
          /\ worker[w].pc = "ack" /\ beat' = [beat EXCEPT ![w] = beat[w]]
      BY <1>16 DEF Ack, SystemInv, TypeOK
    <2>2. beat[w] = "off" /\ sync[w].step = "none"
      BY <2>1, Slot DEF RunOK
    <2> QED
      BY <2>1, <2>2, Slot, OverSlot
  <1>17. CASE Cancelled(w)
    <2> PICK retry \in BOOLEAN : Leave(w, retry)
      BY <1>17 DEF Cancelled
    <2>1. worker' = [worker EXCEPT ![w] = Leaving(w, retry)] /\ beat' = [beat EXCEPT ![w] = beat[w]] /\ sync' = [sync EXCEPT ![w] = NoSync]
      BY <1>17 DEF Leave, Cancelled, SystemInv, TypeOK
    <2>2. worker[w].pc # "idle"
      BY <1>17 DEF Cancelled
    <2>3. RunOK(Leaving(w, retry), beat[w], NoSync) /\ RunDecided(Leaving(w, retry), outcome') /\ RunQueued(Leaving(w, retry), arq')
      BY <2>2, Slot, LeavingOK, StillQueued DEF RunOK, RunDecided, RunQueued, NoSync
    <2> QED
      BY <2>1, <2>3, Slot, LeavingOK, SlotGoes
  <1>18. CASE WorkerCrash(w)
    BY <1>18, OverSlot DEF WorkerCrash, BeatStates, NoSync
  <1>19. CASE BeatRefresh(w) \/ BeatWrite(w)
    <2>1. PICK b \in BeatStates, lost \in BOOLEAN :
             /\ beat' = [beat EXCEPT ![w] = b]
             /\ worker' = [worker EXCEPT ![w].lost = lost]
             /\ beat[w] # "off" /\ UNCHANGED <<sync, outcome>>
      <3>1. CASE BeatRefresh(w)
        <4>1. job[j].status \in {"queued", "running"} \/ ~(Present(j) /\ ~Terminal(j))
          BY <3>1, Slot DEF BeatRefresh, SystemInv, TypeOK, StoreTypeOK, JobState, Statuses, Present, Terminal, RunOK
        <4>2. worker' = worker => worker' = [worker EXCEPT ![w].lost = worker[w].lost]
          BY Slot DEF SystemInv, TypeOK, WorkerState
        <4>3. worker[w].lost \in BOOLEAN
          BY Slot DEF WorkerState
        <4> QED
          BY <3>1, <4>1, <4>2, <4>3 DEF BeatRefresh, BeatStates
      <3>2. CASE BeatWrite(w)
        <4>2. worker' = worker => worker' = [worker EXCEPT ![w].lost = worker[w].lost]
          BY Slot DEF SystemInv, TypeOK, WorkerState
        <4>3. worker[w].lost \in BOOLEAN
          BY Slot DEF WorkerState
        <4> QED
          BY <3>2, <4>2, <4>3 DEF BeatWrite, BeatStates
      <3> QED
        BY <1>19, <3>1, <3>2
    <2> DEFINE x == [worker[w] EXCEPT !.lost = lost]
    <2>2. worker' = [worker EXCEPT ![w] = x] /\ sync' = [sync EXCEPT ![w] = sync[w]]
      BY <2>1 DEF SystemInv, TypeOK
    <2>3. /\ x \in WorkerState /\ x.pc = worker[w].pc /\ x.job = worker[w].job /\ x.gen = worker[w].gen
          /\ x.then = worker[w].then /\ x.err = worker[w].err
      BY Slot DEF WorkerState
    <2>4. RunOK(x, b, sync[w]) /\ RunDecided(x, outcome') /\ RunQueued(x, arq')
      BY <2>1, <2>3, Slot, StillQueued DEF RunOK, RunDecided, RunQueued
    <2> HIDE DEF x
    <2> QED
      BY <2>1, <2>2, <2>3, <2>4, Slot, SlotGoes
  <1> QED
    BY <1>1, <1>2, <1>3, <1>4, <1>5, <1>6, <1>7, <1>8, <1>9, <1>10, <1>11, <1>12, <1>13, <1>14,
       <1>15, <1>16, <1>17, <1>18, <1>19 DEF Work

-----------------------------------------------------------------------------
(* What a step of a worker does to the store, to SQL and to the queue.       *)

\* The lease operations.
LEMMA LeaseMoves ==
    ASSUME NEW j \in Jobs, NEW g \in Gens, NEW t \in Tokens,
           AcquireLease(j, g, t) \/ RefreshLease(j, g, t) \/ ReleaseLease(j, g, t)
    PROVE  StoreMoves
  <1>1. StoreNext /\ UNCHANGED job
    BY DEF StoreNext, StoreOperation, AcquireLease, RefreshLease, ReleaseLease
  <1> QED
    BY <1>1, QuietSnapshots

\* A worker's step is an operation of the store, or none.
LEMMA WorkStore ==
    ASSUME SystemInv, NEW w \in Workers, Work(w)
    PROVE  StoreMoves
  <1> DEFINE j == worker[w].job
  <1> DEFINE g == worker[w].gen
  <1>1. CASE UNCHANGED storeVars
    BY <1>1, QuietStore
  <1>2. CASE TakeLease(w) \/ Release(w) \/ BeatRefresh(w)
    <2>1. worker[w].pc # "idle"
      BY <1>2, Slot DEF TakeLease, Release, BeatRefresh, RunOK
    <2> QED
      BY <1>1, <1>2, <2>1, RunFields, LeaseMoves DEF TakeLease, Release, BeatRefresh
  <1>3. CASE BeginRun(w) \/ ReportStage(w)
    <2>1. worker[w].pc # "idle"
      BY <1>3 DEF BeginRun, ReportStage
    <2>2. /\ "running" \in Statuses /\ "none" \in Errors /\ 0 \in 0..MaxGen
          /\ worker[w].attempt + 1 <= MaxAttempt => worker[w].attempt + 1 \in 0..MaxAttempt
      BY <2>1, Bounds, RunFields DEF Statuses, Errors
    <2>3. CASE BeginRun(w)
      BY <1>1, <2>1, <2>2, <2>3, RunFields, TransitionMoves DEF BeginRun
    <2>4. CASE ReportStage(w)
      BY <1>1, <2>1, <2>2, <2>4, RunFields, TransitionMoves DEF ReportStage
    <2> QED
      BY <1>3, <2>3, <2>4
  <1>4. CASE Complete(w)
    <2>1. worker[w].pc # "idle" /\ outcome[j].status = "succeeded"
      BY <1>4, Slot DEF Complete, RunDecided
    <2>2. "succeeded" \in Statuses /\ "none" \in Errors /\ g \in 0..MaxGen /\ g # 0
      BY <2>1, Bounds, RunFields DEF Statuses, Errors
    <2> QED
      BY <1>1, <1>4, <2>1, <2>2, RunFields, TransitionMoves DEF Complete
  <1>5. CASE FinishRetry(w)
    <2>1. worker[w].pc # "idle"
      BY <1>5 DEF FinishRetry
    <2>2. "queued" \in Statuses /\ "none" \in Errors /\ 0 \in 0..MaxGen
      BY Bounds DEF Statuses, Errors
    <2> QED
      BY <1>1, <1>5, <2>1, <2>2, RunFields, TransitionMoves DEF FinishRetry
  <1>6. CASE WorkerRestore(w)
    <2>1. worker[w].pc # "idle" /\ outcome[j].status = "succeeded"
      BY <1>6, Slot DEF WorkerRestore, RunDecided
    <2>2. outcome[j].gen \in 0..MaxGen /\ outcome[j].gen # 0
      BY <2>1, RunFields DEF SystemInv, OutcomeOK, TypeOK, Outcomes
    <2>3. {"running", "succeeded"} \subseteq Statuses /\ "none" \in Errors /\ 0 \in 0..MaxGen
      BY Bounds DEF Statuses, Errors
    <2> QED
      BY <1>1, <1>6, <2>1, <2>2, <2>3, RunFields, TransitionMoves DEF WorkerRestore
  <1>7. CASE FinishFailed(w)
    <2>1. worker[w].pc # "idle" /\ worker[w].err # "none" /\ MayFail(j)
      BY <1>7, Slot DEF FinishFailed, RunOK, RunDecided, MayFail
    <2>2. "failed" \in Statuses /\ 0 \in 0..MaxGen
      BY Bounds DEF Statuses
    <2> QED
      BY <1>1, <1>7, <2>1, <2>2, RunFields, TransitionMoves DEF FinishFailed
  <1>8. CASE BeatWrite(w)
    <2>1. worker[w].pc # "idle" /\ beat[w] \in {"queued", "running"}
      BY <1>8, Slot DEF BeatWrite, RunOK
    <2>2. {"queued", "running"} \subseteq Statuses /\ "none" \in Errors /\ 0 \in 0..MaxGen
      BY Bounds DEF Statuses, Errors
    <2> QED
      BY <1>1, <1>8, <2>1, <2>2, RunFields, TransitionMoves DEF BeatWrite
  <1> QED
    BY <1>1, <1>2, <1>3, <1>4, <1>5, <1>6, <1>7, <1>8
    DEF Work, Deliver, ReadState, LedgerUnavailable, Persist, ExecutorFails, WorkerUndecided,
        WorkerDecide, Ack, Cancelled, WorkerCrash

\* SQL accepts a report of its generation, or records a failure, of an open job.
LEMMA SameOutcome == ASSUME SystemInv, UNCHANGED outcome PROVE OutcomeMoves
  BY DEF SystemInv, TypeOK, OutcomeOK, OutcomeMoves

\* The result RPC accepts the generation that the row names.
LEMMA AcceptedMoves ==
    ASSUME SystemInv, NEW j \in Jobs, NEW g \in 1..MaxGen, AcceptsResult(j, g), outcome' = Accepted(j, g)
    PROVE  OutcomeMoves
  <1>1. outcome \in [Jobs -> Outcomes] /\ OutcomeOK(j) /\ outcome[j] \in Outcomes
    BY DEF SystemInv, TypeOK
  <1>2. CASE outcome[j].status = "open"
    <2>1. [status |-> "succeeded", gen |-> g] \in Outcomes
      BY Bounds DEF Outcomes
    <2>2. outcome' = [outcome EXCEPT ![j] = [status |-> "succeeded", gen |-> g]] /\ db[j].gen = g /\ g # 0
      BY <1>2 DEF Accepted, AcceptsResult
    <2>3. outcome' \in [Jobs -> Outcomes] /\ outcome'[j] = [status |-> "succeeded", gen |-> g]
          /\ \A i \in Jobs \ {j} : outcome'[i] = outcome[i]
      BY <1>1, <2>1, <2>2
    <2> QED
      BY <1>2, <2>2, <2>3 DEF OutcomeMoves, SystemInv, OutcomeOK
  <1>3. CASE outcome[j].status # "open"
    <2>1. outcome' = outcome
      BY <1>1, <1>3 DEF Accepted
    <2> QED
      BY <2>1, SameOutcome
  <1> QED
    BY <1>2, <1>3

\* The failure RPC keeps what SQL has decided.
LEMMA FailedMoves ==
    ASSUME SystemInv, NEW j \in Jobs, outcome' = Failed(j)
    PROVE  OutcomeMoves
  <1>1. outcome \in [Jobs -> Outcomes] /\ OutcomeOK(j) /\ outcome[j] \in Outcomes
    BY DEF SystemInv, TypeOK
  <1>2. CASE outcome[j].status = "open"
    <2>1. [status |-> "failed", gen |-> 0] \in Outcomes
      BY Bounds DEF Outcomes
    <2>2. outcome' = [outcome EXCEPT ![j] = [status |-> "failed", gen |-> 0]]
      BY <1>2 DEF Failed
    <2>3. outcome' \in [Jobs -> Outcomes] /\ outcome'[j] = [status |-> "failed", gen |-> 0]
          /\ \A i \in Jobs \ {j} : outcome'[i] = outcome[i]
      BY <1>1, <2>1, <2>2
    <2> QED
      BY <1>2, <2>2, <2>3 DEF OutcomeMoves, SystemInv, OutcomeOK
  <1>3. CASE outcome[j].status # "open"
    <2>1. outcome' = outcome
      BY <1>1, <1>3 DEF Failed
    <2> QED
      BY <2>1, SameOutcome
  <1> QED
    BY <1>2, <1>3

\* A worker changes a result through these two only.
LEMMA WorkOutcome ==
    ASSUME SystemInv, NEW w \in Workers, Work(w)
    PROVE  OutcomeMoves
  <1>1. CASE UNCHANGED outcome
    BY <1>1, SameOutcome
  <1>2. CASE Persist(w)
    <2>1. worker[w].pc # "idle"
      BY <1>2 DEF Persist
    <2> QED
      BY <1>1, <1>2, <2>1, RunFields, AcceptedMoves DEF Persist
  <1>3. CASE WorkerDecide(w)
    <2>1. worker[w].pc # "idle"
      BY <1>3 DEF WorkerDecide
    <2> QED
      BY <1>1, <1>3, <2>1, RunFields, FailedMoves DEF WorkerDecide
  <1> QED
    BY <1>1, <1>2, <1>3
    DEF Work, Deliver, ReadState, TakeLease, LedgerUnavailable, BeginRun, ReportStage, ExecutorFails,
        Complete, FinishRetry, WorkerUndecided, WorkerRestore, FinishFailed, Release, Ack, Cancelled,
        WorkerCrash, BeatRefresh, BeatWrite

-----------------------------------------------------------------------------
(* The invariant holds across a worker's step.                               *)

\* A worker's step, as described above.
LEMMA WorkMoves ==
    ASSUME SystemInv, NEW w \in Workers, Work(w)
    PROVE  WorkerMoves(w)
  <1>1. faults' \in 0..MaxFaults /\ UNCHANGED <<api, rec, db>>
    <2>1. CASE UNCHANGED <<faults, api, rec, db>>
      BY <2>1 DEF SystemInv, TypeOK
    <2>2. CASE Fault /\ UNCHANGED <<api, rec, db>>
      BY <2>2, SystemAssumption DEF Fault, SystemInv, TypeOK
    <2> QED
      BY <2>1, <2>2
      DEF Work, Deliver, ReadState, TakeLease, LedgerUnavailable, BeginRun, ReportStage, Persist,
          ExecutorFails, Complete, FinishRetry, WorkerUndecided, WorkerDecide, WorkerRestore,
          FinishFailed, Release, Ack, Cancelled, WorkerCrash, BeatRefresh, BeatWrite
  <1> QED
    BY <1>1, WorkStore, WorkOutcome, WorkQueue, WorkSlot DEF WorkerMoves

\* What the store and SQL promise to the processes that do not move.
LEMMA SharedKept ==
    ASSUME SystemInv, StoreMoves
    PROVE  StoreTypeOK' /\ \A j \in Jobs : JobOK(j)'
  <1>1. StoreTypeOK'
    BY StoreKeepsTypes DEF StoreMoves, SystemInv, TypeOK
  <1>2. ASSUME NEW j \in Jobs PROVE JobOK(j)'
    <2>1. SnapshotMoves(j) /\ JobOK(j) /\ job[j] \in JobState /\ ApiOK(j)
      BY DEF StoreMoves, SystemInv, TypeOK, StoreTypeOK
    <2>2. CASE job'[j] = job[j] \/ job'[j] = Missing
      BY <2>1, <2>2 DEF JobOK, Present
    <2>3. CASE Registered(j)
      BY <2>1, <2>3 DEF Registered, JobOK, Present, ApiOK
    <2>4. CASE Moved(j)
      <3>1. job[j].gen \in Nat /\ job[j].rev \in Nat /\ job[j].gen # 0
        BY <2>1, <2>4, Bounds DEF JobState, JobOK, Moved, Present, Missing
      <3> QED
        BY <3>1, <2>4 DEF Moved, JobOK, Present
    <2>5. CASE Marked(j)
      BY <2>1, <2>5 DEF Marked, JobOK, Present, JobState, Missing
    <2> QED
      BY <2>1, <2>2, <2>3, <2>4, <2>5 DEF SnapshotMoves
  <1> QED
    BY <1>1, <1>2

\* What SQL has decided stays.
LEMMA DecidedStays ==
    ASSUME OutcomeMoves, NEW j \in Jobs, outcome[j].status # "open"
    PROVE  outcome'[j] = outcome[j]
  BY DEF OutcomeMoves

\* A process that does not move is left where it stands.
LEMMA WorkersKept ==
    ASSUME SystemInv, OutcomeMoves, QueueMoves, NEW w \in Workers,
           worker'[w] = worker[w], beat'[w] = beat[w], sync'[w] = sync[w]
    PROVE  WorkerOK(w)' /\ SyncOK(w)'
  <1>1. RunDecided(worker'[w], outcome')
    BY Slot, DecidedStays DEF RunOK, RunDecided
  <1>2. RunQueued(worker'[w], arq')
    BY StillQueued DEF RunQueued
  <1> QED
    BY <1>1, <1>2, Slot DEF WorkerOK, SyncOK

\* The same of a reconciler.
LEMMA ReconcilersKept ==
    ASSUME SystemInv, OutcomeMoves, NEW r \in Reconcilers, rec'[r] = rec[r], sync'[r] = sync[r]
    PROVE  RecOK(r)' /\ SyncOK(r)'
  <1>1. CycleOK(rec[r], sync[r]) /\ CycleDecided(rec[r], outcome) /\ EventOK(sync[r])
    BY DEF SystemInv, RecOK, SyncOK, Callers
  <1>2. CycleDecided(rec'[r], outcome')
    BY <1>1, DecidedStays DEF CycleOK, CycleDecided
  <1> QED
    BY <1>1, <1>2 DEF RecOK, SyncOK

\* A worker's step keeps the invariant.
LEMMA WorkKeepsInv ==
    ASSUME SystemInv, NEW w \in Workers, Work(w)
    PROVE  SystemInv'
  <1>1. StoreMoves /\ OutcomeMoves /\ QueueMoves /\ SlotMoves(w) /\ faults' \in 0..MaxFaults
        /\ UNCHANGED <<api, rec, db>>
    BY WorkMoves DEF WorkerMoves
  <1>2. TypeOK'
    BY <1>1, SharedKept DEF SystemInv, TypeOK, OutcomeMoves, QueueMoves, SlotMoves
  <1>3. \A j \in Jobs : JobOK(j)' /\ ApiOK(j)' /\ OutcomeOK(j)'
    BY <1>1, SharedKept DEF SystemInv, ApiOK, OutcomeOK, OutcomeMoves
  <1>4. \A v \in Workers : WorkerOK(v)' /\ SyncOK(v)'
    <2>1. \A v \in Workers \ {w} : v \in Callers \ {w}
      BY DEF Callers
    <2> QED
      BY <1>1, <2>1, WorkersKept DEF SlotMoves
  <1>5. \A r \in Reconcilers : RecOK(r)' /\ SyncOK(r)'
    <2>1. \A r \in Reconcilers : r \in Callers \ {w}
      BY SystemAssumption DEF Callers
    <2> QED
      BY <1>1, <2>1, ReconcilersKept DEF SlotMoves
  <1> QED
    BY <1>2, <1>3, <1>4, <1>5 DEF SystemInv, Callers

-----------------------------------------------------------------------------
(* The local state of a reconciler.                                          *)

\* What is known of one reconciler.
LEMMA Cycle ==
    ASSUME SystemInv, NEW r \in Reconcilers
    PROVE  /\ rec[r] \in RecState /\ sync[r] \in SyncState
           /\ CycleOK(rec[r], sync[r]) /\ CycleDecided(rec[r], outcome) /\ SyncOK(r)
           /\ r \in Callers
  BY DEF SystemInv, TypeOK, RecOK, Callers

\* A reconciler that goes to a state in which it may be.
LEMMA CycleGoes ==
    ASSUME SystemInv, NEW r \in Reconcilers, NEW x \in RecState, NEW s,
           rec' = [rec EXCEPT ![r] = x], sync' = [sync EXCEPT ![r] = s],
           s \in {sync[r], NoSync} \/ \E j \in Jobs : s = Calling(j),
           CycleOK(x, s), CycleDecided(x, outcome')
    PROVE  CycleMoves(r)
  <1>1. rec \in [Reconcilers -> RecState] /\ sync \in [Callers -> SyncState]
    BY DEF SystemInv, TypeOK
  <1>2. /\ rec' \in [Reconcilers -> RecState] /\ \A q \in Reconcilers \ {r} : rec'[q] = rec[q]
        /\ rec'[r] = x
    BY <1>1
  <1>3. s \in SyncState /\ EventOK(s) /\ (s = sync[r] \/ s.step \in {"none", "read"})
    <2>1. CASE s = sync[r]
      BY <2>1, Cycle DEF SyncOK
    <2>2. CASE s = NoSync
      BY <2>2, IdleValues DEF NoSync, EventOK
    <2>3. CASE \E j \in Jobs : s = Calling(j)
      BY <2>3, CallingOK
    <2> QED
      BY <2>1, <2>2, <2>3
  <1>4. sync' \in [Callers -> SyncState] /\ sync'[r] = s /\ \A p \in Callers \ {r} : sync'[p] = sync[p]
    BY <1>1, <1>3, Cycle
  <1>5. RecOK(r)' /\ SyncOK(r)'
    BY <1>2, <1>3, <1>4 DEF RecOK, SyncOK
  <1> QED
    BY <1>2, <1>3, <1>4, <1>5 DEF CycleMoves

\* What a cycle remembers between two items.
LEMMA BetweenOK ==
    ASSUME SystemInv, NEW r \in Reconcilers
    PROVE  /\ Between(r) \in RecState /\ Between(r).pc = "next" /\ Between(r).then = "none"
           /\ Between(r).phase = rec[r].phase /\ Between(r).todo = rec[r].todo
  <1> DEFINE y == IdleRec
  <1>1. y \in RecState /\ y.pc = "next" /\ y.then = "none"
    BY IdleValues DEF IdleRec
  <1> HIDE DEF y
  <1>2. ASSUME NEW x \in RecState
        PROVE  LET z == [y EXCEPT !.phase = x.phase, !.todo = x.todo, !.skip = x.skip, !.late = x.late,
                                  !.old = x.old]
               IN  z \in RecState /\ z.pc = "next" /\ z.then = "none" /\ z.phase = x.phase /\ z.todo = x.todo
    BY <1>1 DEF RecState
  <1>3. rec[r] \in RecState
    BY Cycle
  <1> QED
    BY <1>2, <1>3 DEF Between, y

\* The cycle goes on with its next item, or ends.
LEMMA StepsBack ==
    ASSUME SystemInv, NEW r \in Reconcilers, rec[r].pc # "sync", Step(r, "next"), UNCHANGED sync
    PROVE  CycleMoves(r)
  <1>1. rec' = [rec EXCEPT ![r] = Between(r)] /\ sync' = [sync EXCEPT ![r] = sync[r]]
    BY DEF Step, SystemInv, TypeOK
  <1>2. CycleOK(Between(r), sync[r]) /\ CycleDecided(Between(r), outcome')
    BY Cycle, BetweenOK DEF CycleOK, CycleDecided
  <1> QED
    BY <1>1, <1>2, BetweenOK, CycleGoes

\* An exception or a crash ends a cycle.
LEMMA Aborts ==
    ASSUME SystemInv, NEW r \in Reconcilers, Abort(r), NEW s \in {NoSync, sync[r]},
           sync' = [sync EXCEPT ![r] = s], s.step = "none"
    PROVE  CycleMoves(r)
  <1>1. /\ rec' = [rec EXCEPT ![r] = IdleRec] /\ IdleRec \in RecState
        /\ CycleOK(IdleRec, s) /\ CycleDecided(IdleRec, outcome')
    BY IdleValues DEF Abort, IdleRec, CycleOK, CycleDecided
  <1> QED
    BY <1>1, CycleGoes

\* The cycle goes on with the item at hand.
Midway == {"recover", "enqueue", "close", "pending", "discard", "decide", "restore", "fail", "takeover",
           "reread"}

\* A cycle that goes on from a known generation.
LEMMA StepsOn ==
    ASSUME SystemInv, NEW r \in Reconcilers, rec[r].pc \notin {"next", "sync"}, UNCHANGED sync,
           NEW x \in RecState, rec' = [rec EXCEPT ![r] = x],
           x.pc \in Midway, x.job = rec[r].job, x.phase = rec[r].phase, x.todo = rec[r].todo,
           x.then = rec[r].then, x.gen # 0, x.pc \in {"pending", "discard", "decide", "fail"} => x.err # "none",
           x.pc = "discard" => x.other # 0, x.pc = "restore" => outcome'[x.job].status = "succeeded"
    PROVE  CycleMoves(r)
  <1>1. sync' = [sync EXCEPT ![r] = sync[r]]
    BY DEF SystemInv, TypeOK
  <1>2. CycleOK(x, sync[r]) /\ CycleDecided(x, outcome')
    BY Cycle DEF CycleOK, CycleDecided, Midway
  <1> QED
    BY <1>1, <1>2, CycleGoes

\* A cycle that goes on without learning anything, or ends its item.
LEMMA Steps ==
    ASSUME SystemInv, NEW r \in Reconcilers, rec[r].pc \notin {"next", "sync"}, UNCHANGED sync,
           NEW pc \in Midway \cup {"next"}, Step(r, pc), pc # "next" => rec[r].gen # 0,
           pc \in {"pending", "discard", "decide", "fail"} => rec[r].err # "none",
           pc # "discard", pc = "restore" => outcome'[rec[r].job].status = "succeeded"
    PROVE  CycleMoves(r)
  <1>1. CASE pc = "next"
    BY <1>1, StepsBack
  <1>2. CASE pc # "next"
    <2> DEFINE x == [rec[r] EXCEPT !.pc = pc]
    <2>1. rec' = [rec EXCEPT ![r] = x]
      BY <1>2 DEF Step, SystemInv, TypeOK
    <2>2. /\ x \in RecState /\ x.pc = pc /\ x.job = rec[r].job /\ x.phase = rec[r].phase
          /\ x.todo = rec[r].todo /\ x.gen = rec[r].gen /\ x.err = rec[r].err /\ x.then = rec[r].then
      BY <1>2, Cycle DEF RecState, Midway
    <2> HIDE DEF x
    <2> QED
      BY <1>2, <2>1, <2>2, StepsOn
  <1> QED
    BY <1>1, <1>2

\* A cycle that waits for a callback of its item.
LEMMA RecNotifies ==
    ASSUME SystemInv, NEW r \in Reconcilers, rec[r].pc \notin {"next", "sync"},
           NEW pc \in {"none", "enqueue"}, RecNotify(r, pc), pc = "enqueue" => rec[r].gen # 0
    PROVE  CycleMoves(r)
  <1> DEFINE x == [rec[r] EXCEPT !.pc = "sync", !.then = pc]
  <1>1. rec' = [rec EXCEPT ![r] = x] /\ sync' = [sync EXCEPT ![r] = Calling(rec[r].job)]
    BY DEF RecNotify, SystemInv, TypeOK
  <1>2. /\ x \in RecState /\ x.pc = "sync" /\ x.job = rec[r].job /\ x.phase = rec[r].phase
        /\ x.todo = rec[r].todo /\ x.gen = rec[r].gen /\ x.then = pc
    BY Cycle, ZenonT(60) DEF RecState
  <1> HIDE DEF x
  <1>3. rec[r].job \in Jobs
    BY Cycle DEF CycleOK
  <1>4. CycleOK(x, Calling(rec[r].job)) /\ CycleDecided(x, outcome')
    BY <1>2, <1>3, Cycle, CallingOK DEF CycleOK, CycleDecided
  <1> QED
    BY <1>1, <1>2, <1>3, <1>4, CycleGoes

\* A cycle that reads a list, and that takes an item from it.
LEMMA ListRead ==
    ASSUME NEW y \in RecState, NEW t \in SUBSET (Jobs \X (0..MaxGen))
    PROVE  /\ LET x == [y EXCEPT !.phase = "callbacks", !.todo = t, !.skip = {}]
              IN  /\ x \in RecState /\ x.pc = y.pc /\ x.then = y.then /\ x.phase = "callbacks"
                  /\ x.gen = y.gen
           /\ LET x == [y EXCEPT !.phase = "stale", !.todo = t, !.old = {}]
              IN  /\ x \in RecState /\ x.pc = y.pc /\ x.then = y.then /\ x.phase = "stale"
                  /\ x.gen = y.gen
  <1>1. {} \in SUBSET Jobs
    OBVIOUS
  <1>2. ASSUME NEW e \in SUBSET Jobs
        PROVE  LET x == [y EXCEPT !.phase = "callbacks", !.todo = t, !.skip = e]
               IN  /\ x \in RecState /\ x.pc = y.pc /\ x.then = y.then /\ x.phase = "callbacks"
                   /\ x.gen = y.gen
    BY DEF RecState
  <1>3. ASSUME NEW e \in SUBSET Jobs
        PROVE  LET x == [y EXCEPT !.phase = "stale", !.todo = t, !.old = e]
               IN  /\ x \in RecState /\ x.pc = y.pc /\ x.then = y.then /\ x.phase = "stale"
                   /\ x.gen = y.gen
    BY DEF RecState
  <1> QED
    BY <1>1, <1>2, <1>3
\* A new cycle, and its next list.
LEMMA BeginSlot ==
    ASSUME SystemInv, NEW r \in Reconcilers, BeginCycle(r)
    PROVE  CycleMoves(r)
  <1> DEFINE pending == {j \in Jobs : recovery[j] > 0}
             t == {<<j, recovery[j]>> : j \in pending}
             l == {j \in Jobs : left[j] = 0}
             o == {j \in Jobs : active[j] >= Stale}
             y == IdleRec
             x == [y EXCEPT !.phase = "recoveries", !.todo = t, !.skip = pending, !.late = l, !.old = o]
  <1>1. /\ rec' = [rec EXCEPT ![r] = x] /\ sync' = [sync EXCEPT ![r] = sync[r]]
        /\ rec[r].phase = "idle"
    BY DEF BeginCycle, SystemInv, TypeOK
  <1>2. recovery \in [Jobs -> 0..MaxGen]
    BY DEF SystemInv, TypeOK, StoreTypeOK
  <1>3. t \in SUBSET (Jobs \X (0..MaxGen)) /\ \A item \in t : item[2] # 0
    BY <1>2
  <1>4. pending \in SUBSET Jobs /\ l \in SUBSET Jobs /\ o \in SUBSET Jobs
    OBVIOUS
  <1>5. y \in RecState /\ y.pc = "next" /\ y.then = "none"
    BY IdleValues DEF IdleRec
  <1> HIDE DEF y, t, l, o, pending
  <1>6. /\ x \in RecState /\ x.pc = "next" /\ x.then = "none" /\ x.phase = "recoveries"
        /\ x.todo = t
    BY <1>3, <1>4, <1>5 DEF RecState
  <1> HIDE DEF x
  <1>7. CycleOK(x, sync[r]) /\ CycleDecided(x, outcome')
    BY <1>1, <1>3, <1>6, Cycle DEF CycleOK, CycleDecided
  <1> QED
    BY <1>1, <1>6, <1>7, CycleGoes

\* A cycle goes to its next list.
LEMMA PhaseSlot ==
    ASSUME SystemInv, NEW r \in Reconcilers, NextPhase(r)
    PROVE  CycleMoves(r)
  <1>1. sync' = [sync EXCEPT ![r] = sync[r]] /\ rec[r].pc = "next" /\ sync[r].step = "none"
    BY Cycle DEF NextPhase, SystemInv, TypeOK, CycleOK
  <1>2. CASE rec[r].phase = "recoveries"
    <2> DEFINE t == {<<j, 0>> : j \in {i \in Jobs \ rec[r].skip : syncPending[i] > 0}}
               y == rec[r]
               x == [y EXCEPT !.phase = "callbacks", !.todo = t, !.skip = {}]
    <2>1. rec' = [rec EXCEPT ![r] = x]
      BY <1>2 DEF NextPhase, SystemInv, TypeOK
    <2>2. t \in SUBSET (Jobs \X (0..MaxGen))
      BY Bounds
    <2>5. y \in RecState
      BY Cycle
    <2> HIDE DEF t, y
    <2>6. /\ x \in RecState /\ x.pc = y.pc /\ x.then = y.then /\ x.phase = "callbacks"
          /\ x.gen = y.gen
      BY <2>2, <2>5, ListRead, ZenonT(60)
    <2>3. /\ x \in RecState /\ x.pc = rec[r].pc /\ x.then = rec[r].then /\ x.phase = "callbacks"
          /\ x.gen = rec[r].gen
      BY <2>6 DEF y
    <2> HIDE DEF x
    <2>4. CycleOK(x, sync[r]) /\ CycleDecided(x, outcome')
      BY <1>1, <2>3, Cycle DEF CycleOK, CycleDecided
    <2> QED
      BY <1>1, <2>1, <2>3, <2>4, CycleGoes
  <1>3. CASE rec[r].phase = "callbacks"
    <2> DEFINE t == {<<j, 0>> : j \in {i \in rec[r].old : active[i] >= Stale}}
               y == rec[r]
               x == [y EXCEPT !.phase = "stale", !.todo = t, !.old = {}]
    <2>1. rec' = [rec EXCEPT ![r] = x]
      BY <1>3 DEF NextPhase, SystemInv, TypeOK
    <2>2. t \in SUBSET (Jobs \X (0..MaxGen))
      <3>1. rec[r].old \in SUBSET Jobs
        BY Cycle DEF RecState
      <3> QED
        BY <3>1, Bounds
    <2>5. y \in RecState
      BY Cycle
    <2> HIDE DEF t, y
    <2>6. /\ x \in RecState /\ x.pc = y.pc /\ x.then = y.then /\ x.phase = "stale"
          /\ x.gen = y.gen
      BY <2>2, <2>5, ListRead, ZenonT(60)
    <2>3. /\ x \in RecState /\ x.pc = rec[r].pc /\ x.then = rec[r].then /\ x.phase = "stale"
          /\ x.gen = rec[r].gen
      BY <2>6 DEF y
    <2> HIDE DEF x
    <2>4. CycleOK(x, sync[r]) /\ CycleDecided(x, outcome')
      BY <1>1, <2>3, Cycle DEF CycleOK, CycleDecided
    <2> QED
      BY <1>1, <2>1, <2>3, <2>4, CycleGoes
  <1> QED
    BY <1>1, <1>2, <1>3, Aborts DEF NextPhase

\* A cycle takes an item of its list.
LEMMA ItemSlot ==
    ASSUME SystemInv, NEW r \in Reconcilers, NextItem(r)
    PROVE  CycleMoves(r)
  <1> DEFINE pc == CASE rec[r].phase = "recoveries" -> "recover"
                     [] rec[r].phase = "callbacks"  -> "sync"
                     [] rec[r].phase = "stale"      -> "stale"
  <1> PICK item \in rec[r].todo :
          /\ rec' = [rec EXCEPT ![r].todo = @ \ {item}, ![r].job = item[1], ![r].gen = item[2], ![r].pc = pc]
          /\ sync' = IF rec[r].phase = "callbacks" THEN [sync EXCEPT ![r] = Calling(item[1])] ELSE sync
    BY DEF NextItem
  <1>1. rec[r].pc = "next" /\ sync[r].step = "none"
    BY Cycle DEF NextItem, CycleOK
  <1>2. rec[r].phase \in {"recoveries", "callbacks", "stale"}
    BY Cycle DEF CycleOK, RecState
  <1>3. /\ item[1] \in Jobs /\ item[2] \in 0..MaxGen
        /\ rec[r].phase = "recoveries" => item[2] # 0
    BY Cycle DEF RecState, CycleOK
  <1> DEFINE t == rec[r].todo \ {item}
             j == item[1]
             g == item[2]
             y == rec[r]
             x == [y EXCEPT !.todo = t, !.job = j, !.gen = g, !.pc = pc]
             s == IF rec[r].phase = "callbacks" THEN Calling(j) ELSE sync[r]
  <1>4. rec' = [rec EXCEPT ![r] = x] /\ sync' = [sync EXCEPT ![r] = s]
    <2>1. rec \in [Reconcilers -> RecState] /\ sync \in [Callers -> SyncState]
      BY DEF SystemInv, TypeOK
    <2> HIDE DEF pc
    <2>2. rec' = [rec EXCEPT ![r] = x]
      BY <2>1
    <2>3. CASE rec[r].phase = "callbacks"
      BY <2>1, <2>2, <2>3
    <2>4. CASE rec[r].phase # "callbacks"
      BY <2>1, <2>2, <2>4
    <2> QED
      BY <2>3, <2>4
  <1>5. /\ rec[r].phase = "recoveries" => pc = "recover"
        /\ rec[r].phase = "callbacks" => pc = "sync"
        /\ rec[r].phase = "stale" => pc = "stale"
    OBVIOUS
  <1>6. t \in SUBSET (Jobs \X (0..MaxGen)) /\ t \subseteq rec[r].todo
    BY Cycle DEF RecState
  <1>7. j \in Jobs /\ g \in 0..MaxGen
    BY <1>3
  <1>8. rec[r].phase = "recoveries" => g # 0
    BY <1>3
  <1>12. y \in RecState /\ pc \in {"recover", "sync", "stale"}
    BY <1>2, <1>5, Cycle
  <1> HIDE DEF pc, t, j, g, y
  <1>9. /\ x \in RecState /\ x.pc = pc /\ x.then = rec[r].then /\ x.phase = rec[r].phase
        /\ x.job = j /\ x.gen = g /\ x.todo = t
    <2>1. /\ x \in RecState /\ x.pc = pc /\ x.then = y.then /\ x.phase = y.phase
          /\ x.job = j /\ x.gen = g /\ x.todo = t
      BY <1>6, <1>7, <1>12, ZenonT(60) DEF RecState
    <2> QED
      BY <2>1 DEF y
  <1> HIDE DEF x
  <1>10. \/ x.phase = "recoveries" /\ x.pc = "recover" /\ x.gen # 0 /\ s = sync[r]
         \/ x.phase = "callbacks" /\ x.pc = "sync" /\ s = Calling(j)
         \/ x.phase = "stale" /\ x.pc = "stale" /\ s = sync[r]
    BY <1>2, <1>5, <1>8, <1>9
  <1>11. CycleOK(x, s) /\ CycleDecided(x, outcome')
    BY <1>1, <1>6, <1>7, <1>9, <1>10, Cycle, CallingOK DEF CycleOK, CycleDecided
  <1> QED
    BY <1>4, <1>7, <1>9, <1>10, <1>11, CycleGoes

\* Every step of a reconciler leaves it in a state in which it may be.
LEMMA RecSlot ==
    ASSUME SystemInv, NEW r \in Reconcilers, Reconcile(r) \/ RecCrash(r)
    PROVE  CycleMoves(r)
  <1> DEFINE j == rec[r].job
  <1> DEFINE g == rec[r].gen
  <1>0. /\ rec[r].pc # "next" => j \in Jobs
        /\ rec[r].pc \notin {"next", "sync", "stale"} => g # 0
        /\ rec[r].pc \in {"pending", "discard", "decide", "fail"} => rec[r].err # "none"
        /\ rec[r].then \in {"none", "enqueue"}
    BY Cycle DEF CycleOK, RecState
  <1>D. \A i, finish : Decision(i, finish) \in {"decide", "fail", "takeover"} /\ Decision(i, finish) \in Midway
    BY DEF Decision, Midway
  <1>M. {"enqueue", "close", "restore", "fail", "takeover", "reread"} \subseteq Midway
    BY DEF Midway
  <1>1. CASE BeginCycle(r) \/ NextPhase(r) \/ NextItem(r)
    BY <1>1, BeginSlot, PhaseSlot, ItemSlot
  <1>2. CASE Recover(r)
    <2>1. rec[r].pc = "recover"
      BY <1>2 DEF Recover
    <2>2. CASE Step(r, "next") /\ UNCHANGED sync
      BY <2>1, <2>2, StepsBack
    <2>3. CASE Step(r, "enqueue") /\ UNCHANGED sync
      BY <1>0, <1>M, <2>1, <2>3, Steps
    <2>4. CASE RecNotify(r, "enqueue")
      BY <1>0, <2>1, <2>4, RecNotifies
    <2>5. CASE /\ rec' = [rec EXCEPT ![r].pc = Decision(j, TRUE), ![r].seen = job[j].status,
                                     ![r].err = "final", ![r].finish = TRUE]
               /\ UNCHANGED sync /\ ~Fenced(j, g)
      <3>1. job[j].status \in Statuses
        BY <1>0, <2>1, <2>5 DEF SystemInv, TypeOK, StoreTypeOK, JobState, Fenced, Present
      <3> DEFINE d == Decision(j, TRUE)
                 st == job[j].status
                 x == [rec[r] EXCEPT !.pc = d, !.seen = st, !.err = "final", !.finish = TRUE]
      <3>2. rec' = [rec EXCEPT ![r] = x]
        BY <2>5 DEF SystemInv, TypeOK
      <3>3. d \in {"decide", "fail", "takeover"} /\ d \in Midway
        BY <1>D
      <3> HIDE DEF d, st
      <3>4. st \in Statuses
        BY <3>1 DEF st
      <3>5. /\ x \in RecState /\ x.pc = d /\ x.job = j /\ x.gen = g /\ x.phase = rec[r].phase
            /\ x.todo = rec[r].todo /\ x.then = rec[r].then /\ x.err = "final"
        <4>1. rec[r] \in RecState /\ "final" \in Errors
          BY Cycle DEF Errors
        <4> QED
          BY <3>3, <3>4, <4>1 DEF RecState
      <3> HIDE DEF x
      <3> QED
        BY <1>0, <2>1, <2>5, <3>2, <3>3, <3>5, StepsOn
    <2> QED
      BY <1>2, <2>2, <2>3, <2>4, <2>5 DEF Recover
  <1>3. CASE RecEnqueue(r)
    BY <1>0, <1>3, <1>M, StepsBack, Steps DEF RecEnqueue
  <1>4. CASE RecClose(r) \/ RecUndecided(r)
    BY <1>4, StepsBack DEF RecClose, RecUndecided
  <1>5. CASE ReadStale(r)
    <2>1. CASE Step(r, "next")
      BY <1>5, <2>1, StepsBack DEF ReadStale
    <2>2. CASE ~Step(r, "next")
      <3> DEFINE late == j \in rec[r].late
                 n == job[j].gen
                 st == job[j].status
                 e == IF late THEN "final" ELSE "retryable"
                 f == late \/ Exhausted(j)
                 x == [rec[r] EXCEPT !.pc = "pending", !.gen = n, !.seen = st, !.err = e, !.finish = f]
      <3>1. /\ rec' = [rec EXCEPT ![r] = x] /\ Present(j) /\ UNCHANGED sync /\ rec[r].pc = "stale"
        BY <1>5, <2>2 DEF ReadStale, SystemInv, TypeOK
      <3>2. n \in 0..MaxGen /\ n # 0 /\ st \in Statuses
        BY <1>0, <3>1 DEF SystemInv, TypeOK, StoreTypeOK, JobState, JobOK, Missing, Present
      <3>3. e \in Errors /\ e # "none" /\ f \in BOOLEAN
        BY DEF Errors, Exhausted
      <3> HIDE DEF n, st, e, f, late
      <3>4. /\ x \in RecState /\ x.pc = "pending" /\ x.job = j /\ x.gen = n /\ x.phase = rec[r].phase
            /\ x.todo = rec[r].todo /\ x.then = rec[r].then /\ x.err = e
        <4>1. rec[r] \in RecState
          BY Cycle
        <4> QED
          BY <3>2, <3>3, <4>1, ZenonT(60) DEF RecState
      <3> HIDE DEF x
      <3> QED
        BY <3>1, <3>2, <3>3, <3>4, StepsOn DEF Midway
    <2> QED
      BY <2>1, <2>2
  <1>6. CASE ReadPending(r)
    <2>1. rec[r].pc = "pending" /\ UNCHANGED sync
      BY <1>6 DEF ReadPending
    <2>2. CASE Step(r, "next")
      BY <2>1, <2>2, StepsBack
    <2>3. CASE Step(r, Decision(j, rec[r].finish))
      BY <1>0, <1>D, <2>1, <2>3, Steps
    <2>4. CASE recovery[j] # 0 /\ rec' = [rec EXCEPT ![r].pc = "discard", ![r].other = recovery[j]]
      <3> DEFINE n == recovery[j]
                 x == [rec[r] EXCEPT !.pc = "discard", !.other = n]
      <3>1. rec' = [rec EXCEPT ![r] = x] /\ n # 0
        BY <2>4 DEF SystemInv, TypeOK
      <3>2. n \in 0..MaxGen
        BY <1>0, <2>1 DEF SystemInv, TypeOK, StoreTypeOK
      <3> HIDE DEF n
      <3>3. /\ x \in RecState /\ x.pc = "discard" /\ x.job = j /\ x.gen = g /\ x.phase = rec[r].phase
            /\ x.todo = rec[r].todo /\ x.then = rec[r].then /\ x.err = rec[r].err /\ x.other = n
        BY <3>2, Cycle, ZenonT(60) DEF RecState
      <3> HIDE DEF x
      <3> QED
        BY <1>0, <2>1, <3>1, <3>3, StepsOn DEF Midway
    <2> QED
      BY <1>6, <2>2, <2>3, <2>4 DEF ReadPending
  <1>7. CASE DiscardOther(r)
    <2> DEFINE d == Decision(j, rec[r].finish)
               x == [rec[r] EXCEPT !.pc = d, !.other = 0]
    <2>1. rec' = [rec EXCEPT ![r] = x] /\ rec[r].pc = "discard" /\ UNCHANGED sync
      BY <1>7 DEF DiscardOther, SystemInv, TypeOK
    <2>2. d \in {"decide", "fail", "takeover"} /\ d \in Midway
      BY <1>D
    <2> HIDE DEF d
    <2>3. /\ x \in RecState /\ x.pc = d /\ x.job = j /\ x.gen = g /\ x.phase = rec[r].phase
          /\ x.todo = rec[r].todo /\ x.then = rec[r].then /\ x.err = rec[r].err
      <3>1. rec[r] \in RecState /\ 0 \in 0..MaxGen
        BY Cycle, Bounds
      <3> QED
        BY <2>2, <3>1 DEF RecState
    <2> HIDE DEF x
    <2> QED
      BY <1>0, <2>1, <2>2, <2>3, StepsOn
  <1>8. CASE RecDecide(r)
    <2>1. rec[r].pc = "decide" /\ UNCHANGED sync
      BY <1>8 DEF RecDecide
    <2>2. CASE Step(r, "restore") /\ outcome[j].status = "succeeded" /\ UNCHANGED outcome
      BY <1>0, <1>M, <2>1, <2>2, Steps
    <2>3. CASE Step(r, "fail") \/ Step(r, "takeover") \/ Step(r, "next")
      BY <1>0, <1>M, <2>1, <2>3, Steps, StepsBack
    <2> QED
      BY <1>8, <2>2, <2>3 DEF RecDecide
  <1>9. CASE RecRestore(r)
    <2>1. rec[r].pc = "restore" /\ UNCHANGED outcome
      BY <1>9 DEF RecRestore
    <2>2. CASE rec' = [rec EXCEPT ![r].seen = "running"] /\ UNCHANGED sync
      <3> DEFINE x == [rec[r] EXCEPT !.seen = "running"]
      <3>1. rec' = [rec EXCEPT ![r] = x]
        BY <2>2 DEF SystemInv, TypeOK
      <3>2. /\ x \in RecState /\ x.pc = "restore" /\ x.job = j /\ x.gen = g /\ x.phase = rec[r].phase
            /\ x.todo = rec[r].todo /\ x.then = rec[r].then
        BY <2>1, Cycle DEF RecState, Statuses
      <3>3. outcome'[x.job].status = "succeeded"
        BY <2>1, <3>2, Cycle DEF CycleDecided
      <3> HIDE DEF x
      <3> QED
        BY <1>0, <1>M, <2>1, <2>2, <3>1, <3>2, <3>3, StepsOn
    <2>3. CASE RecNotify(r, "none")
      BY <2>1, <2>3, RecNotifies
    <2>4. CASE Step(r, "next") /\ UNCHANGED sync
      BY <2>1, <2>4, StepsBack
    <2>5. CASE Abort(r) /\ UNCHANGED sync
      <3>1. sync' = [sync EXCEPT ![r] = sync[r]] /\ sync[r].step = "none"
        BY <2>1, <2>5, Cycle DEF CycleOK, SystemInv, TypeOK
      <3> QED
        BY <2>5, <3>1, Aborts
    <2> QED
      BY <1>9, <2>2, <2>3, <2>4, <2>5 DEF RecRestore
  <1>10. CASE RecFail(r) \/ TakeOver(r)
    <2>1. rec[r].pc \in {"fail", "takeover"}
      BY <1>10 DEF RecFail, TakeOver
    <2>2. CASE RecNotify(r, "none")
      BY <2>1, <2>2, RecNotifies
    <2>3. CASE Step(r, "next") /\ UNCHANGED sync
      BY <2>1, <2>3, StepsBack
    <2>4. CASE Step(r, "reread") /\ UNCHANGED sync
      BY <1>0, <1>M, <2>1, <2>4, Steps
    <2>5. CASE Abort(r) /\ UNCHANGED sync
      <3>1. sync' = [sync EXCEPT ![r] = sync[r]] /\ sync[r].step = "none"
        BY <2>1, <2>5, Cycle DEF CycleOK, SystemInv, TypeOK
      <3> QED
        BY <2>5, <3>1, Aborts
    <2> QED
      BY <1>10, <2>2, <2>3, <2>4, <2>5 DEF RecFail, TakeOver
  <1>11. CASE RereadPending(r)
    <2>1. rec[r].pc = "reread" /\ UNCHANGED sync
      BY <1>11 DEF RereadPending
    <2>2. CASE Step(r, "next")
      BY <2>1, <2>2, StepsBack
    <2>3. CASE recovery[j] # 0 /\ rec' = [rec EXCEPT ![r].pc = "recover", ![r].gen = recovery[j]]
      <3> DEFINE n == recovery[j]
                 x == [rec[r] EXCEPT !.pc = "recover", !.gen = n]
      <3>1. rec' = [rec EXCEPT ![r] = x] /\ n # 0
        BY <2>3 DEF SystemInv, TypeOK
      <3>2. n \in 0..MaxGen
        BY <1>0, <2>1 DEF SystemInv, TypeOK, StoreTypeOK
      <3> HIDE DEF n
      <3>3. /\ x \in RecState /\ x.pc = "recover" /\ x.job = j /\ x.gen = n /\ x.phase = rec[r].phase
            /\ x.todo = rec[r].todo /\ x.then = rec[r].then
        BY <3>2, Cycle, ZenonT(60) DEF RecState
      <3> HIDE DEF x
      <3> QED
        BY <2>1, <3>1, <3>3, StepsOn DEF Midway
    <2> QED
      BY <1>11, <2>2, <2>3 DEF RereadPending
  <1>12. CASE RecCrash(r)
    BY <1>12, Aborts DEF RecCrash, NoSync
  <1> QED
    BY <1>1, <1>2, <1>3, <1>4, <1>5, <1>6, <1>7, <1>8, <1>9, <1>10, <1>11, <1>12 DEF Reconcile

-----------------------------------------------------------------------------
(* What a step of a reconciler does to the store, to SQL and to the queue.   *)

\* take_over_stale opens a generation, and the index maintenance leaves the snapshots alone.
LEMMA TakeOverMoves ==
    ASSUME SystemInv, NEW j \in Jobs, NEW g \in Gens, TakeOverStale(j, g)
    PROVE  StoreMoves
  <1>1. StoreNext
    BY DEF StoreNext, StoreOperation
  <1>2. ASSUME NEW i \in Jobs PROVE SnapshotMoves(i)
    <2>1. CASE i # j
      BY <2>1 DEF TakeOverStale, SnapshotMoves, SystemInv, TypeOK, StoreTypeOK
    <2>2. CASE i = j
      <3>1. job'[j] = [job[j] EXCEPT !.status = "queued", !.gen = g + 1, !.rev = job[j].rev + 1]
        BY DEF TakeOverStale, SystemInv, TypeOK, StoreTypeOK
      <3>2. job[j] \in JobState
        BY DEF SystemInv, TypeOK, StoreTypeOK
      <3>3. Present(j) /\ ~Terminal(j) /\ job[j].gen = g
        BY DEF TakeOverStale, MayTakeOver
      <3> QED
        BY <2>2, <3>1, <3>2, <3>3 DEF SnapshotMoves, Moved, JobState, Present
    <2> QED
      BY <2>1, <2>2
  <1> QED
    BY <1>1, <1>2 DEF StoreMoves

\* The index operations leave the snapshots alone.
LEMMA IndexMoves ==
    ASSUME NEW j \in Jobs, NEW g \in Gens,
           \/ DiscardMissingJobIndexes(j) \/ DiscardMissingJobRecovery(j, g)
           \/ DiscardPendingRecovery(j, g) \/ MarkRecoveryEnqueued(j, g)
    PROVE  StoreMoves
  <1>1. StoreNext
    BY DEF StoreNext, StoreOperation
  <1>2. UNCHANGED job
    BY DEF DiscardMissingJobIndexes, DiscardMissingJobRecovery, DiscardPendingRecovery,
           MarkRecoveryEnqueued
  <1> QED
    BY <1>1, <1>2, QuietSnapshots

\* The job and the generation of an item.
LEMMA ItemFields ==
    ASSUME SystemInv, NEW r \in Reconcilers, rec[r].pc # "next"
    PROVE  /\ rec[r].job \in Jobs /\ job[rec[r].job].attempt \in 0..MaxAttempt
           /\ rec[r].pc \notin {"sync", "stale"} => rec[r].gen \in 1..MaxGen /\ rec[r].gen \in Gens
           /\ rec[r].pc = "discard" => rec[r].other \in Gens
           /\ rec[r].err \in Errors
  <1>1. /\ rec[r].job \in Jobs /\ rec[r].gen \in 0..MaxGen /\ rec[r].err \in Errors
        /\ rec[r].other \in 0..MaxGen
        /\ rec[r].pc \notin {"sync", "stale"} => rec[r].gen # 0
        /\ rec[r].pc = "discard" => rec[r].other # 0
    BY Cycle DEF CycleOK, RecState
  <1>2. job[rec[r].job].attempt \in 0..MaxAttempt
    BY <1>1 DEF SystemInv, TypeOK, StoreTypeOK, JobState
  <1> QED
    BY <1>1, <1>2, Bounds DEF Gens

\* A reconciler's step is an operation of the store, or none.
LEMMA RecStore ==
    ASSUME SystemInv, NEW r \in Reconcilers, Reconcile(r) \/ RecCrash(r)
    PROVE  StoreMoves
  <1> DEFINE j == rec[r].job
  <1> DEFINE g == rec[r].gen
  <1>1. CASE UNCHANGED storeVars
    BY <1>1, QuietStore
  <1>2. CASE Recover(r) \/ RecClose(r) \/ DiscardOther(r)
    <2>1. rec[r].pc \in {"recover", "close", "discard"}
      BY <1>2 DEF Recover, RecClose, DiscardOther
    <2> QED
      BY <1>1, <1>2, <2>1, ItemFields, IndexMoves DEF Recover, RecClose, DiscardOther
  <1>3. CASE ReadStale(r)
    <2>1. rec[r].pc = "stale" /\ 1 \in Gens
      BY <1>3, Bounds DEF ReadStale, Gens
    <2> QED
      BY <1>1, <1>3, <2>1, ItemFields, IndexMoves DEF ReadStale
  <1>4. CASE RecRestore(r)
    <2>1. rec[r].pc = "restore" /\ outcome[j].status = "succeeded"
      BY <1>4, Cycle DEF RecRestore, CycleDecided
    <2>2. outcome[j].gen \in 0..MaxGen /\ outcome[j].gen # 0
      BY <2>1, ItemFields DEF SystemInv, OutcomeOK, TypeOK, Outcomes
    <2>3. {"running", "succeeded"} \subseteq Statuses /\ "none" \in Errors /\ 0 \in 0..MaxGen
      BY Bounds DEF Statuses, Errors
    <2> QED
      BY <1>1, <1>4, <2>1, <2>2, <2>3, ItemFields, TransitionMoves DEF RecRestore
  <1>5. CASE RecFail(r)
    <2>1. rec[r].pc = "fail" /\ rec[r].err # "none" /\ MayFail(j)
      BY <1>5, Cycle DEF RecFail, CycleOK, MayFail
    <2>2. "failed" \in Statuses /\ 0 \in 0..MaxGen
      BY Bounds DEF Statuses
    <2> QED
      BY <1>1, <1>5, <2>1, <2>2, ItemFields, TransitionMoves DEF RecFail
  <1>6. CASE TakeOver(r)
    <2>1. rec[r].pc = "takeover"
      BY <1>6 DEF TakeOver
    <2> QED
      BY <1>1, <1>6, <2>1, ItemFields, TakeOverMoves DEF TakeOver
  <1> QED
    BY <1>1, <1>2, <1>3, <1>4, <1>5, <1>6
    DEF Reconcile, BeginCycle, NextPhase, NextItem, RecEnqueue, ReadPending, RecDecide, RecUndecided,
        RereadPending, RecCrash

\* A reconciler changes a result through the failure RPC only.
LEMMA RecOutcome ==
    ASSUME SystemInv, NEW r \in Reconcilers, Reconcile(r) \/ RecCrash(r)
    PROVE  OutcomeMoves
  <1>1. CASE UNCHANGED outcome
    BY <1>1, SameOutcome
  <1>2. CASE RecDecide(r)
    <2>1. rec[r].pc = "decide"
      BY <1>2 DEF RecDecide
    <2> QED
      BY <1>1, <1>2, <2>1, ItemFields, FailedMoves DEF RecDecide
  <1> QED
    BY <1>1, <1>2
    DEF Reconcile, BeginCycle, NextPhase, NextItem, Recover, RecEnqueue, RecClose, ReadStale, ReadPending,
        DiscardOther, RecUndecided, RecRestore, RecFail, TakeOver, RereadPending, RecCrash

\* An enqueue adds what was absent.
LEMMA EnqueuedMoves ==
    ASSUME SystemInv, NEW j \in Jobs, NEW g \in Gens, arq' = Enqueued(j, g), Pushed(j, g)
    PROVE  QueueMoves
  <1>1. arq \in [Jobs -> [Gens -> ArqState]] /\ arq[j] \in [Gens -> ArqState] /\ arq[j][g] \in ArqState
    BY DEF SystemInv, TypeOK
  <1> DEFINE state == IF arq[j][g].state = "absent" THEN "queued" ELSE arq[j][g].state
             x == [arq[j][g] EXCEPT !.state = state]
  <1>2. arq' = [arq EXCEPT ![j][g] = x]
    BY <1>1 DEF Enqueued
  <1>3. x \in ArqState /\ x.state # "absent"
    BY <1>1 DEF ArqState
  <1> HIDE DEF x
  <1> QED
    BY <1>1, <1>2, <1>3 DEF QueueMoves

\* A reconciler queues what it pushes, and nothing else.
LEMMA RecQueue ==
    ASSUME SystemInv, NEW r \in Reconcilers, Reconcile(r) \/ RecCrash(r)
    PROVE  QueueMoves
  <1>1. CASE UNCHANGED arq
    BY <1>1, SameQueue
  <1>2. CASE RecEnqueue(r)
    <2>1. rec[r].pc = "enqueue" /\ rec[r].job \in Jobs /\ rec[r].gen \in Gens
      BY <1>2, ItemFields DEF RecEnqueue
    <2> QED
      BY <1>1, <1>2, <2>1, EnqueuedMoves DEF RecEnqueue, Pushed
  <1> QED
    BY <1>1, <1>2
    DEF Reconcile, BeginCycle, NextPhase, NextItem, Recover, RecClose, ReadStale, ReadPending,
        DiscardOther, RecDecide, RecUndecided, RecRestore, RecFail, TakeOver, RereadPending, RecCrash

\* A reconciler's step, as described above.
LEMMA ReconcileMoves ==
    ASSUME SystemInv, NEW r \in Reconcilers, Reconcile(r) \/ RecCrash(r)
    PROVE  RecMoves(r)
  <1>1. faults' \in 0..MaxFaults /\ UNCHANGED <<api, worker, beat, db>>
    <2>1. CASE UNCHANGED <<faults, api, worker, beat, db>>
      BY <2>1 DEF SystemInv, TypeOK
    <2>2. CASE Fault /\ UNCHANGED <<api, worker, beat, db>>
      BY <2>2, SystemAssumption DEF Fault, SystemInv, TypeOK
    <2> QED
      BY <2>1, <2>2
      DEF Reconcile, BeginCycle, NextPhase, NextItem, Recover, RecEnqueue, RecClose, ReadStale,
          ReadPending, DiscardOther, RecDecide, RecUndecided, RecRestore, RecFail, TakeOver,
          RereadPending, RecCrash
  <1> QED
    BY <1>1, RecStore, RecOutcome, RecQueue, RecSlot DEF RecMoves

\* A reconciler's step keeps the invariant.
LEMMA ReconcileKeepsInv ==
    ASSUME SystemInv, NEW r \in Reconcilers, Reconcile(r) \/ RecCrash(r)
    PROVE  SystemInv'
  <1>1. StoreMoves /\ OutcomeMoves /\ QueueMoves /\ CycleMoves(r) /\ faults' \in 0..MaxFaults
        /\ UNCHANGED <<api, worker, beat, db>>
    BY ReconcileMoves DEF RecMoves
  <1>2. TypeOK'
    BY <1>1, SharedKept DEF SystemInv, TypeOK, OutcomeMoves, QueueMoves, CycleMoves
  <1>3. \A j \in Jobs : JobOK(j)' /\ ApiOK(j)' /\ OutcomeOK(j)'
    BY <1>1, SharedKept DEF SystemInv, ApiOK, OutcomeOK, OutcomeMoves
  <1>4. \A w \in Workers : WorkerOK(w)' /\ SyncOK(w)'
    <2>1. \A w \in Workers : w \in Callers \ {r}
      BY SystemAssumption DEF Callers
    <2> QED
      BY <1>1, <2>1, WorkersKept DEF CycleMoves
  <1>5. \A q \in Reconcilers : RecOK(q)' /\ SyncOK(q)'
    <2>1. \A q \in Reconcilers \ {r} : q \in Callers \ {r}
      BY DEF Callers
    <2> QED
      BY <1>1, <2>1, ReconcilersKept DEF CycleMoves
  <1> QED
    BY <1>2, <1>3, <1>4, <1>5 DEF SystemInv, Callers

-----------------------------------------------------------------------------
(* Callbacks.                                                                *)

ProcessesOK ==
    /\ worker \in [Workers -> WorkerState] /\ rec \in [Reconcilers -> RecState]
    /\ sync \in [Callers -> SyncState]
    /\ \A w \in Workers : WorkerOK(w)
    /\ \A r \in Reconcilers : RecOK(r)
    /\ \A p \in Callers : SyncOK(p)

\* mark_callback_synced, as sync calls it.
LEMMA MarkMoves ==
    ASSUME SystemInv, NEW p \in Callers, sync[p].step = "mark",
           MarkCallbackSynced(sync[p].job, sync[p].rev)
    PROVE  StoreMoves
  <1> DEFINE j == sync[p].job
  <1> DEFINE n == sync[p].rev
  <1>1. j \in Jobs /\ n \in 1..MaxRev
    <2>1. EventOK(sync[p]) /\ sync[p] \in SyncState
      BY DEF SystemInv, SyncOK, TypeOK
    <2> QED
      BY <2>1, Bounds DEF EventOK, SyncState
  <1>2. StoreNext
    BY <1>1 DEF StoreNext, StoreOperation
  <1>3. ASSUME NEW i \in Jobs PROVE SnapshotMoves(i)
    <2>1. CASE i # j
      BY <2>1 DEF MarkCallbackSynced, SnapshotMoves, SystemInv, TypeOK, StoreTypeOK
    <2>2. CASE i = j
      <3>1. job'[j] = [job[j] EXCEPT !.synced = SyncedRevision(j, n)] /\ Present(j)
        BY <1>1 DEF MarkCallbackSynced, SystemInv, TypeOK, StoreTypeOK
      <3> QED
        BY <2>2, <3>1 DEF SnapshotMoves, Marked
    <2> QED
      BY <2>1, <2>2
  <1> QED
    BY <1>2, <1>3 DEF StoreMoves

\* A caller whose callback goes on, or does not move.
LEMMA EventGoes ==
    ASSUME SystemInv, NEW p \in Callers, NEW s \in SyncState, EventOK(s), sync' = [sync EXCEPT ![p] = s],
           sync[p].step # "none", s.job = sync[p].job, UNCHANGED <<worker, rec, beat, outcome, arq>>
    PROVE  ProcessesOK'
  <1>1. /\ sync' \in [Callers -> SyncState] /\ sync'[p] = s
        /\ \A q \in Callers \ {p} : sync'[q] = sync[q]
    BY DEF SystemInv, TypeOK
  <1>2. worker' \in [Workers -> WorkerState] /\ rec' \in [Reconcilers -> RecState]
    BY DEF SystemInv, TypeOK
  <1>3. \A q \in Callers : SyncOK(q)'
    BY <1>1 DEF SystemInv, SyncOK
  <1>4. \A w \in Workers : WorkerOK(w)'
    <2> SUFFICES ASSUME NEW w \in Workers PROVE WorkerOK(w)'
      OBVIOUS
    <2>1. RunOK(worker[w], beat[w], sync'[w])
      BY <1>1, Slot DEF RunOK
    <2> QED
      BY <2>1, Slot DEF WorkerOK
  <1>5. \A r \in Reconcilers : RecOK(r)'
    <2> SUFFICES ASSUME NEW r \in Reconcilers PROVE RecOK(r)'
      OBVIOUS
    <2>1. CycleOK(rec[r], sync'[r])
      BY <1>1, Cycle DEF CycleOK
    <2> QED
      BY <2>1, Cycle DEF RecOK
  <1> QED
    BY <1>1, <1>2, <1>3, <1>4, <1>5 DEF ProcessesOK

\* A call that returns: the run goes on where it wanted to, the cycle pushes its run or
\* turns to its next item.
LEMMA Returns ==
    ASSUME SystemInv, NEW p \in Callers, NEW ok \in BOOLEAN, sync[p].step # "none", Return(p, ok),
           UNCHANGED <<beat, outcome, arq>>
    PROVE  /\ ProcessesOK' /\ sync'[p].step = "none" /\ \A q \in Callers \ {p} : sync'[q] = sync[q]
  <1>1. /\ sync' \in [Callers -> SyncState] /\ sync'[p] = NoSync
        /\ \A q \in Callers \ {p} : sync'[q] = sync[q]
    BY IdleValues DEF Return, SystemInv, TypeOK
  <1>2. sync'[p].step = "none" /\ EventOK(NoSync)
    BY <1>1 DEF NoSync, EventOK
  <1>3. \A q \in Callers : SyncOK(q)'
    BY <1>1, <1>2 DEF SystemInv, SyncOK
  <1>4. ASSUME NEW w \in Workers PROVE worker'[w] \in WorkerState /\ WorkerOK(w)'
    <2>1. CASE w # p
      <3>1. worker'[w] = worker[w] /\ sync'[w] = sync[w]
        BY <1>1, <2>1, Slot DEF Return
      <3> QED
        BY <3>1, Slot DEF WorkerOK
    <2>2. CASE w = p
      <3> DEFINE then == worker[w].then
                 x == [worker[w] EXCEPT !.pc = then, !.then = "none"]
      <3>1. worker'[w] = x
        BY <2>2 DEF Return
      <3>2. worker[w].pc = "sync" /\ then \in {"exec", "staged", "exit"} /\ worker[w] \in WorkerState
        BY <2>2, Slot DEF RunOK, WorkerState
      <3> HIDE DEF then
      <3>3. /\ x \in WorkerState /\ x.pc = then /\ x.job = worker[w].job /\ x.gen = worker[w].gen
        BY <3>2 DEF WorkerState
      <3> HIDE DEF x
      <3>4. RunOK(x, beat[w], sync'[w]) /\ RunDecided(x, outcome) /\ RunQueued(x, arq)
        BY <1>2, <2>2, <3>2, <3>3, Slot DEF RunOK, RunDecided, RunQueued
      <3> QED
        BY <3>1, <3>3, <3>4 DEF WorkerOK
    <2> QED
      BY <2>1, <2>2
  <1>5. ASSUME NEW r \in Reconcilers PROVE rec'[r] \in RecState /\ RecOK(r)'
    <2>1. CASE r # p
      <3>1. rec'[r] = rec[r] /\ sync'[r] = sync[r]
        BY <1>1, <2>1, Cycle DEF Return
      <3> QED
        BY <3>1, Cycle DEF RecOK
    <2>2. CASE r = p /\ ok /\ rec[r].then = "enqueue"
      <3> DEFINE x == [rec[r] EXCEPT !.pc = "enqueue", !.then = "none"]
      <3>1. rec'[r] = x
        BY <2>2 DEF Return
      <3>2. rec[r].pc = "sync" /\ rec[r] \in RecState
        BY <2>2, Cycle DEF CycleOK
      <3>3. /\ x \in RecState /\ x.pc = "enqueue" /\ x.job = rec[r].job /\ x.gen = rec[r].gen
            /\ x.phase = rec[r].phase /\ x.todo = rec[r].todo /\ x.then = "none"
        BY <3>2 DEF RecState
      <3> HIDE DEF x
      <3>4. CycleOK(x, sync'[r]) /\ CycleDecided(x, outcome)
        BY <1>2, <2>2, <3>2, <3>3, Cycle DEF CycleOK, CycleDecided
      <3> QED
        BY <3>1, <3>3, <3>4 DEF RecOK
    <2>3. CASE r = p /\ ~(ok /\ rec[r].then = "enqueue")
      <3>1. rec'[r] = Between(r)
        BY <2>3 DEF Return
      <3>2. rec[r].pc = "sync"
        BY <2>3, Cycle DEF CycleOK
      <3>3. CycleOK(Between(r), sync'[r]) /\ CycleDecided(Between(r), outcome)
        BY <1>2, <2>3, <3>2, BetweenOK, Cycle DEF CycleOK, CycleDecided
      <3> QED
        BY <3>1, <3>3, BetweenOK DEF RecOK
    <2> QED
      BY <2>1, <2>2, <2>3
  <1>6. worker' \in [Workers -> WorkerState]
    BY <1>4 DEF Return
  <1>7. rec' \in [Reconcilers -> RecState]
    BY <1>5 DEF Return
  <1> QED
    BY <1>1, <1>2, <1>3, <1>4, <1>5, <1>6, <1>7 DEF ProcessesOK

\* What the row takes is an event of a snapshot that existed.
LEMMA AppliedOK ==
    ASSUME SystemInv, NEW p \in Callers, sync[p].step = "send"
    PROVE  /\ Applied(sync[p]) \in [Jobs -> RowState]
           /\ \A i \in Jobs : Applied(sync[p])[i] = db[i]
                 \/ /\ i = sync[p].job /\ sync[p].rev > db[i].rev
                    /\ Applied(sync[p])[i] = [rev |-> sync[p].rev, gen |-> sync[p].gen,
                                              attempt |-> sync[p].attempt, status |-> sync[p].status]
  <1> DEFINE s == sync[p]
  <1> DEFINE row == [rev |-> s.rev, gen |-> s.gen, attempt |-> s.attempt, status |-> s.status]
  <1>1. EventOK(s) /\ s \in SyncState /\ db \in [Jobs -> RowState]
    BY DEF SystemInv, SyncOK, TypeOK
  <1>2. row \in RowState /\ s.job \in Jobs
    <2>1. s.gen \in Gens /\ s.status \in Statuses /\ s.job \in Jobs
      BY <1>1, Bounds DEF EventOK, SyncState, Gens
    <2> QED
      BY <1>1, <2>1 DEF SyncState, RowState
  <1>3. Applied(s) = IF s.rev > db[s.job].rev THEN [db EXCEPT ![s.job] = row] ELSE db
    BY DEF Applied
  <1> HIDE DEF row
  <1>4. /\ Applied(s) \in [Jobs -> RowState]
        /\ \A i \in Jobs : Applied(s)[i] = db[i] \/ (i = s.job /\ s.rev > db[i].rev /\ Applied(s)[i] = row)
    BY <1>1, <1>2, <1>3
  <1> QED
    BY <1>4 DEF row

\* Every step of CallbackSynchronizer.sync, as described above.
LEMMA SyncMoves ==
    ASSUME SystemInv, NEW p \in Callers, Sync(p)
    PROVE  CallMoves(p) /\ ProcessesOK'
  <1> DEFINE j == sync[p].job
  <1>0. sync[p].step # "none" /\ j \in Jobs /\ sync[p] \in SyncState /\ SyncOK(p) /\ 1 \in Gens
    <2>1. SyncOK(p) /\ sync[p] \in SyncState /\ 1 \in Gens
      BY Bounds DEF SystemInv, TypeOK, Gens
    <2>2. sync[p].step # "none"
      BY DEF Sync, SyncRead, SyncDelivered, SyncFailed, SyncMark
    <2> QED
      BY <2>1, <2>2 DEF SyncOK, EventOK
  <1>1. faults' \in 0..MaxFaults /\ UNCHANGED <<api, arq, beat, outcome>>
    <2>1. CASE UNCHANGED <<faults, api, arq, beat, outcome>>
      BY <2>1 DEF SystemInv, TypeOK
    <2>2. CASE Fault /\ UNCHANGED <<api, arq, beat, outcome>>
      BY <2>2, SystemAssumption DEF Fault, SystemInv, TypeOK
    <2> QED
      BY <2>1, <2>2 DEF Sync, SyncRead, SyncDelivered, SyncFailed, SyncMark
  <1>2. StoreMoves
    <2>1. CASE UNCHANGED storeVars
      BY <2>1, QuietStore
    <2>2. CASE DiscardMissingJobIndexes(j)
      BY <1>0, <2>2, IndexMoves
    <2>3. CASE sync[p].step = "mark" /\ MarkCallbackSynced(j, sync[p].rev)
      BY <2>3, MarkMoves
    <2> QED
      BY <2>1, <2>2, <2>3 DEF Sync, SyncRead, SyncDelivered, SyncFailed, SyncMark
  <1>3. CASE \E ok \in BOOLEAN : Return(p, ok) /\ (db' = db \/ (sync[p].step = "send" /\ db' = Applied(sync[p])))
    <2>1. ProcessesOK' /\ sync'[p].step = "none" /\ \A q \in Callers \ {p} : sync'[q] = sync[q]
      BY <1>0, <1>1, <1>3, Returns
    <2> QED
      BY <1>1, <1>2, <1>3, <2>1 DEF CallMoves, EventMoves
  <1>4. CASE SyncRead(p) /\ ~\E ok \in BOOLEAN : Return(p, ok)
    <2> DEFINE s == [step |-> "send", job |-> j, rev |-> job[j].rev, gen |-> job[j].gen,
                     attempt |-> job[j].attempt, status |-> job[j].status]
    <2>1. /\ sync' = [sync EXCEPT ![p] = s] /\ Present(j) /\ UNCHANGED <<storeVars, worker, rec, db>>
          /\ sync[p].step = "read"
      BY <1>4 DEF SyncRead
    <2>2. job[j] \in JobState /\ JobOK(j) /\ job[j] # Missing
      BY <1>0, <2>1 DEF SystemInv, TypeOK, StoreTypeOK, Missing, Present
    <2>3. s \in SyncState /\ EventOK(s)
      BY <1>0, <2>1, <2>2 DEF SyncState, EventOK, JobState, JobOK, Present, Statuses
    <2>4. /\ s.job = j /\ s.step = "send" /\ s.rev = job[j].rev /\ s.gen = job[j].gen
          /\ s.status = job[j].status
      OBVIOUS
    <2> HIDE DEF s
    <2>5. ProcessesOK'
      BY <1>0, <1>1, <2>1, <2>3, <2>4, EventGoes
    <2>6. sync'[p] = s /\ \A q \in Callers \ {p} : sync'[q] = sync[q]
      BY <2>1 DEF SystemInv, TypeOK
    <2>7. UNCHANGED job
      BY <2>1 DEF storeVars
    <2>8. EventMoves(p)
      BY <2>1, <2>4, <2>6, <2>7 DEF EventMoves
    <2> QED
      BY <1>1, <1>2, <2>5, <2>8 DEF CallMoves
  <1>5. CASE SyncDelivered(p)
    <2> DEFINE s == [sync[p] EXCEPT !.step = "mark"]
    <2>1. /\ sync' = [sync EXCEPT ![p] = s] /\ UNCHANGED <<storeVars, worker, rec>>
          /\ sync[p].step = "send" /\ db' = Applied(sync[p])
      BY <1>5 DEF SyncDelivered, SystemInv, TypeOK
    <2>2. /\ s \in SyncState /\ s.step = "mark" /\ s.job = j /\ s.rev = sync[p].rev /\ s.gen = sync[p].gen
          /\ s.status = sync[p].status
      BY <1>0 DEF SyncState
    <2>3. EventOK(s)
      BY <1>0, <2>1, <2>2 DEF EventOK, SyncOK
    <2>4. sync'[p] = s /\ \A q \in Callers \ {p} : sync'[q] = sync[q]
      BY <2>1 DEF SystemInv, TypeOK
    <2>5. UNCHANGED job
      BY <2>1 DEF storeVars
    <2>6. EventMoves(p)
      BY <2>1, <2>4, <2>5 DEF EventMoves
    <2> HIDE DEF s
    <2>7. ProcessesOK'
      BY <1>0, <1>1, <2>1, <2>2, <2>3, EventGoes
    <2> QED
      BY <1>1, <1>2, <2>6, <2>7 DEF CallMoves
  <1>6. \/ \E ok \in BOOLEAN : Return(p, ok) /\ (db' = db \/ (sync[p].step = "send" /\ db' = Applied(sync[p])))
        \/ SyncRead(p) /\ ~\E ok \in BOOLEAN : Return(p, ok)
        \/ SyncDelivered(p)
    BY DEF Sync, SyncRead, SyncFailed, SyncMark
  <1> QED
    BY <1>3, <1>4, <1>5, <1>6

\* A callback's step keeps the invariant.
LEMMA SyncKeepsInv ==
    ASSUME SystemInv, NEW p \in Callers, Sync(p)
    PROVE  SystemInv'
  <1>1. /\ StoreMoves /\ EventMoves(p) /\ faults' \in 0..MaxFaults /\ UNCHANGED <<api, arq, beat, outcome>>
        /\ ProcessesOK'
    BY SyncMoves DEF CallMoves
  <1>2. db' \in [Jobs -> RowState]
    BY <1>1, AppliedOK, ZenonT(60) DEF EventMoves, SystemInv, TypeOK
  <1>3. TypeOK'
    BY <1>1, <1>2, SharedKept DEF SystemInv, TypeOK, ProcessesOK
  <1>4. \A j \in Jobs : JobOK(j)' /\ ApiOK(j)' /\ OutcomeOK(j)'
    BY <1>1, SharedKept DEF SystemInv, ApiOK, OutcomeOK
  <1> QED
    BY <1>1, <1>3, <1>4 DEF SystemInv, ProcessesOK

-----------------------------------------------------------------------------
(* Submissions, and the queue's own steps.                                   *)

\* A submission registers what it submits or finds it, remembers what SQL has told it,
\* and queues the generation it has registered.  ARQ's own step leaves it alone.
SubmissionMoves(j) ==
    /\ StoreMoves /\ QueueMoves /\ faults' \in 0..MaxFaults
    /\ UNCHANGED <<worker, beat, rec, sync, db, outcome>>
    /\ api' \in [Jobs -> ApiState]
    /\ \A i \in Jobs \ {j} : api'[i] = api[i]
    /\ api'[j].gen \in {0, 1, api[j].gen, api[j].seen.gen}
    /\ \/ api'[j].seen \in {NoDispatch, api[j].seen}
       \/ api'[j].seen.gen = db[j].gen /\ api'[j].seen.rev # 0

\* What is known of a submission and of the row of its job.
LEMMA Submission ==
    ASSUME SystemInv, NEW j \in Jobs
    PROVE  /\ api[j] \in ApiState /\ api[j].gen \in 0..MaxGen /\ api[j].count \in 0..MaxSubmits
           /\ api[j].seen \in Dispatch
           /\ api[j].seen.gen \in 0..MaxGen /\ api[j].seen.rev \in 0..MaxRev
           /\ api[j].seen.attempt \in 0..MaxAttempt
           /\ api[j].seen # NoDispatch => api[j].seen.gen # 0 /\ api[j].seen.rev # 0
           /\ db[j].gen \in Gens /\ db[j].rev \in 0..MaxRev /\ db[j].attempt \in 0..MaxAttempt
           /\ left[j] \in 0..Timeout
  <1>1. api[j] \in ApiState /\ db[j] \in RowState /\ left[j] \in 0..Timeout /\ ApiOK(j)
    BY DEF SystemInv, TypeOK, StoreTypeOK
  <1>2. api[j].seen \in Dispatch
    BY <1>1 DEF ApiState
  <1> QED
    BY <1>1, <1>2 DEF ApiState, Dispatch, RowState, ApiOK

\* register_job, as the submissions call it.
LEMMA RegisterMoves ==
    ASSUME SystemInv, NEW j \in Jobs, NEW k \in Keys, NEW d \in Digests, NEW g \in Gens, NEW r \in 1..MaxRev,
           NEW a \in 0..MaxAttempt, NEW l \in 0..Timeout, RegisterJob(j, k, d, g, r, a, l),
           g = 1 \/ (api[j].seen # NoDispatch /\ g = api[j].seen.gen)
    PROVE  StoreMoves
  <1>1. StoreNext
    BY DEF StoreNext, StoreOperation
  <1>2. ASSUME NEW i \in Jobs PROVE SnapshotMoves(i)
    <2>1. CASE i # j
      BY <2>1 DEF RegisterJob, SnapshotMoves, SystemInv, TypeOK, StoreTypeOK
    <2>2. CASE i = j
      <3>1. /\ job'[j].status = "queued" /\ job'[j].synced = 0 /\ job'[j].rev = r /\ job'[j].gen = g
            /\ ~Present(j)
        BY RegisterIsFresh DEF RegisterJob, SystemInv, TypeOK, StoreTypeOK
      <3> QED
        BY <2>2, <3>1 DEF SnapshotMoves, Registered
    <2> QED
      BY <2>1, <2>2
  <1> QED
    BY <1>1, <1>2 DEF StoreMoves

\* What a submission leaves behind.
LEMMA ApiGoes ==
    ASSUME SystemInv, NEW j \in Jobs, NEW x \in ApiState, api' = [api EXCEPT ![j] = x]
    PROVE  api' \in [Jobs -> ApiState] /\ api'[j] = x /\ \A i \in Jobs \ {j} : api'[i] = api[i]
  BY DEF SystemInv, TypeOK

\* submit and submit_verified.
LEMMA SubmitMoves ==
    ASSUME SystemInv, NEW j \in Jobs, NEW k \in Keys, NEW d \in Digests, Submit(j, k, d)
    PROVE  SubmissionMoves(j)
  <1>1. /\ UNCHANGED <<arq, worker, beat, rec, sync, db, outcome, faults>>
        /\ api[j].count < MaxSubmits /\ api[j].gen = 0
    BY DEF Submit
  <1>2. QueueMoves /\ faults' \in 0..MaxFaults
    BY <1>1, SameQueue DEF SystemInv, TypeOK
  <1>3. api[j].count + 1 \in 0..MaxSubmits
    BY <1>1, Submission, SystemAssumption
  <1> DEFINE X(g) == [api[j] EXCEPT !.gen = g, !.count = @ + 1]
  <1>4. \A g \in 0..MaxGen : X(g) \in ApiState /\ X(g).gen = g /\ X(g).seen = api[j].seen
    BY <1>3, Submission DEF ApiState
  <1>5. CASE RegisterJob(j, k, d, 1, 1, 0, Timeout) /\ api' = [api EXCEPT ![j].gen = 1, ![j].count = @ + 1]
    <2>2. api' = [api EXCEPT ![j] = X(1)]
      BY <1>5 DEF SystemInv, TypeOK
    <2>3. 1 \in Gens /\ 1 \in 1..MaxRev /\ 0 \in 0..MaxAttempt /\ Timeout \in 0..Timeout
      BY Bounds DEF Gens
    <2>4. StoreMoves
      BY <1>5, <2>3, RegisterMoves
    <2>5. 1 \in 0..MaxGen
      BY Bounds
    <2> HIDE DEF X
    <2>6. X(1) \in ApiState /\ X(1).gen = 1 /\ X(1).seen = api[j].seen
      BY <1>4, <2>5
    <2> QED
      BY <1>1, <1>2, <2>2, <2>4, <2>6, ApiGoes DEF SubmissionMoves
  <1>6. CASE UNCHANGED storeVars /\ api' = [api EXCEPT ![j].count = @ + 1]
    <2>2. api' = [api EXCEPT ![j] = X(0)]
      BY <1>1, <1>6, Submission DEF SystemInv, TypeOK, ApiState
    <2>5. 0 \in 0..MaxGen
      BY Bounds
    <2> HIDE DEF X
    <2>6. X(0) \in ApiState /\ X(0).gen = 0 /\ X(0).seen = api[j].seen
      BY <1>4, <2>5
    <2> QED
      BY <1>1, <1>2, <1>6, <2>2, <2>6, ApiGoes, QuietStore DEF SubmissionMoves
  <1> QED
    BY <1>5, <1>6 DEF Submit

\* The preflight of submit_capability: SQL's generation and revision are remembered.
LEMMA AuthorizeMoves ==
    ASSUME SystemInv, NEW j \in Jobs, AuthorizeDispatch(j)
    PROVE  SubmissionMoves(j)
  <1> DEFINE s == [gen |-> db[j].gen, rev |-> IF db[j].rev = 0 THEN 1 ELSE db[j].rev, attempt |-> db[j].attempt]
             x == [gen |-> 0, count |-> api[j].count + 1, seen |-> s]
  <1>1. /\ UNCHANGED <<storeVars, arq, worker, beat, rec, sync, db, outcome, faults>>
        /\ api[j].count < MaxSubmits
    BY DEF AuthorizeDispatch
  <1>2. api' = [api EXCEPT ![j] = x]
    BY DEF AuthorizeDispatch, SystemInv, TypeOK
  <1>3. api[j].count + 1 \in 0..MaxSubmits
    BY <1>1, Submission, SystemAssumption
  <1>4. s \in Dispatch /\ s.gen = db[j].gen /\ s.rev # 0
    BY Submission, Bounds DEF Dispatch, Gens
  <1>5. x \in ApiState /\ x.gen = 0 /\ x.seen = s
    BY <1>3, <1>4, Bounds DEF ApiState
  <1>6. QueueMoves /\ faults' \in 0..MaxFaults
    BY <1>1, SameQueue DEF SystemInv, TypeOK
  <1> HIDE DEF x, s
  <1> QED
    BY <1>1, <1>2, <1>4, <1>5, <1>6, ApiGoes, QuietStore DEF SubmissionMoves

\* submit_capability itself.
LEMMA CapabilityMoves ==
    ASSUME SystemInv, NEW j \in Jobs, NEW k \in Keys, NEW d \in Digests, SubmitCapability(j, k, d)
    PROVE  SubmissionMoves(j)
  <1> DEFINE seen == api[j].seen
             due  == IF api[j].count = 1 THEN Timeout ELSE left[j]
  <1>1. UNCHANGED <<arq, worker, beat, rec, sync, db, outcome, faults>> /\ seen # NoDispatch
    BY DEF SubmitCapability
  <1>2. QueueMoves /\ faults' \in 0..MaxFaults
    BY <1>1, SameQueue DEF SystemInv, TypeOK
  <1>3. NoDispatch \in Dispatch
    BY Bounds DEF NoDispatch, Dispatch
  <1> DEFINE X(g) == [api[j] EXCEPT !.gen = g, !.seen = NoDispatch]
  <1>4. \A g \in 0..MaxGen : X(g) \in ApiState /\ X(g).gen = g /\ X(g).seen = NoDispatch
    BY <1>3, Submission DEF ApiState
  <1>5. seen.gen \in Gens /\ seen.rev \in 1..MaxRev /\ seen.attempt \in 0..MaxAttempt /\ due \in 0..Timeout
    BY <1>1, Submission, Bounds DEF Gens
  <1>6. \E g \in {0, seen.gen} : api' = [api EXCEPT ![j] = X(g)]
    BY DEF SubmitCapability, SystemInv, TypeOK
  <1>7. StoreMoves
    <2>1. CASE RegisterJob(j, k, d, seen.gen, seen.rev, seen.attempt, due)
      BY <1>1, <1>5, <2>1, RegisterMoves
    <2>2. CASE UNCHANGED storeVars
      BY <2>2, QuietStore
    <2> QED
      BY <2>1, <2>2 DEF SubmitCapability
  <1> HIDE DEF X, seen
  <1> PICK g \in {0, seen.gen} : api' = [api EXCEPT ![j] = X(g)]
    BY <1>6
  <1>8. g \in 0..MaxGen
    BY <1>5, Bounds DEF Gens
  <1>9. X(g) \in ApiState /\ X(g).gen = g /\ X(g).seen = NoDispatch
    BY <1>4, <1>8
  <1>10. api'[j] = X(g) /\ api' \in [Jobs -> ApiState] /\ \A i \in Jobs \ {j} : api'[i] = api[i]
    BY <1>9, ApiGoes
  <1> QED
    BY <1>1, <1>2, <1>7, <1>9, <1>10 DEF SubmissionMoves, seen

\* The enqueue.
LEMMA EnqueueMoves ==
    ASSUME SystemInv, NEW j \in Jobs, SubmitEnqueue(j)
    PROVE  SubmissionMoves(j)
  <1> DEFINE x == [api[j] EXCEPT !.gen = 0]
  <1>1. UNCHANGED <<storeVars, worker, beat, rec, sync, db, outcome>> /\ api[j].gen # 0
    BY DEF SubmitEnqueue
  <1>2. api[j].gen \in Gens
    BY <1>1, Submission, Bounds DEF Gens
  <1>3. QueueMoves
    <2>1. CASE arq' = Enqueued(j, api[j].gen)
      BY <1>2, <2>1, EnqueuedMoves DEF Pushed
    <2>2. CASE UNCHANGED arq
      BY <2>2, SameQueue
    <2> QED
      BY <2>1, <2>2 DEF SubmitEnqueue
  <1>4. faults' \in 0..MaxFaults
    BY SystemAssumption DEF SubmitEnqueue, Fault, SystemInv, TypeOK
  <1>5. api' = [api EXCEPT ![j] = x]
    BY DEF SubmitEnqueue, SystemInv, TypeOK
  <1>6. x \in ApiState /\ x.gen = 0 /\ x.seen = api[j].seen
    BY Submission, Bounds DEF ApiState
  <1> HIDE DEF x
  <1> QED
    BY <1>1, <1>3, <1>4, <1>5, <1>6, ApiGoes, QuietStore DEF SubmissionMoves

\* ARQ delivers a run again whose in-progress marker has lapsed.
LEMMA LapseMoves ==
    ASSUME SystemInv, NEW j \in Jobs, NEW g \in Gens, InProgressLapses(j, g)
    PROVE  SubmissionMoves(j)
  <1> DEFINE x == [arq[j][g] EXCEPT !.state = "queued"]
  <1>1. /\ UNCHANGED <<storeVars, api, worker, beat, rec, sync, db, outcome, faults>>
        /\ arq[j][g].state = "running"
    BY DEF InProgressLapses
  <1>2. arq \in [Jobs -> [Gens -> ArqState]] /\ arq[j] \in [Gens -> ArqState] /\ arq[j][g] \in ArqState
    BY DEF SystemInv, TypeOK
  <1>3. x \in ArqState /\ x.state = "queued" /\ arq' = [arq EXCEPT ![j][g] = x]
    BY <1>2 DEF InProgressLapses, ArqState
  <1> HIDE DEF x
  <1>4. arq' \in [Jobs -> [Gens -> ArqState]]
        /\ \A i \in Jobs, h \in Gens : arq'[i][h] = IF i = j /\ h = g THEN x ELSE arq[i][h]
    BY <1>2, <1>3
  <1>5. QueueMoves
    BY <1>1, <1>3, <1>4 DEF QueueMoves
  <1>6. StoreMoves /\ api \in [Jobs -> ApiState] /\ faults' \in 0..MaxFaults
    BY <1>1, QuietStore DEF SystemInv, TypeOK
  <1> QED
    BY <1>1, <1>5, <1>6 DEF SubmissionMoves

\* A submission keeps the invariant.
LEMMA SubmissionKeepsInv ==
    ASSUME SystemInv, NEW j \in Jobs, SubmissionMoves(j)
    PROVE  SystemInv'
  <1>1. /\ StoreMoves /\ QueueMoves /\ faults' \in 0..MaxFaults
        /\ UNCHANGED <<worker, beat, rec, sync, db, outcome>>
        /\ api' \in [Jobs -> ApiState] /\ OutcomeMoves
    BY SameOutcome DEF SubmissionMoves
  <1>2. TypeOK'
    BY <1>1, SharedKept DEF SystemInv, TypeOK, QueueMoves
  <1>3. \A i \in Jobs : JobOK(i)' /\ OutcomeOK(i)'
    BY <1>1, SharedKept DEF SystemInv, OutcomeOK
  <1>4. \A i \in Jobs : ApiOK(i)'
    <2>1. \A i \in Jobs \ {j} : ApiOK(i)'
      BY DEF SubmissionMoves, SystemInv, ApiOK
    <2>2. ApiOK(j)'
      <3>1. db[j].gen # 0
        BY Submission, Bounds DEF Gens
      <3> QED
        BY <3>1 DEF SubmissionMoves, SystemInv, ApiOK
    <2> QED
      BY <2>1, <2>2
  <1>5. \A v \in Workers : WorkerOK(v)' /\ SyncOK(v)'
    BY <1>1, WorkersKept DEF Callers
  <1>6. \A r \in Reconcilers : RecOK(r)' /\ SyncOK(r)'
    BY <1>1, ReconcilersKept
  <1> QED
    BY <1>2, <1>3, <1>4, <1>5, <1>6 DEF SystemInv, Callers

-----------------------------------------------------------------------------
(* Time.                                                                     *)

\* A tick lets keys expire and makes heartbeats due.
TickMoves ==
    /\ StoreMoves /\ UNCHANGED <<api, arq, worker, rec, sync, db, outcome, faults>>
    /\ \A i \in Jobs : api[i].seen = NoDispatch
    /\ \A w \in Workers : beat'[w] = beat[w] \/ (beat[w] = "wait" /\ beat'[w] = "due")
    /\ beat' \in [Workers -> BeatStates]

\* A tick lets keys expire, and makes heartbeats due of runs that wait for theirs.
LEMMA TimeMoves == ASSUME SystemInv, Tick PROVE TickMoves
  <1>1. StoreMoves
    BY DEF Tick, StoreMoves, SnapshotMoves, StoreNext, StoreTick, LastTick
  <1>2. beat' \in [Workers -> BeatStates]
        /\ \A w \in Workers : beat'[w] = beat[w] \/ (beat[w] = "wait" /\ beat'[w] = "due")
    BY DEF Tick, SystemInv, TypeOK, BeatStates
  <1> QED
    BY <1>1, <1>2 DEF Tick, TickMoves

\* A tick keeps the invariant.
LEMMA TickKeepsInv == ASSUME SystemInv, Tick PROVE SystemInv'
  <1>1. TickMoves
    BY TimeMoves
  <1>2. StoreMoves /\ UNCHANGED <<api, arq, worker, rec, sync, db, outcome, faults>> /\ OutcomeMoves
        /\ QueueMoves /\ beat' \in [Workers -> BeatStates]
    BY <1>1, SameOutcome, SameQueue DEF TickMoves
  <1>3. TypeOK'
    BY <1>2, SharedKept DEF SystemInv, TypeOK
  <1>4. \A i \in Jobs : JobOK(i)' /\ ApiOK(i)' /\ OutcomeOK(i)'
    BY <1>2, SharedKept DEF SystemInv, ApiOK, OutcomeOK
  <1>5. \A v \in Workers : WorkerOK(v)' /\ SyncOK(v)'
    <2> TAKE v \in Workers
    <2>1. RunOK(worker'[v], beat'[v], sync'[v]) /\ RunDecided(worker'[v], outcome')
      BY <1>1, Slot DEF TickMoves, RunOK
    <2>2. RunQueued(worker'[v], arq')
      BY <1>2, Slot DEF RunQueued
    <2> QED
      BY <1>2, <2>1, <2>2, Slot DEF WorkerOK, SyncOK
  <1>6. \A r \in Reconcilers : RecOK(r)' /\ SyncOK(r)'
    BY <1>2, ReconcilersKept
  <1> QED
    BY <1>3, <1>4, <1>5, <1>6 DEF SystemInv, Callers

-----------------------------------------------------------------------------
(* The invariant holds.                                                      *)

\* Nothing runs at first.
LEMMA SystemInit == Init => SystemInv
  <1> SUFFICES ASSUME Init PROVE SystemInv
    OBVIOUS
  <1>1. StoreTypeOK
    BY TypeInit DEF Init
  <1>2. api \in [Jobs -> ApiState] /\ arq \in [Jobs -> [Gens -> ArqState]]
    BY Bounds, SystemAssumption DEF Init, ApiState, Dispatch, NoDispatch, ArqState
  <1>3. /\ worker \in [Workers -> WorkerState] /\ beat \in [Workers -> BeatStates]
        /\ rec \in [Reconcilers -> RecState] /\ sync \in [Callers -> SyncState]
    BY IdleValues DEF Init, BeatStates
  <1>4. db \in [Jobs -> RowState] /\ outcome \in [Jobs -> Outcomes] /\ faults \in 0..MaxFaults
    BY Bounds, SystemAssumption DEF Init, RowState, Outcomes, Gens, Statuses
  <1>5. \A j \in Jobs : JobOK(j) /\ ApiOK(j) /\ OutcomeOK(j)
    BY DEF Init, StoreInit, JobOK, ApiOK, OutcomeOK
  <1>6. \A w \in Workers : WorkerOK(w)
    BY DEF Init, WorkerOK, RunOK, RunDecided, RunQueued, IdleWorker, NoSync, Callers
  <1>7. \A r \in Reconcilers : RecOK(r)
    BY DEF Init, RecOK, CycleOK, CycleDecided, IdleRec, NoSync, Callers
  <1>8. \A p \in Callers : SyncOK(p)
    BY DEF Init, SyncOK, EventOK, NoSync
  <1> QED
    BY <1>1, <1>2, <1>3, <1>4, <1>5, <1>6, <1>7, <1>8 DEF SystemInv, TypeOK

\* Every step is one of those described above.
LEMMA StepMoves ==
    ASSUME SystemInv, Next
    PROVE  \/ \E j \in Jobs : SubmissionMoves(j)
           \/ \E w \in Workers : Work(w) /\ WorkerMoves(w)
           \/ \E p \in Callers : Sync(p) /\ CallMoves(p)
           \/ \E r \in Reconcilers : (Reconcile(r) \/ RecCrash(r)) /\ RecMoves(r)
           \/ Tick /\ TickMoves
  <1>1. CASE \E j \in Jobs, k \in Keys, d \in Digests : Submit(j, k, d) \/ SubmitCapability(j, k, d)
    BY <1>1, SubmitMoves, CapabilityMoves
  <1>2. CASE \E j \in Jobs : AuthorizeDispatch(j) \/ SubmitEnqueue(j) \/ \E g \in Gens : InProgressLapses(j, g)
    BY <1>2, AuthorizeMoves, EnqueueMoves, LapseMoves
  <1>3. CASE \E w \in Workers : Work(w)
    BY <1>3, WorkMoves
  <1>4. CASE \E p \in Callers : Sync(p)
    BY <1>4, SyncMoves
  <1>5. CASE \E r \in Reconcilers : Reconcile(r) \/ RecCrash(r)
    BY <1>5, ReconcileMoves
  <1>6. CASE Tick
    BY <1>6, TimeMoves
  <1> QED
    BY <1>1, <1>2, <1>3, <1>4, <1>5, <1>6 DEF Next

\* Every step of the system keeps the invariant.
LEMMA NextKeepsInv == SystemInv /\ [Next]_vars => SystemInv'
  <1> SUFFICES ASSUME SystemInv, [Next]_vars PROVE SystemInv'
    OBVIOUS
  <1>1. CASE UNCHANGED vars
    BY <1>1 DEF vars, storeVars, systemVars, SystemInv, TypeOK, StoreTypeOK, JobOK, Present, ApiOK, OutcomeOK,
                WorkerOK, RecOK, SyncOK
  <1>2. CASE Next
    BY <1>2, StepMoves, SubmissionKeepsInv, WorkKeepsInv, SyncKeepsInv, ReconcileKeepsInv, TickKeepsInv
  <1> QED
    BY <1>1, <1>2

\* What every process knows where it stands is true, however the web service, the
\* workers and the reconcilers overtake one another, crash and lose answers.
THEOREM SystemInvariant == Spec => []SystemInv
  BY SystemInit, NextKeepsInv, PTL DEF Spec

\* The type invariant of the whole system.
THEOREM SystemTypeCorrect == Spec => []TypeOK
  <1>1. SystemInv => TypeOK
    BY DEF SystemInv
  <1> QED
    BY <1>1, SystemInvariant, PTL

-----------------------------------------------------------------------------
(* The processes respect the store.                                          *)

\* Every step of the system is a step of the store, or leaves it alone.
LEMMA StepRespectsStore == SystemInv /\ [Next]_vars => [StoreNext]_storeVars
  <1> SUFFICES ASSUME SystemInv, [Next]_vars PROVE [StoreNext]_storeVars
    OBVIOUS
  <1>1. CASE UNCHANGED vars
    BY <1>1 DEF vars
  <1>2. CASE Next
    BY <1>2, StepMoves DEF SubmissionMoves, WorkerMoves, CallMoves, RecMoves, TickMoves, StoreMoves
  <1> QED
    BY <1>1, <1>2

\* Whatever the workers, the reconcilers and the web service do to Redis is an
\* operation of the store's specification: the system implements the store.
THEOREM SystemRespectsStore == Spec => StoreIsRespected
  <1>1. SystemInv /\ [Next]_vars => [UNCHANGED storeVars \/ StoreNext]_storeVars
    BY StepRespectsStore
  <1> QED
    BY <1>1, SystemInvariant, PTL DEF Spec, StoreIsRespected

\* The behaviours of the system are behaviours of the store.
THEOREM SystemImplementsStore == Spec => StoreSpec
  <1>1. Init => StoreInit
    BY DEF Init
  <1> QED
    BY <1>1, StepRespectsStore, SystemInvariant, PTL DEF Spec, StoreSpec

\* So what the store promises any client holds of this system: the indexes of a live
\* job agree with its snapshot, an idempotency key names a live job, a finished job
\* stays finished, and a revision names one snapshot.
THEOREM StorePromisesHold ==
    Spec => []IndexAgreement /\ []KeyNamesItsJob /\ TerminalIsFinal /\ RevisionNamesSnapshot
  BY SystemImplementsStore, IndexesAgree, KeysNameTheirJobs, FinishedStaysFinished, RevisionsNameSnapshots, PTL

-----------------------------------------------------------------------------
(* Results and callbacks.                                                    *)

\* Every step treats the results and the snapshots as described.
LEMMA StepShared ==
    ASSUME SystemInv, [Next]_vars
    PROVE  StoreMoves /\ OutcomeMoves
  <1>1. CASE UNCHANGED vars
    BY <1>1, QuietStore, SameOutcome DEF vars, systemVars
  <1>2. CASE Next
    BY <1>2, StepMoves, SameOutcome
       DEF SubmissionMoves, WorkerMoves, CallMoves, RecMoves, TickMoves
  <1> QED
    BY <1>1, <1>2

\* A snapshot succeeds only after SQL has accepted its report, which SQL keeps.
LEMMA PersistedStays == SystemInv /\ SucceededIsPersisted /\ [Next]_vars => SucceededIsPersisted'
  <1> SUFFICES ASSUME SystemInv, SucceededIsPersisted, [Next]_vars, NEW j \in Jobs, job'[j].status = "succeeded"
               PROVE  outcome'[j].status = "succeeded"
    BY DEF SucceededIsPersisted
  <1>1. SnapshotMoves(j) /\ OutcomeMoves
    BY StepShared DEF StoreMoves
  <1>2. outcome[j].status = "succeeded"
    <2>1. CASE job'[j] = job[j]
      BY <2>1 DEF SucceededIsPersisted
    <2>2. CASE job'[j] = Missing \/ Registered(j)
      BY <2>2 DEF Missing, Registered
    <2>3. CASE Moved(j)
      BY <2>3 DEF Moved
    <2>4. CASE Marked(j)
      BY <2>4 DEF Marked, SucceededIsPersisted, SystemInv, TypeOK, StoreTypeOK, JobState
    <2> QED
      BY <1>1, <2>1, <2>2, <2>3, <2>4 DEF SnapshotMoves
  <1> QED
    BY <1>1, <1>2, DecidedStays

\* A task shown as succeeded has its report in SQL, though runs are superseded, are
\* cancelled between the RPC and the transition, and are restored by a later one.
THEOREM SuccessIsPersisted == Spec => []SucceededIsPersisted
  <1>1. Init => SucceededIsPersisted
    BY DEF Init, StoreInit, Missing, SucceededIsPersisted
  <1> QED
    BY <1>1, PersistedStays, SystemInvariant, PTL DEF Spec

\* The row of a job never goes back.
LEMMA RowAdvances ==
    ASSUME SystemInv, [Next]_vars, NEW j \in Jobs
    PROVE  db[j].rev \in Nat /\ db'[j].rev \in Nat /\ db[j].rev <= db'[j].rev
  <1>1. db[j].rev \in 0..MaxRev
    BY Submission
  <1>2. db' \in [Jobs -> RowState]
    BY NextKeepsInv DEF SystemInv, TypeOK
  <1>3. db'[j].rev \in 0..MaxRev
    BY <1>2 DEF RowState
  <1>4. db'[j] = db[j] \/ db'[j].rev > db[j].rev
    <2>1. CASE UNCHANGED db
      BY <2>1
    <2>2. CASE \E p \in Callers : sync[p].step = "send" /\ db' = Applied(sync[p])
      <3> PICK p \in Callers : sync[p].step = "send" /\ db' = Applied(sync[p])
        BY <2>2
      <3> DEFINE new == Applied(sync[p])
      <3>1. \/ new[j] = db[j]
            \/ /\ sync[p].rev > db[j].rev
               /\ new[j] = [rev |-> sync[p].rev, gen |-> sync[p].gen, attempt |-> sync[p].attempt,
                            status |-> sync[p].status]
        BY AppliedOK
      <3>2. db' = new
        OBVIOUS
      <3> HIDE DEF new
      <3> QED
        BY <3>1, <3>2
    <2>3. (\E p \in Callers : EventMoves(p)) \/ UNCHANGED db
      <3>1. CASE Next
        BY <3>1, StepMoves DEF SubmissionMoves, WorkerMoves, CallMoves, RecMoves, TickMoves
      <3> QED
        BY <3>1 DEF vars, systemVars
    <2> QED
      BY <2>1, <2>2, <2>3 DEF EventMoves
  <1> QED
    BY <1>1, <1>3, <1>4, Bounds

\* An event that waits for its acknowledgement has been delivered too.
Delivered ==
    /\ AcknowledgedIsDelivered
    /\ \A p \in Callers : sync[p].step = "mark" => sync[p].rev <= db[sync[p].job].rev

\* A call starts or ends, stands still, or takes a step of its own.
LEMMA CallSteps ==
    ASSUME SystemInv, [Next]_vars, NEW p \in Callers
    PROVE  sync'[p] = sync[p] \/ sync'[p].step \in {"none", "read"} \/ (EventMoves(p) /\ Sync(p) /\ CallMoves(p))
  <1>1. CASE UNCHANGED vars
    BY <1>1 DEF vars, systemVars
  <1>2. CASE (\E j \in Jobs : SubmissionMoves(j)) \/ TickMoves
    BY <1>2 DEF SubmissionMoves, TickMoves
  <1>3. CASE \E w \in Workers : WorkerMoves(w)
    <2> PICK w \in Workers : WorkerMoves(w)
      BY <1>3
    <2>1. p # w => p \in Callers \ {w}
      OBVIOUS
    <2> QED
      BY <2>1 DEF WorkerMoves, SlotMoves
  <1>4. CASE \E r \in Reconcilers : RecMoves(r)
    BY <1>4 DEF RecMoves, CycleMoves
  <1>5. CASE \E q \in Callers : Sync(q) /\ CallMoves(q)
    BY <1>5 DEF CallMoves, EventMoves
  <1> QED
    BY <1>1, <1>2, <1>3, <1>4, <1>5, StepMoves

\* mark_callback_synced acknowledges the revision that was sent, or less.
LEMMA DeliveredStays == SystemInv /\ Delivered /\ [Next]_vars => Delivered'
  <1> SUFFICES ASSUME SystemInv, Delivered, [Next]_vars PROVE Delivered'
    OBVIOUS
  <1>1. ASSUME NEW j \in Jobs, Present(j)' PROVE job'[j].synced <= db'[j].rev
    <2>1. db[j].rev \in Nat /\ db'[j].rev \in Nat /\ db[j].rev <= db'[j].rev
      BY RowAdvances
    <2>2. job[j] \in JobState /\ job[j].synced \in Nat /\ job[j].rev \in Nat
      BY SnapshotFields, Bounds DEF SystemInv, TypeOK
    <2>3. Present(j) => job[j].synced <= db[j].rev
      BY DEF Delivered, AcknowledgedIsDelivered
    <2>4. CASE job'[j] = job[j]
      BY <1>1, <2>1, <2>2, <2>3, <2>4 DEF Present
    <2>5. CASE job'[j] = Missing
      BY <1>1, <2>5 DEF Present, Missing
    <2>6. CASE Registered(j)
      BY <2>1, <2>6 DEF Registered
    <2>7. CASE Moved(j)
      BY <2>1, <2>2, <2>3, <2>7 DEF Moved
    <2>8. CASE Marked(j)
      <3> PICK p \in Callers : /\ sync[p].step = "mark" /\ sync[p].job = j
                               /\ job'[j] = [job[j] EXCEPT !.synced = SyncedRevision(j, sync[p].rev)]
        BY <2>8 DEF Marked
      <3>1. job'[j].synced = SyncedRevision(j, sync[p].rev) /\ Present(j)
        BY <2>2, <2>8 DEF JobState, Marked
      <3>2. sync[p].rev \in 0..MaxRev
        BY DEF SystemInv, TypeOK, SyncState
      <3>3. sync[p].rev <= db[j].rev /\ sync[p].rev \in Nat
        BY <3>2, Bounds DEF Delivered
      <3> QED
        BY <2>1, <2>2, <2>3, <3>1, <3>3 DEF SyncedRevision
    <2>9. SnapshotMoves(j)
      BY StepShared DEF StoreMoves
    <2> QED
      BY <2>4, <2>5, <2>6, <2>7, <2>8, <2>9 DEF SnapshotMoves
  <1>2. ASSUME NEW p \in Callers, sync'[p].step = "mark" PROVE sync'[p].rev <= db'[sync'[p].job].rev
    <2> DEFINE j == sync[p].job
    <2>1. CASE sync'[p] = sync[p]
      <3>1. j \in Jobs /\ sync[p].rev \in 0..MaxRev /\ sync[p].rev <= db[j].rev
        BY <1>2, <2>1 DEF Delivered, SystemInv, SyncOK, EventOK, TypeOK, SyncState
      <3> QED
        BY <2>1, <3>1, RowAdvances, Bounds
    <2>2. CASE EventMoves(p)
      <3>1. sync[p].step = "send" /\ sync'[p] = [sync[p] EXCEPT !.step = "mark"] /\ db' = Applied(sync[p])
        BY <1>2, <2>2 DEF EventMoves
      <3>2. sync[p] \in SyncState /\ j \in Jobs /\ sync[p].rev \in 0..MaxRev /\ db[j].rev \in Nat
        BY <3>1, RowAdvances DEF SystemInv, SyncOK, EventOK, TypeOK, SyncState
      <3>3. sync'[p].rev = sync[p].rev /\ sync'[p].job = j
        BY <3>1, <3>2 DEF SyncState
      <3>4. IF sync[p].rev > db[j].rev THEN db'[j].rev = sync[p].rev ELSE db'[j].rev = db[j].rev
        BY <3>1, <3>2 DEF Applied, SystemInv, TypeOK
      <3> QED
        BY <3>2, <3>3, <3>4, Bounds
    <2> QED
      BY <1>2, <2>1, <2>2, CallSteps
  <1> QED
    BY <1>1, <1>2 DEF Delivered, AcknowledgedIsDelivered

\* An event that is to be acknowledged, and every acknowledged one, is in the row.
THEOREM DeliveredInvariant == Spec => []Delivered
  <1>1. Init => Delivered
    BY DEF Init, StoreInit, Missing, NoSync, Delivered, AcknowledgedIsDelivered, Present
  <1> QED
    BY <1>1, DeliveredStays, SystemInvariant, PTL DEF Spec

\* An acknowledged revision was delivered, though callbacks overlap, answers are lost and
\* the snapshot moves on between the send and the acknowledgement.
THEOREM AcknowledgedDelivered == Spec => []AcknowledgedIsDelivered
  <1>1. Delivered => AcknowledgedIsDelivered
    BY DEF Delivered
  <1> QED
    BY <1>1, DeliveredInvariant, PTL

-----------------------------------------------------------------------------
(* Recovery: what the database knows of a job when a worker is offered a     *)
(* generation of it, and how SQL and Redis agree on its end.  A job whose    *)
(* snapshot or whose request has expired is registered or failed anew while  *)
(* the database remembers it, so these results are about the behaviours in   *)
(* which neither key expires; state_ttl_seconds is chosen for that, and a    *)
(* snapshot's TTL starts again with every transition.                        *)

\* The keys of a job outlive the job.
Kept ==
    \A j \in Jobs : /\ Present(j) => Present(j)'
                    /\ request[j] # NoRequest => request'[j] # NoRequest
KeysLast == [][Kept]_vars

Final == {"succeeded", "failed"}

\* An event or a row that is not ahead of the snapshot of its job.
Behind(e, j) ==
    /\ e.rev <= job[j].rev /\ e.gen <= job[j].gen
    /\ e.rev = job[j].rev => e.gen = job[j].gen /\ e.status = job[j].status
    /\ e.status \in Final => e.rev = job[j].rev

\* The database knows nothing of the job yet, or a snapshot that it has had.
Known(j) ==
    \/ db[j].rev = 0 /\ db[j].gen = 1 /\ db[j].status = "queued"
    \/ Present(j) /\ Behind(db[j], j)

Sent(p) == sync[p].step \in {"send", "mark"}

\* Revisions order the generations, among the events and against the row.
Told(p) == Sent(p) => Present(sync[p].job) /\ Behind(sync[p], sync[p].job)
AgreesWithRow(p) ==
    Sent(p) => LET row == db[sync[p].job] IN
               /\ row.rev <= sync[p].rev => row.gen <= sync[p].gen
               /\ sync[p].rev <= row.rev => sync[p].gen <= row.gen
InOrder(p, q) ==
    Sent(p) /\ Sent(q) /\ sync[p].job = sync[q].job /\ sync[p].rev <= sync[q].rev => sync[p].gen <= sync[q].gen

\* What is offered, or about to be offered, is known to the database.
OfferedIsKnown(j) ==
    /\ api[j].seen.gen <= db[j].gen /\ api[j].gen <= db[j].gen
    /\ \A g \in Gens : arq[j][g].state # "absent" => g <= db[j].gen

PushIsKnown(r) ==
    LET j == rec[r].job IN
    /\ rec[r].pc = "enqueue" => rec[r].gen <= db[j].gen
    /\ rec[r].pc = "sync" /\ rec[r].then = "enqueue" =>
          /\ Present(j) /\ rec[r].gen <= job[j].gen
          /\ Sent(r) => rec[r].gen <= sync[r].gen

\* What a reconciler has read stays, and it fails a capability job after SQL has.
FailureIsDecided(r) ==
    LET j == rec[r].job IN
    /\ rec[r].pc \in {"pending", "discard"} => Present(j)
    /\ rec[r].pc = "fail" /\ j \in Capability => outcome[j].status = "failed"

\* A job that is shown has its request.
Requested(j) == Present(j) => request[j] # NoRequest

RecoveryInv ==
    /\ \A j \in Jobs : Known(j) /\ OfferedIsKnown(j) /\ Requested(j)
    /\ \A p \in Callers : Told(p) /\ AgreesWithRow(p)
    /\ \A p, q \in Callers : InOrder(p, q)
    /\ \A r \in Reconcilers : PushIsKnown(r) /\ FailureIsDecided(r)
    /\ CapabilityOutcomeAgrees

-----------------------------------------------------------------------------
(* Snapshots only advance.                                                   *)

\* What is known of a snapshot, of an event and of a row.
LEMMA Fields ==
    ASSUME SystemInv
    PROVE  /\ \A j \in Jobs : /\ job[j] \in JobState /\ job[j].rev \in Nat /\ job[j].gen \in Nat
                              /\ job[j].synced \in Nat
                              /\ Present(j) => job[j].rev # 0 /\ job[j].gen # 0
                              /\ db[j].rev \in Nat /\ db[j].gen \in Nat /\ db[j].gen # 0
           /\ \A p \in Callers : /\ sync[p] \in SyncState /\ sync[p].rev \in Nat /\ sync[p].gen \in Nat
                                 /\ sync[p].step # "none" => sync[p].job \in Jobs
                                 /\ Sent(p) => sync[p].rev # 0 /\ sync[p].gen # 0
  <1>1. \A j \in Jobs : /\ job[j] \in JobState /\ db[j] \in RowState /\ JobOK(j)
    BY DEF SystemInv, TypeOK, StoreTypeOK
  <1>2. \A p \in Callers : sync[p] \in SyncState /\ EventOK(sync[p])
    BY DEF SystemInv, TypeOK, SyncOK
  <1>3. 0..MaxRev \subseteq Nat /\ 0..MaxGen \subseteq Nat /\ Gens \subseteq Nat \ {0}
    BY Bounds DEF Gens
  <1>4. \A j \in Jobs : Present(j) => job[j].rev # 0 /\ job[j].gen # 0
    BY <1>1 DEF JobOK, Present, Missing
  <1>5. ASSUME NEW p \in Callers
        PROVE  /\ sync[p].rev \in Nat /\ sync[p].gen \in Nat
               /\ sync[p].step # "none" => sync[p].job \in Jobs
               /\ Sent(p) => sync[p].rev # 0 /\ sync[p].gen # 0
    BY <1>2, <1>3 DEF SyncState, EventOK, Sent
  <1>6. ASSUME NEW j \in Jobs
        PROVE  /\ job[j].rev \in Nat /\ job[j].gen \in Nat /\ job[j].synced \in Nat
               /\ db[j].rev \in Nat /\ db[j].gen \in Nat /\ db[j].gen # 0
    BY <1>1, <1>3 DEF JobState, RowState
  <1> QED
    BY <1>1, <1>2, <1>4, <1>5, <1>6

\* While its key is there, a snapshot moves forward, and a finished one stays.
Advances(j) ==
    /\ Present(j)' /\ job[j].rev <= job'[j].rev /\ job[j].gen <= job'[j].gen
    /\ job'[j].rev = job[j].rev => job'[j].gen = job[j].gen /\ job'[j].status = job[j].status
    /\ Terminal(j) => job'[j].rev = job[j].rev

\* Registrations apart, every step moves a snapshot forward or only acknowledges it.
LEMMA SnapshotAdvances ==
    ASSUME SystemInv, [Next]_vars, Kept, NEW j \in Jobs, Present(j)
    PROVE  Advances(j)
  <1>1. Present(j)' /\ SnapshotMoves(j)
    BY StepShared DEF StoreMoves, Kept
  <1>2. job[j] \in JobState /\ job[j].rev \in Nat /\ job[j].gen \in Nat
    BY Fields
  <1>3. CASE job'[j] = job[j]
    BY <1>1, <1>2, <1>3 DEF Advances
  <1>4. CASE job'[j] = Missing
    BY <1>1, <1>4 DEF Present, Missing
  <1>5. CASE Registered(j)
    BY <1>5 DEF Registered
  <1>6. CASE Moved(j)
    BY <1>1, <1>2, <1>6 DEF Moved, Advances
  <1>7. CASE Marked(j)
    <2>1. job'[j].rev = job[j].rev /\ job'[j].gen = job[j].gen /\ job'[j].status = job[j].status
      BY <1>2, <1>7 DEF Marked, JobState
    <2> QED
      BY <1>1, <1>2, <2>1 DEF Advances
  <1> QED
    BY <1>1, <1>3, <1>4, <1>5, <1>6, <1>7 DEF SnapshotMoves

\* What was not ahead of a snapshot never will be.
LEMMA StaysBehind ==
    ASSUME NEW e, e.rev \in Nat, e.gen \in Nat, NEW j \in Jobs, SystemInv, SystemInv', Advances(j), Behind(e, j)
    PROVE  Present(j)' /\ e.rev <= job'[j].rev /\ e.gen <= job'[j].gen
           /\ (e.rev = job'[j].rev => e.gen = job'[j].gen /\ e.status = job'[j].status)
           /\ (e.status \in Final => e.rev = job'[j].rev)
  <1>1. /\ job[j].rev \in Nat /\ job[j].gen \in Nat /\ job'[j].rev \in Nat /\ job'[j].gen \in Nat
    <2>1. job[j].rev \in Nat /\ job[j].gen \in Nat
      BY Fields
    <2>2. job'[j] \in JobState
      BY DEF SystemInv, TypeOK, StoreTypeOK
    <2> QED
      BY <2>1, <2>2, Bounds DEF JobState
  <1>2. e.status \in Final => Terminal(j)
    BY DEF Behind, Final, Terminal
  <1> QED
    BY <1>1, <1>2 DEF Behind, Advances

-----------------------------------------------------------------------------
(* Events and rows.                                                          *)

\* An event on its way is one that was, or is taken from the snapshot.
Carried(p) ==
    /\ Sent(p) /\ sync'[p].job = sync[p].job /\ sync'[p].rev = sync[p].rev
    /\ sync'[p].gen = sync[p].gen /\ sync'[p].status = sync[p].status
Taken(p) ==
    LET j == sync[p].job IN
    /\ j \in Jobs /\ Present(j) /\ UNCHANGED <<job, db>> /\ sync'[p].job = j
    /\ sync'[p].rev = job[j].rev /\ sync'[p].gen = job[j].gen /\ sync'[p].status = job[j].status

\* Events come from nowhere else: a call sends what it has read.
LEMMA SentSteps ==
    ASSUME SystemInv, [Next]_vars, NEW p \in Callers, Sent(p)'
    PROVE  Carried(p) \/ Taken(p)
  <1>1. CASE sync'[p] = sync[p]
    BY <1>1 DEF Carried, Sent
  <1>2. CASE sync'[p].step \in {"none", "read"}
    BY <1>2 DEF Sent
  <1>3. CASE EventMoves(p)
    <2>1. CASE sync[p].step = "send" /\ sync'[p] = [sync[p] EXCEPT !.step = "mark"]
      BY <2>1, Fields DEF Carried, Sent, SyncState
    <2>2. CASE sync[p].step = "read"
      <3>1. sync[p].job \in Jobs
        BY <2>2, Fields
      <3> QED
        BY <1>3, <2>2, <3>1 DEF EventMoves, Taken, Sent
    <2> QED
      BY <1>3, <2>1, <2>2 DEF EventMoves, Sent
  <1> QED
    BY <1>1, <1>2, <1>3, CallSteps

\* A row is what it was, or an event that was ahead of it.
LEMMA RowSteps ==
    ASSUME SystemInv, [Next]_vars, NEW j \in Jobs
    PROVE  \/ db'[j] = db[j]
           \/ \E p \in Callers : /\ Sent(p) /\ sync[p].job = j /\ sync[p].rev > db[j].rev
                                 /\ db'[j].rev = sync[p].rev /\ db'[j].gen = sync[p].gen
                                 /\ db'[j].status = sync[p].status
  <1>1. CASE UNCHANGED db
    BY <1>1
  <1>2. ASSUME NEW p \in Callers, sync[p].step = "send", db' = Applied(sync[p])
        PROVE  \/ db'[j] = db[j]
               \/ /\ Sent(p) /\ sync[p].job = j /\ sync[p].rev > db[j].rev
                  /\ db'[j].rev = sync[p].rev /\ db'[j].gen = sync[p].gen
                  /\ db'[j].status = sync[p].status
    <2> DEFINE new == Applied(sync[p])
    <2>1. \/ new[j] = db[j]
          \/ /\ j = sync[p].job /\ sync[p].rev > db[j].rev
             /\ new[j] = [rev |-> sync[p].rev, gen |-> sync[p].gen, attempt |-> sync[p].attempt,
                          status |-> sync[p].status]
      BY <1>2, AppliedOK
    <2>2. db' = new /\ Sent(p)
      BY <1>2 DEF Sent
    <2> HIDE DEF new
    <2> QED
      BY <2>1, <2>2
  <1>3. (\E p \in Callers : EventMoves(p)) \/ UNCHANGED db
    <2>1. CASE Next
      BY <2>1, StepMoves DEF SubmissionMoves, WorkerMoves, CallMoves, RecMoves, TickMoves
    <2> QED
      BY <2>1 DEF vars, systemVars
  <1> QED
    BY <1>1, <1>2, <1>3 DEF EventMoves

\* Every event is of a snapshot that its job has had, and so is every row.
LEMMA ToldStays ==
    ASSUME SystemInv, RecoveryInv, [Next]_vars, Kept, NEW p \in Callers
    PROVE  Told(p)'
  <1> SUFFICES ASSUME Sent(p)' PROVE Present(sync[p].job)' /\ Behind(sync[p], sync[p].job)'
    BY DEF Told
  <1>1. SystemInv'
    BY NextKeepsInv
  <1>2. CASE Carried(p)
    <2> DEFINE j == sync[p].job
    <2>1. j \in Jobs /\ Present(j) /\ Behind(sync[p], j) /\ sync[p].rev \in Nat /\ sync[p].gen \in Nat
      BY <1>2, Fields DEF Carried, RecoveryInv, Told, Sent
    <2>2. Advances(j)
      BY <2>1, SnapshotAdvances
    <2> QED
      BY <1>1, <1>2, <2>1, <2>2, StaysBehind DEF Carried, Behind
  <1>3. CASE Taken(p)
    BY <1>3, Fields DEF Taken, Present, Behind
  <1> QED
    BY <1>2, <1>3, SentSteps

\* A row that takes an event stays behind the snapshot of its job.
LEMMA KnownStays ==
    ASSUME SystemInv, RecoveryInv, [Next]_vars, Kept, NEW j \in Jobs
    PROVE  Known(j)'
  <1>1. SystemInv'
    BY NextKeepsInv
  <1>2. CASE db'[j] = db[j]
    <2>1. CASE db[j].rev = 0 /\ db[j].gen = 1 /\ db[j].status = "queued"
      BY <1>2, <2>1 DEF Known
    <2>2. CASE Present(j) /\ Behind(db[j], j)
      <3>1. db[j].rev \in Nat /\ db[j].gen \in Nat
        BY Fields
      <3>2. Advances(j)
        BY <2>2, SnapshotAdvances
      <3> QED
        BY <1>1, <1>2, <2>2, <3>1, <3>2, StaysBehind DEF Known, Behind
    <2> QED
      BY <2>1, <2>2 DEF RecoveryInv, Known
  <1>3. ASSUME NEW p \in Callers, Sent(p), sync[p].job = j, db'[j].rev = sync[p].rev,
               db'[j].gen = sync[p].gen, db'[j].status = sync[p].status
        PROVE  Known(j)'
    <2>1. Present(j) /\ Behind(sync[p], j) /\ sync[p].rev \in Nat /\ sync[p].gen \in Nat
      BY <1>3, Fields DEF RecoveryInv, Told
    <2>2. Advances(j)
      BY <2>1, SnapshotAdvances
    <2> QED
      BY <1>1, <1>3, <2>1, <2>2, StaysBehind DEF Known, Behind
  <1> QED
    BY <1>2, <1>3, RowSteps

\* The generation of a row never goes back.
LEMMA RowGenerations ==
    ASSUME SystemInv, RecoveryInv, [Next]_vars, NEW j \in Jobs
    PROVE  db[j].gen \in Nat /\ db'[j].gen \in Nat /\ db[j].gen <= db'[j].gen
  <1>1. db[j].gen \in Nat /\ db[j].rev \in Nat
    BY Fields
  <1>2. CASE db'[j] = db[j]
    BY <1>1, <1>2
  <1>3. ASSUME NEW p \in Callers, Sent(p), sync[p].job = j, sync[p].rev > db[j].rev, db'[j].gen = sync[p].gen
        PROVE  db'[j].gen \in Nat /\ db[j].gen <= db'[j].gen
    BY <1>1, <1>3, Fields DEF RecoveryInv, AgreesWithRow
  <1> QED
    BY <1>1, <1>2, <1>3, RowSteps

\* A later event is of the same generation or of a later one.
LEMMA OrderStays ==
    ASSUME SystemInv, RecoveryInv, [Next]_vars, Kept, NEW p \in Callers, NEW q \in Callers
    PROVE  InOrder(p, q)'
  <1> SUFFICES ASSUME Sent(p)', Sent(q)', sync'[p].job = sync'[q].job, sync'[p].rev <= sync'[q].rev
               PROVE  sync'[p].gen <= sync'[q].gen
    BY DEF InOrder
  <1>1. CASE Carried(p) /\ Carried(q)
    BY <1>1 DEF Carried, RecoveryInv, InOrder
  <1>2. CASE Taken(p) /\ Taken(q)
    <2>1. sync'[p].gen = sync'[q].gen /\ sync'[p].gen \in Nat
      BY <1>2, Fields DEF Taken
    <2> QED
      BY <2>1
  <1>3. CASE Taken(p) /\ Carried(q)
    <2> DEFINE j == sync[q].job
    <2>1. Behind(sync[q], j) /\ j \in Jobs /\ sync[q].rev \in Nat /\ sync[q].gen \in Nat
          /\ sync'[q].rev = sync[q].rev /\ sync'[q].gen = sync[q].gen /\ sync'[q].job = j
      BY <1>3, Fields DEF Carried, RecoveryInv, Told, Sent
    <2>2. sync'[p].rev = job[j].rev /\ sync'[p].gen = job[j].gen
      BY <1>3, <2>1 DEF Taken
    <2>3. job[j].rev \in Nat /\ job[j].gen \in Nat
      BY <2>1, Fields
    <2> QED
      BY <2>1, <2>2, <2>3 DEF Behind
  <1>4. CASE Carried(p) /\ Taken(q)
    <2>1. Behind(sync[p], sync[p].job)
      BY <1>4 DEF Carried, RecoveryInv, Told
    <2> QED
      BY <1>4, <2>1, Fields DEF Carried, Taken, Behind
  <1> QED
    BY <1>1, <1>2, <1>3, <1>4, SentSteps

\* So is an event against the row, which takes events in any order.
LEMMA AgreementStays ==
    ASSUME SystemInv, RecoveryInv, [Next]_vars, Kept, NEW p \in Callers
    PROVE  AgreesWithRow(p)'
  <1> DEFINE j == sync'[p].job
  <1> SUFFICES ASSUME Sent(p)'
               PROVE  /\ db'[j].rev <= sync'[p].rev => db'[j].gen <= sync'[p].gen
                      /\ sync'[p].rev <= db'[j].rev => sync'[p].gen <= db'[j].gen
    BY DEF AgreesWithRow
  <1>1. CASE Carried(p)
    <2>1. j = sync[p].job /\ j \in Jobs
      BY <1>1, Fields DEF Carried, Sent
    <2>2. CASE db'[j] = db[j]
      BY <1>1, <2>1, <2>2 DEF Carried, RecoveryInv, AgreesWithRow
    <2>3. ASSUME NEW q \in Callers, Sent(q), sync[q].job = j, db'[j].rev = sync[q].rev, db'[j].gen = sync[q].gen
          PROVE  /\ db'[j].rev <= sync'[p].rev => db'[j].gen <= sync'[p].gen
                 /\ sync'[p].rev <= db'[j].rev => sync'[p].gen <= db'[j].gen
      BY <1>1, <2>1, <2>3 DEF Carried, RecoveryInv, InOrder
    <2> QED
      BY <2>1, <2>2, <2>3, RowSteps
  <1>2. CASE Taken(p)
    <2>1. /\ j \in Jobs /\ Present(j) /\ db'[j] = db[j] /\ Known(j)
          /\ sync'[p].rev = job[j].rev /\ sync'[p].gen = job[j].gen
      BY <1>2 DEF Taken, RecoveryInv
    <2> QED
      BY <2>1, Fields DEF Known, Behind
  <1> QED
    BY <1>1, <1>2, SentSteps

-----------------------------------------------------------------------------
(* Requests and queues.                                                      *)

\* A job appears only by its registration, which stores its request with it.
LEMMA AppearsWithRequest ==
    ASSUME SystemInv, [StoreNext]_storeVars, NEW j \in Jobs, ~Present(j), Present(j)'
    PROVE  request'[j] # NoRequest
  <1>1. StoreTypeOK
    BY DEF SystemInv, TypeOK
  <1>2. job'[j] # job[j]
    BY DEF Present
  <1>3. CASE StoreTick
    BY <1>2, <1>3 DEF StoreTick
  <1>4. CASE StoreOperation
    <2> PICK i \in Jobs : StoreOperation!(i)
      BY <1>4 DEF StoreOperation
    <2>1. CASE \E k \in Keys, d \in Digests, g \in Gens, r \in 1..MaxRev, a \in 0..MaxAttempt,
                  l \in 0..Timeout : RegisterJob(i, k, d, g, r, a, l)
      <3>1. job' = [job EXCEPT ![i] = job'[i]] /\ request' = [request EXCEPT ![i] = StateTTL]
        BY <1>1, <2>1 DEF RegisterJob, StoreTypeOK
      <3>2. i = j /\ StateTTL # NoRequest
        BY <1>1, <1>2, <3>1, Bounds DEF StoreTypeOK, NoRequest
      <3> QED
        BY <1>1, <3>1, <3>2 DEF StoreTypeOK
    <2>2. CASE \E g \in Gens, a \in 0..MaxAttempt, s \in Statuses, p \in 0..MaxGen, e \in Errors :
                  Transition(i, g, s, a, p, e)
      <3>1. Present(i)
        BY <2>2 DEF Transition, Refused, Fenced
      <3>2. \A h \in Jobs \ {i} : job'[h] = job[h]
        BY <1>1, <2>2 DEF Transition, StoreTypeOK
      <3> QED
        BY <1>2, <3>1, <3>2
    <2>3. CASE (\E g \in Gens : TakeOverStale(i, g)) \/ RetryFailed(i) \/ \E r \in 1..MaxRev : MarkCallbackSynced(i, r)
      <3>1. Present(i)
        BY <2>3 DEF TakeOverStale, MayTakeOver, RetryFailed, MarkCallbackSynced, Present
      <3>2. \A h \in Jobs \ {i} : job'[h] = job[h]
        BY <1>1, <2>3 DEF TakeOverStale, RetryFailed, MarkCallbackSynced, StoreTypeOK
      <3> QED
        BY <1>2, <3>1, <3>2
    <2>4. CASE UNCHANGED job
      BY <1>2, <2>4
    <2>5. \/ \E k \in Keys, d \in Digests, g \in Gens, r \in 1..MaxRev, a \in 0..MaxAttempt,
                l \in 0..Timeout : RegisterJob(i, k, d, g, r, a, l)
          \/ \E g \in Gens, a \in 0..MaxAttempt, s \in Statuses, p \in 0..MaxGen, e \in Errors :
                Transition(i, g, s, a, p, e)
          \/ (\E g \in Gens : TakeOverStale(i, g)) \/ RetryFailed(i) \/ \E r \in 1..MaxRev : MarkCallbackSynced(i, r)
          \/ UNCHANGED job
      <3>1. CASE \E g \in Gens, a \in 0..MaxAttempt :
                    \/ \E s \in {"queued", "running"} : Transition(i, g, s, a, 0, "none")
                    \/ \E p \in Gens : Transition(i, g, "succeeded", a, p, "none")
                    \/ \E e \in {"retryable", "final"} : Transition(i, g, "failed", a, 0, e)
        <4>1. 0 \in 0..MaxGen /\ Gens \subseteq 0..MaxGen
          BY Bounds DEF Gens
        <4> QED
          BY <3>1, <4>1 DEF Statuses, Errors
      <3>2. CASE \/ \E g \in Gens, t \in Tokens :
                       AcquireLease(i, g, t) \/ RefreshLease(i, g, t) \/ ReleaseLease(i, g, t)
                 \/ DiscardMissingJobIndexes(i)
                 \/ \E g \in Gens : \/ DiscardMissingJobRecovery(i, g) \/ DiscardPendingRecovery(i, g)
                                    \/ MarkRecoveryEnqueued(i, g)
        BY <3>2 DEF AcquireLease, RefreshLease, ReleaseLease, DiscardMissingJobIndexes,
                    DiscardMissingJobRecovery, DiscardPendingRecovery, MarkRecoveryEnqueued
      <3> QED
        BY <3>1, <3>2
    <2> QED
      BY <2>1, <2>2, <2>3, <2>4, <2>5
  <1> QED
    BY <1>2, <1>3, <1>4 DEF StoreNext, storeVars

\* The request of a job is there while its snapshot is.
LEMMA RequestedStays ==
    ASSUME SystemInv, RecoveryInv, [Next]_vars, Kept, NEW j \in Jobs
    PROVE  Requested(j)'
  <1>1. [StoreNext]_storeVars
    BY StepRespectsStore
  <1>2. CASE Present(j)
    BY <1>2 DEF RecoveryInv, Requested, Kept
  <1>3. CASE ~Present(j)
    BY <1>1, <1>3, AppearsWithRequest DEF Requested
  <1> QED
    BY <1>2, <1>3

\* A generation is offered, or is to be offered, only when the row has it.
LEMMA OfferedStays ==
    ASSUME SystemInv, RecoveryInv, [Next]_vars, NEW j \in Jobs
    PROVE  OfferedIsKnown(j)'
  <1>1. db[j].gen \in Nat /\ db'[j].gen \in Nat /\ db[j].gen <= db'[j].gen /\ db[j].gen # 0
    BY RowGenerations, Fields
  <1>2. /\ api[j].seen.gen \in Nat /\ api[j].seen.gen <= db[j].gen
        /\ api[j].gen \in Nat /\ api[j].gen <= db[j].gen
    BY Submission, Bounds DEF RecoveryInv, OfferedIsKnown
  <1>3. ASSUME NEW g \in Gens, arq'[j][g].state # "absent" PROVE g <= db'[j].gen
    <2>1. g \in Nat
      BY Bounds DEF Gens
    <2>2. CASE arq[j][g].state # "absent"
      BY <1>1, <2>1, <2>2 DEF RecoveryInv, OfferedIsKnown
    <2>3. CASE api[j].gen = g
      BY <1>1, <1>2, <2>3
    <2>4. CASE \E r \in Reconcilers : rec[r].pc = "enqueue" /\ rec[r].job = j /\ rec[r].gen = g
      BY <1>1, <2>1, <2>4 DEF RecoveryInv, PushIsKnown
    <2>5. CASE UNCHANGED arq
      BY <1>3, <2>2, <2>5
    <2>6. QueueMoves \/ UNCHANGED arq
      <3>1. CASE Next
        BY <3>1, StepMoves DEF SubmissionMoves, WorkerMoves, CallMoves, RecMoves, TickMoves
      <3> QED
        BY <3>1 DEF vars, systemVars
    <2> QED
      BY <1>3, <2>2, <2>3, <2>4, <2>5, <2>6 DEF QueueMoves, Pushed
  <1>4. api'[j].seen.gen <= db'[j].gen /\ api'[j].gen <= db'[j].gen
    <2>1. CASE api'[j] = api[j]
      BY <1>1, <1>2, <2>1
    <2>2. CASE SubmissionMoves(j)
      <3>1. api'[j].gen \in {0, 1, api[j].gen, api[j].seen.gen} /\ db'[j] = db[j]
        BY <2>2 DEF SubmissionMoves
      <3>2. api'[j].gen <= db[j].gen
        BY <1>1, <1>2, <3>1
      <3>3. api'[j].seen.gen <= db[j].gen
        <4>1. api'[j].seen \in {NoDispatch, api[j].seen} \/ api'[j].seen.gen = db[j].gen
          BY <2>2 DEF SubmissionMoves
        <4>2. NoDispatch.gen = 0
          BY DEF NoDispatch
        <4> QED
          BY <1>1, <1>2, <4>1, <4>2
      <3> QED
        BY <3>1, <3>2, <3>3
    <2>3. api'[j] = api[j] \/ SubmissionMoves(j)
      <3>1. CASE Next
        BY <3>1, StepMoves DEF SubmissionMoves, WorkerMoves, CallMoves, RecMoves, TickMoves
      <3> QED
        BY <3>1 DEF vars, systemVars
    <2> QED
      BY <2>1, <2>2, <2>3
  <1> QED
    BY <1>3, <1>4 DEF OfferedIsKnown

-----------------------------------------------------------------------------
(* What a reconciler's step leads to.                                        *)

\* A cycle comes to offer, to notify before it offers, to look at or to fail a job for
\* these reasons only.
LeadsTo(r, x) ==
    /\ x.pc = "enqueue" =>
          x.job \in Jobs /\ Present(x.job) /\ x.gen = job[x.job].gen /\ job[x.job].synced >= job[x.job].rev
    /\ x.pc = "sync" /\ x.then = "enqueue" =>
          x.job \in Jobs /\ Present(x.job) /\ x.gen = job[x.job].gen /\ sync'[r].step = "read"
    /\ x.pc \in {"pending", "discard"} => x.job \in Jobs /\ Present(x.job)
    /\ x.pc = "fail" /\ x.job \in Capability => outcome'[x.job].status = "failed"

\* Most steps lead to none of these.
Elsewhere(x) == x.pc \notin {"enqueue", "pending", "discard", "fail"} /\ (x.pc = "sync" => x.then # "enqueue")

\* A step that leads to none of these needs no reason.
LEMMA LeadsElsewhere == ASSUME NEW r, NEW x, Elsewhere(x) PROVE LeadsTo(r, x)
  BY DEF LeadsTo, Elsewhere

\* Where the helpers of a cycle lead: to another step of the item or to the next item,
LEMMA StepTo ==
    ASSUME SystemInv, NEW r \in Reconcilers, NEW pc, Step(r, pc)
    PROVE  /\ pc = "next" => rec'[r].pc = "next"
           /\ pc # "next" => /\ rec'[r].pc = pc /\ rec'[r].job = rec[r].job /\ rec'[r].gen = rec[r].gen
                             /\ rec'[r].then = rec[r].then
  BY Cycle, BetweenOK DEF Step, SystemInv, TypeOK, RecState

\* to the end of the cycle,
LEMMA AbortTo == ASSUME SystemInv, NEW r \in Reconcilers, Abort(r) PROVE Elsewhere(rec'[r])
  BY DEF Abort, SystemInv, TypeOK, IdleRec, Elsewhere

\* or to a callback of the item.
LEMMA NotifyTo ==
    ASSUME SystemInv, NEW r \in Reconcilers, rec[r].job \in Jobs, NEW pc, RecNotify(r, pc)
    PROVE  /\ rec'[r].pc = "sync" /\ rec'[r].then = pc /\ rec'[r].job = rec[r].job
           /\ rec'[r].gen = rec[r].gen /\ sync'[r].step = "read"
  <1>1. sync'[r] = Calling(rec[r].job)
    BY Cycle DEF RecNotify, SystemInv, TypeOK
  <1>2. sync'[r].step = "read"
    BY <1>1, CallingOK
  <1> QED
    BY <1>2, Cycle DEF RecNotify, SystemInv, TypeOK, RecState

\* A capability job that has its request is failed by SQL first.
LEMMA DecisionTo ==
    ASSUME RecoveryInv, NEW j \in Jobs, Present(j), NEW finish \in BOOLEAN
    PROVE  Decision(j, finish) \in {"decide", "fail", "takeover"} /\ (j \in Capability => Decision(j, finish) # "fail")
  BY DEF Decision, RecoveryInv, Requested

\* Every step of a cycle leads there for its reasons only.
LEMMA CycleSteps ==
    ASSUME SystemInv, RecoveryInv, NEW r \in Reconcilers, Reconcile(r) \/ RecCrash(r)
    PROVE  LeadsTo(r, rec'[r])
  <1> DEFINE j == rec[r].job
             g == rec[r].gen
             x == rec'[r]
  <1>1. /\ rec[r] \in RecState /\ rec[r].finish \in BOOLEAN
        /\ rec[r].pc # "next" => j \in Jobs
        /\ rec[r].pc # "sync" => rec[r].then = "none"
        /\ rec[r].pc \in {"pending", "discard"} => Present(j)
        /\ rec \in [Reconcilers -> RecState]
    BY Cycle DEF CycleOK, RecState, RecoveryInv, FailureIsDecided, SystemInv, TypeOK
  <1>2. ASSUME Step(r, "next") PROVE LeadsTo(r, x)
    BY <1>2, StepTo, LeadsElsewhere DEF Elsewhere
  <1>3. ASSUME Abort(r) PROVE LeadsTo(r, x)
    BY <1>3, AbortTo, LeadsElsewhere
  <1>4. ASSUME rec[r].pc \notin {"next", "sync"}, RecNotify(r, "none") PROVE LeadsTo(r, x)
    BY <1>1, <1>4, NotifyTo, LeadsElsewhere DEF Elsewhere
  <1>5. ASSUME NEW pc, Present(j), rec[r].pc \notin {"next", "sync"}, x.pc = pc, x.job = j,
               pc = Decision(j, TRUE) \/ pc = Decision(j, rec[r].finish)
        PROVE  LeadsTo(r, x)
    <2>1. pc \in {"decide", "fail", "takeover"} /\ (j \in Capability => pc # "fail")
      BY <1>1, <1>5, DecisionTo
    <2> QED
      BY <1>5, <2>1 DEF LeadsTo
  <1>6. CASE BeginCycle(r)
    <2>1. x.pc = "next"
      BY <1>1, <1>6, IdleValues DEF BeginCycle, RecState, IdleRec
    <2> QED
      BY <2>1, LeadsElsewhere DEF Elsewhere
  <1>7. CASE NextPhase(r)
    <2>1. rec[r].pc = "next"
      BY <1>7 DEF NextPhase
    <2>2. ASSUME NEW t, NEW p, rec' = [rec EXCEPT ![r].phase = p, ![r].todo = t, ![r].skip = {}]
          PROVE  x.pc = "next"
      BY <1>1, <2>1, <2>2 DEF RecState
    <2>3. ASSUME NEW t, NEW p, rec' = [rec EXCEPT ![r].phase = p, ![r].todo = t, ![r].old = {}]
          PROVE  x.pc = "next"
      BY <1>1, <2>1, <2>3 DEF RecState
    <2>4. Abort(r) \/ x.pc = "next"
      BY <1>7, <2>2, <2>3 DEF NextPhase
    <2> QED
      BY <1>3, <2>4, LeadsElsewhere DEF Elsewhere
  <1>8. CASE NextItem(r)
    <2>1. x.pc \in {"recover", "sync", "stale"} /\ x.then = "none"
      <3>1. rec[r].phase # "idle"
        BY <1>8, Cycle DEF NextItem, CycleOK
      <3>2. rec[r].phase \in {"recoveries", "callbacks", "stale"} /\ rec[r].then = "none"
        BY <1>1, <1>8, <3>1 DEF NextItem, RecState
      <3> QED
        BY <1>1, <1>8, <3>2 DEF NextItem, RecState
    <2> QED
      BY <2>1, LeadsElsewhere DEF Elsewhere
  <1>9. CASE Recover(r)
    <2>1. rec[r].pc = "recover" /\ j \in Jobs /\ job[j].synced \in Nat /\ job[j].rev \in Nat
      BY <1>1, <1>9, Fields DEF Recover
    <2>2. CASE Step(r, "next")
      BY <1>2, <2>2
    <2>3. CASE /\ ~Fenced(j, g)
               /\ rec' = [rec EXCEPT ![r].pc = Decision(j, TRUE), ![r].seen = job[j].status,
                                     ![r].err = "final", ![r].finish = TRUE]
      <3>1. x.pc = Decision(j, TRUE) /\ x.job = j /\ Present(j)
        BY <1>1, <2>3 DEF RecState, Fenced
      <3> QED
        BY <1>5, <2>1, <3>1
    <2>4. CASE ~Fenced(j, g) /\ RecNotify(r, "enqueue")
      <3>1. x.pc = "sync" /\ x.job = j /\ x.gen = g /\ sync'[r].step = "read"
        BY <2>1, <2>4, NotifyTo
      <3> QED
        BY <2>1, <2>4, <3>1 DEF LeadsTo, Fenced
    <2>5. CASE ~Fenced(j, g) /\ ~(job[j].synced < job[j].rev) /\ Step(r, "enqueue")
      <3>1. x.pc = "enqueue" /\ x.job = j /\ x.gen = g
        BY <2>5, StepTo
      <3>2. job[j].synced >= job[j].rev
        BY <2>1, <2>5
      <3> QED
        BY <2>1, <2>5, <3>1, <3>2 DEF LeadsTo, Fenced
    <2> QED
      BY <1>9, <2>2, <2>3, <2>4, <2>5 DEF Recover
  <1>10. CASE RecEnqueue(r) \/ RecClose(r) \/ RecUndecided(r) \/ TakeOver(r)
    <2>1. Step(r, "next") \/ Abort(r) \/ Step(r, "close") \/ Step(r, "reread")
      BY <1>10 DEF RecEnqueue, RecClose, RecUndecided, TakeOver
    <2>2. CASE Step(r, "close") \/ Step(r, "reread")
      BY <2>2, StepTo, LeadsElsewhere DEF Elsewhere
    <2> QED
      BY <1>2, <1>3, <2>1, <2>2
  <1>11. CASE ReadStale(r)
    <2>1. CASE Step(r, "next")
      BY <1>2, <2>1
    <2>2. CASE ~Step(r, "next")
      <3>1. x.pc = "pending" /\ x.job = j /\ Present(j) /\ j \in Jobs
        BY <1>1, <1>11, <2>2 DEF ReadStale, RecState
      <3> QED
        BY <3>1 DEF LeadsTo
    <2> QED
      BY <2>1, <2>2
  <1>12. CASE ReadPending(r)
    <2>1. rec[r].pc = "pending" /\ Present(j) /\ j \in Jobs
      BY <1>1, <1>12 DEF ReadPending
    <2>2. CASE Step(r, "next")
      BY <1>2, <2>2
    <2>3. CASE Step(r, Decision(j, rec[r].finish))
      <3>1. Decision(j, rec[r].finish) # "next"
        BY <1>1, <2>1, DecisionTo
      <3>2. x.pc = Decision(j, rec[r].finish) /\ x.job = j
        BY <2>3, <3>1, StepTo
      <3> QED
        BY <1>5, <2>1, <3>2
    <2>4. CASE rec' = [rec EXCEPT ![r].pc = "discard", ![r].other = recovery[j]]
      <3>1. x.pc = "discard" /\ x.job = j
        BY <1>1, <2>4 DEF RecState
      <3> QED
        BY <2>1, <3>1 DEF LeadsTo
    <2> QED
      BY <1>12, <2>2, <2>3, <2>4 DEF ReadPending
  <1>13. CASE DiscardOther(r)
    <2>1. rec[r].pc = "discard" /\ Present(j) /\ j \in Jobs
      BY <1>1, <1>13 DEF DiscardOther
    <2>2. x.pc = Decision(j, rec[r].finish) /\ x.job = j
      BY <1>1, <1>13 DEF DiscardOther, RecState
    <2> QED
      BY <1>5, <2>1, <2>2
  <1>14. CASE RecDecide(r)
    <2>1. rec[r].pc = "decide" /\ j \in Jobs /\ outcome[j] \in Outcomes /\ outcome \in [Jobs -> Outcomes]
      BY <1>1, <1>14 DEF RecDecide, SystemInv, TypeOK
    <2>2. CASE Step(r, "restore") \/ Step(r, "takeover") \/ Step(r, "next")
      BY <2>2, StepTo, LeadsElsewhere DEF Elsewhere
    <2>3. CASE /\ outcome[j].status = "failed" \/ (rec[r].finish /\ DecidesFailure(j, g))
               /\ outcome' = Failed(j) /\ Step(r, "fail")
      <3>1. x.pc = "fail" /\ x.job = j
        BY <2>3, StepTo
      <3>2. outcome[j].status \in {"open", "failed"}
        BY <2>1, <2>3 DEF DecidesFailure, Outcomes
      <3>3. outcome'[j] = IF outcome[j].status = "open" THEN [status |-> "failed", gen |-> 0] ELSE outcome[j]
        BY <2>1, <2>3 DEF Failed
      <3>4. outcome'[j].status = "failed"
        BY <3>2, <3>3
      <3> QED
        BY <3>1, <3>4 DEF LeadsTo
    <2> QED
      BY <1>14, <2>2, <2>3 DEF RecDecide
  <1>15. CASE RecRestore(r)
    <2>1. rec[r].pc = "restore"
      BY <1>15 DEF RecRestore
    <2>2. CASE rec' = [rec EXCEPT ![r].seen = "running"]
      <3>1. x.pc = "restore"
        BY <1>1, <2>1, <2>2 DEF RecState
      <3> QED
        BY <3>1, LeadsElsewhere DEF Elsewhere
    <2> QED
      BY <1>2, <1>3, <1>4, <1>15, <2>1, <2>2 DEF RecRestore
  <1>16. CASE RecFail(r)
    BY <1>2, <1>3, <1>4, <1>16 DEF RecFail
  <1>17. CASE RereadPending(r)
    <2>1. CASE Step(r, "next")
      BY <1>2, <2>1
    <2>2. CASE ~Step(r, "next")
      <3>1. x.pc = "recover"
        BY <1>1, <1>17, <2>2 DEF RereadPending, RecState
      <3> QED
        BY <3>1, LeadsElsewhere DEF Elsewhere
    <2> QED
      BY <2>1, <2>2
  <1>18. CASE RecCrash(r)
    BY <1>3, <1>18 DEF RecCrash
  <1> QED
    BY <1>6, <1>7, <1>8, <1>9, <1>10, <1>11, <1>12, <1>13, <1>14, <1>15, <1>16, <1>17, <1>18 DEF Reconcile

\* A reconciler stands still, takes a step of its own, or its callback does.
LEMMA CycleCases ==
    ASSUME SystemInv, [Next]_vars, NEW r \in Reconcilers
    PROVE  \/ rec'[r] = rec[r] /\ sync'[r] = sync[r]
           \/ (Reconcile(r) \/ RecCrash(r)) /\ UNCHANGED db
           \/ Sync(r)
  <1>1. CASE UNCHANGED vars
    BY <1>1 DEF vars, systemVars
  <1>2. CASE (\E j \in Jobs : SubmissionMoves(j)) \/ TickMoves
    BY <1>2 DEF SubmissionMoves, TickMoves
  <1>3. CASE \E w \in Workers : WorkerMoves(w)
    <2> PICK w \in Workers : WorkerMoves(w)
      BY <1>3
    <2>1. r \in Callers \ {w}
      BY SystemAssumption DEF Callers
    <2> QED
      BY <2>1 DEF WorkerMoves, SlotMoves
  <1>4. CASE \E q \in Reconcilers : (Reconcile(q) \/ RecCrash(q)) /\ RecMoves(q)
    <2> PICK q \in Reconcilers : (Reconcile(q) \/ RecCrash(q)) /\ RecMoves(q)
      BY <1>4
    <2>1. q # r => r \in Reconcilers \ {q} /\ r \in Callers \ {q}
      BY DEF Callers
    <2> QED
      BY <2>1 DEF RecMoves, CycleMoves
  <1>5. CASE \E q \in Callers : Sync(q) /\ CallMoves(q)
    <2> PICK q \in Callers : Sync(q) /\ CallMoves(q)
      BY <1>5
    <2>1. CASE q # r
      <3>1. sync'[r] = sync[r]
        BY <2>1, Cycle DEF CallMoves, EventMoves
      <3>2. rec'[r] = rec[r]
        BY <2>1 DEF Sync, SyncRead, SyncDelivered, SyncFailed, SyncMark, Return
      <3> QED
        BY <3>1, <3>2
    <2> QED
      BY <2>1
  <1>6. ASSUME NEW q \in Reconcilers, RecMoves(q) PROVE UNCHANGED db
    BY <1>6 DEF RecMoves
  <1> QED
    BY <1>1, <1>2, <1>3, <1>4, <1>5, <1>6, StepMoves

\* A callback that has returned True lets the cycle go on; any other ends the item.
LEMMA ReturnTo ==
    ASSUME SystemInv, NEW r \in Reconcilers, NEW ok \in BOOLEAN, Return(r, ok)
    PROVE  \/ /\ ok /\ rec[r].then = "enqueue" /\ rec'[r].pc = "enqueue"
              /\ rec'[r].job = rec[r].job /\ rec'[r].gen = rec[r].gen
           \/ rec'[r].pc = "next"
  BY Cycle, BetweenOK, ZenonT(60) DEF Return, RecState

\* A snapshot whose callbacks have caught up is the one the row has.
LEMMA CaughtUp ==
    ASSUME SystemInv, RecoveryInv, Delivered, NEW j \in Jobs, Present(j), job[j].synced >= job[j].rev
    PROVE  job[j].gen <= db[j].gen
  <1>1. job[j].synced <= db[j].rev
    BY DEF Delivered, AcknowledgedIsDelivered
  <1>2. job[j].rev # 0 /\ Known(j) /\ job[j].rev \in Nat /\ job[j].synced \in Nat /\ db[j].rev \in Nat
        /\ job[j].gen \in Nat
    BY Fields DEF RecoveryInv
  <1> QED
    BY <1>1, <1>2 DEF Known, Behind

\* A reconciler offers a generation only after its callback has been acknowledged.
LEMMA PushStays ==
    ASSUME SystemInv, RecoveryInv, Delivered, [Next]_vars, Kept, NEW r \in Reconcilers
    PROVE  PushIsKnown(r)'
  <1> DEFINE j == rec[r].job
             x == rec'[r]
             s == sync'[r]
             PushOK == /\ x.pc = "enqueue" => x.gen <= db'[x.job].gen
                       /\ x.pc = "sync" /\ x.then = "enqueue" =>
                             /\ job'[x.job].status # "absent" /\ x.gen <= job'[x.job].gen
                             /\ Sent(r)' => x.gen <= s.gen
  <1> SUFFICES PushOK
    BY DEF PushIsKnown, Present
  <1>1. /\ rec[r].pc # "next" => j \in Jobs
        /\ rec[r].gen \in Nat /\ PushIsKnown(r)
        /\ sync[r].step # "none" => rec[r].pc = "sync" /\ sync[r].job = j
        /\ r \in Callers
    BY Cycle, Bounds DEF CycleOK, RecState, RecoveryInv
  <1>2. CASE x = rec[r] /\ s = sync[r]
    <2>1. x.pc = "enqueue" => x.gen <= db'[x.job].gen
      BY <1>1, <1>2, RowGenerations DEF PushIsKnown
    <2>2. ASSUME x.pc = "sync", x.then = "enqueue"
          PROVE  job'[x.job].status # "absent" /\ x.gen <= job'[x.job].gen /\ (Sent(r)' => x.gen <= s.gen)
      <3>1. j \in Jobs /\ Present(j) /\ rec[r].gen <= job[j].gen /\ (Sent(r) => rec[r].gen <= sync[r].gen)
        BY <1>1, <1>2, <2>2 DEF PushIsKnown
      <3>2. Advances(j) /\ SystemInv'
        BY <3>1, SnapshotAdvances, NextKeepsInv
      <3>3. job[j].gen \in Nat /\ job'[j] \in JobState
        BY <3>1, <3>2, Fields DEF SystemInv, TypeOK, StoreTypeOK
      <3>4. job'[j].gen \in Nat
        BY <3>3, Bounds DEF JobState
      <3> QED
        BY <1>1, <1>2, <3>1, <3>2, <3>3, <3>4 DEF Advances, Sent, Present
    <2> QED
      BY <2>1, <2>2
  <1>3. CASE (Reconcile(r) \/ RecCrash(r)) /\ UNCHANGED db
    <2>1. LeadsTo(r, x)
      BY <1>3, CycleSteps
    <2>2. x.pc = "enqueue" => x.gen <= db'[x.job].gen
      BY <1>3, <2>1, CaughtUp DEF LeadsTo
    <2>3. ASSUME x.pc = "sync", x.then = "enqueue"
          PROVE  job'[x.job].status # "absent" /\ x.gen <= job'[x.job].gen /\ (Sent(r)' => x.gen <= s.gen)
      <3>1. x.job \in Jobs /\ Present(x.job) /\ x.gen = job[x.job].gen /\ s.step = "read"
        BY <2>1, <2>3 DEF LeadsTo
      <3> PICK i \in Jobs : i = x.job
        BY <3>1
      <3>2. Advances(i)
        BY <3>1, SnapshotAdvances
      <3> QED
        BY <3>1, <3>2 DEF Advances, Sent, Present
    <2> QED
      BY <2>2, <2>3
  <1>4. CASE Sync(r)
    <2>1. j \in Jobs /\ sync[r].job = j /\ rec[r].pc = "sync"
      BY <1>1, <1>4 DEF Sync, SyncRead, SyncDelivered, SyncFailed, SyncMark
    <2>2. ASSUME NEW ok \in BOOLEAN, Return(r, ok), ok /\ rec[r].then = "enqueue" => rec[r].gen <= db'[j].gen
          PROVE  PushOK
      BY <2>2, ReturnTo
    <2>3. CASE SyncRead(r) /\ ~Present(j)
      BY <2>1, <2>2, <2>3 DEF SyncRead
    <2>4. CASE SyncRead(r) /\ Present(j) /\ job[j].synced >= job[j].rev
      <3>1. UNCHANGED db /\ job[j].synced \in Nat /\ job[j].rev \in Nat
        BY <2>1, <2>4, Fields DEF SyncRead
      <3>2. Return(r, TRUE)
        <4>1. ~(job[j].synced < job[j].rev)
          BY <2>4, <3>1
        <4> QED
          BY <2>1, <2>4, <4>1 DEF SyncRead
      <3>3. rec[r].then = "enqueue" => rec[r].gen <= db'[j].gen
        <4>1. job[j].gen <= db[j].gen /\ job[j].gen \in Nat /\ db[j].gen \in Nat
          BY <2>1, <2>4, CaughtUp, Fields
        <4> QED
          BY <1>1, <2>1, <3>1, <4>1 DEF PushIsKnown
      <3> QED
        BY <2>2, <3>2, <3>3
    <2>5. CASE SyncRead(r) /\ Present(j) /\ job[j].synced < job[j].rev
      <3>1. x = rec[r] /\ s.gen = job[j].gen /\ UNCHANGED job
        <4>1. job[j].synced \in Nat /\ job[j].rev \in Nat
          BY <2>1, Fields
        <4>2. ~(job[j].synced >= job[j].rev)
          BY <2>5, <4>1
        <4>3. /\ UNCHANGED <<job, rec>>
              /\ sync' = [sync EXCEPT ![r] = [step |-> "send", job |-> j, rev |-> job[j].rev, gen |-> job[j].gen,
                                             attempt |-> job[j].attempt, status |-> job[j].status]]
          BY <2>1, <2>5, <4>2 DEF SyncRead, storeVars
        <4> QED
          BY <1>1, <4>3 DEF SystemInv, TypeOK
      <3> QED
        BY <1>1, <2>1, <2>5, <3>1 DEF PushIsKnown, Present
    <2>6. CASE SyncDelivered(r)
      <3>1. x = rec[r] /\ s.gen = sync[r].gen /\ UNCHANGED job /\ Sent(r)
        BY <1>1, <2>6, Fields DEF SyncDelivered, SystemInv, TypeOK, SyncState, storeVars, Sent
      <3> QED
        BY <1>1, <2>1, <3>1 DEF PushIsKnown, Present
    <2>7. CASE SyncFailed(r)
      BY <2>2, <2>7 DEF SyncFailed
    <2>8. CASE SyncMark(r)
      <3>1. sync[r].step = "mark" /\ UNCHANGED db
        BY <2>8 DEF SyncMark
      <3>2. rec[r].then = "enqueue" => rec[r].gen <= db'[j].gen
        <4>1. sync[r].rev <= db[j].rev /\ Sent(r)
          BY <1>1, <2>1, <3>1 DEF Delivered, Sent
        <4>2. sync[r].gen <= db[j].gen
          BY <1>1, <2>1, <4>1 DEF RecoveryInv, AgreesWithRow
        <4>3. sync[r].gen \in Nat /\ db[j].gen \in Nat
          BY <1>1, <2>1, Fields
        <4> QED
          BY <1>1, <2>1, <3>1, <4>1, <4>2, <4>3 DEF PushIsKnown
      <3>3. \E ok \in BOOLEAN : Return(r, ok)
        BY <2>8 DEF SyncMark
      <3> QED
        BY <2>2, <3>2, <3>3
    <2> QED
      <3>1. job[j].synced \in Nat /\ job[j].rev \in Nat
        BY <2>1, Fields
      <3>2. (job[j].synced >= job[j].rev) \/ (job[j].synced < job[j].rev)
        BY <3>1
      <3> QED
        BY <1>4, <2>3, <2>4, <2>5, <2>6, <2>7, <2>8, <3>2 DEF Sync
  <1> QED
    BY <1>2, <1>3, <1>4, CycleCases

-----------------------------------------------------------------------------
(* How SQL and Redis agree on the end of a capability job.                   *)

\* A reconciler fails a capability job only after SQL has failed it.
LEMMA FailureStays ==
    ASSUME SystemInv, RecoveryInv, [Next]_vars, Kept, NEW r \in Reconcilers
    PROVE  FailureIsDecided(r)'
  <1> DEFINE x == rec'[r]
             FailOK == /\ x.pc \in {"pending", "discard"} => job'[x.job].status # "absent"
                       /\ x.pc = "fail" /\ x.job \in Capability => outcome'[x.job].status = "failed"
  <1> SUFFICES FailOK
    BY DEF FailureIsDecided, Present
  <1>1. FailureIsDecided(r) /\ OutcomeMoves /\ (rec[r].pc # "next" => rec[r].job \in Jobs)
        /\ (sync[r].step # "none" => rec[r].pc = "sync")
    BY StepShared, Cycle DEF RecoveryInv, CycleOK
  <1>2. CASE x = rec[r]
    <2>1. x.pc \in {"pending", "discard"} => job'[x.job].status # "absent"
      BY <1>1, <1>2 DEF FailureIsDecided, Kept, Present
    <2>2. x.pc = "fail" /\ x.job \in Capability => outcome'[x.job].status = "failed"
      BY <1>1, <1>2, DecidedStays DEF FailureIsDecided
    <2> QED
      BY <2>1, <2>2
  <1>3. CASE Reconcile(r) \/ RecCrash(r)
    <2>1. LeadsTo(r, x)
      BY <1>3, CycleSteps
    <2> QED
      BY <2>1 DEF LeadsTo, Kept, Present
  <1>4. CASE Sync(r)
    <2>1. ASSUME NEW ok \in BOOLEAN, Return(r, ok) PROVE FailOK
      BY <2>1, ReturnTo
    <2>2. CASE UNCHANGED rec
      BY <1>2, <2>2
    <2> QED
      BY <1>4, <2>1, <2>2 DEF Sync, SyncRead, SyncDelivered, SyncFailed, SyncMark
  <1> QED
    BY <1>2, <1>3, <1>4, CycleCases

\* Redis shows no end of a capability job but SQL's.
LEMMA OutcomesAgree ==
    ASSUME SystemInv, RecoveryInv, [Next]_vars, Kept
    PROVE  CapabilityOutcomeAgrees'
  <1> SUFFICES ASSUME NEW j \in Capability, Terminal(j)' PROVE job'[j].status = outcome'[j].status
    BY DEF CapabilityOutcomeAgrees
  <1>1. /\ j \in Jobs /\ SnapshotMoves(j) /\ OutcomeMoves /\ job[j] \in JobState
        /\ Terminal(j) => job[j].status = outcome[j].status
    BY StepShared, SystemAssumption, Fields DEF StoreMoves, RecoveryInv, CapabilityOutcomeAgrees
  <1>2. CASE job'[j].status = job[j].status
    BY <1>1, <1>2, DecidedStays DEF Terminal
  <1>3. CASE job'[j] = Missing \/ Registered(j)
    BY <1>3 DEF Missing, Registered, Terminal
  <1>4. CASE Moved(j)
    <2>1. CASE job'[j].status = "succeeded"
      BY <1>1, <1>4, <2>1, DecidedStays DEF Moved
    <2>2. CASE job'[j].status = "failed"
      <3>1. MayFail(j) /\ request[j] # NoRequest
        BY <1>1, <1>4, <2>2 DEF Moved, RecoveryInv, Requested
      <3>2. outcome[j].status = "failed"
        BY <3>1 DEF MayFail, RecoveryInv, FailureIsDecided
      <3> QED
        BY <1>1, <2>2, <3>2, DecidedStays
    <2> QED
      BY <2>1, <2>2 DEF Terminal
  <1>5. CASE Marked(j)
    <2>1. job'[j].status = job[j].status
      BY <1>1, <1>5 DEF Marked, JobState
    <2> QED
      BY <1>2, <2>1
  <1> QED
    BY <1>1, <1>2, <1>3, <1>4, <1>5 DEF SnapshotMoves

-----------------------------------------------------------------------------
(* The theorems.                                                             *)

\* Nothing is known and nothing is offered at first.
LEMMA RecoveryInit == Init => RecoveryInv
  <1> SUFFICES ASSUME Init PROVE RecoveryInv
    OBVIOUS
  <1>1. ASSUME NEW j \in Jobs PROVE Known(j) /\ OfferedIsKnown(j) /\ Requested(j)
    <2>1. Known(j)
      BY DEF Init, Known
    <2>2. OfferedIsKnown(j)
      BY DEF Init, OfferedIsKnown, NoDispatch
    <2>3. Requested(j)
      BY DEF Init, StoreInit, Requested, Present, Missing
    <2> QED
      BY <2>1, <2>2, <2>3
  <1>2. \A p \in Callers : ~Sent(p)
    BY DEF Init, Sent, NoSync
  <1>3. ASSUME NEW r \in Reconcilers PROVE PushIsKnown(r) /\ FailureIsDecided(r)
    BY DEF Init, PushIsKnown, FailureIsDecided, IdleRec
  <1>4. CapabilityOutcomeAgrees
    BY SystemAssumption DEF Init, StoreInit, CapabilityOutcomeAgrees, Terminal, Missing
  <1> QED
    BY <1>1, <1>2, <1>3, <1>4 DEF RecoveryInv, Told, AgreesWithRow, InOrder

\* Every step keeps what recovery rests on.
LEMMA RecoveryStays == SystemInv /\ Delivered /\ RecoveryInv /\ [Next]_vars /\ Kept => RecoveryInv'
  <1> SUFFICES ASSUME SystemInv, Delivered, RecoveryInv, [Next]_vars, Kept PROVE RecoveryInv'
    OBVIOUS
  <1>1. \A j \in Jobs : Known(j)' /\ OfferedIsKnown(j)' /\ Requested(j)'
    BY KnownStays, OfferedStays, RequestedStays
  <1>2. \A p \in Callers : Told(p)' /\ AgreesWithRow(p)'
    BY ToldStays, AgreementStays
  <1>3. \A p, q \in Callers : InOrder(p, q)'
    BY OrderStays
  <1>4. \A r \in Reconcilers : PushIsKnown(r)' /\ FailureIsDecided(r)'
    BY PushStays, FailureStays
  <1> QED
    BY <1>1, <1>2, <1>3, <1>4, OutcomesAgree DEF RecoveryInv

\* A step that changes nothing loses no key.
LEMMA KeysKept == [Kept]_vars => Kept
  BY DEF Kept, vars, storeVars, Present

\* What recovery rests on holds while the keys last.
THEOREM RecoveryInvariant == Spec /\ KeysLast => []RecoveryInv
  <1>1. SystemInv /\ Delivered /\ RecoveryInv /\ [Next]_vars /\ [Kept]_vars => RecoveryInv'
    BY RecoveryStays, KeysKept
  <1> QED
    BY <1>1, RecoveryInit, SystemInvariant, DeliveredInvariant, PTL DEF Spec, KeysLast

\* The recovery barrier: a worker is offered a generation after the first only when the
\* database has heard of it, however reconcilers overlap, crash and lose their answers.
THEOREM BarrierHolds == Spec /\ KeysLast => []RecoveryBarrier
  <1>1. RecoveryInv /\ SystemInv => RecoveryBarrier
    <2> SUFFICES ASSUME RecoveryInv, SystemInv, NEW j \in Jobs, NEW g \in Gens, arq[j][g].state # "absent"
                 PROVE  db[j].gen >= g
      BY DEF RecoveryBarrier
    <2>1. g <= db[j].gen /\ g \in Nat /\ db[j].gen \in Nat
      BY Fields, Bounds DEF RecoveryInv, OfferedIsKnown, Gens
    <2> QED
      BY <2>1
  <1> QED
    BY <1>1, RecoveryInvariant, SystemInvariant, PTL

\* Redis never shows a capability task an end that SQL has not decided.
THEOREM CapabilityEndsAgree == Spec /\ KeysLast => []CapabilityOutcomeAgrees
  <1>1. RecoveryInv => CapabilityOutcomeAgrees
    BY DEF RecoveryInv
  <1> QED
    BY <1>1, RecoveryInvariant, PTL

\* SQL accepts no result of a run whose successor has been offered to a worker.
THEOREM SupersededCannotPublish == Spec /\ KeysLast => NoSupersededResult
  <1> DEFINE A == \A j \in Jobs : outcome'[j].gen # outcome[j].gen =>
                    \A g \in Gens : g > outcome'[j].gen => arq[j][g].state = "absent"
  <1>1. RecoveryInv /\ SystemInv /\ [Next]_vars => [A]_vars
    <2> SUFFICES ASSUME RecoveryInv, SystemInv, [Next]_vars, NEW j \in Jobs,
                        outcome'[j].gen # outcome[j].gen, NEW g \in Gens, g > outcome'[j].gen
                 PROVE  arq[j][g].state = "absent"
      OBVIOUS
    <2>1. outcome'[j].gen = db[j].gen
      <3>1. OutcomeMoves /\ OutcomeOK(j) /\ outcome[j] \in Outcomes
        BY StepShared DEF SystemInv, TypeOK
      <3>2. outcome[j].status = "open" /\ outcome[j].gen = 0
        BY <3>1 DEF OutcomeMoves, OutcomeOK
      <3> QED
        BY <3>1, <3>2 DEF OutcomeMoves
    <2>2. g \in Nat /\ db[j].gen \in Nat
      BY Fields, Bounds DEF Gens
    <2> QED
      BY <2>1, <2>2 DEF RecoveryInv, OfferedIsKnown
  <1> QED
    BY <1>1, RecoveryInvariant, SystemInvariant, PTL DEF Spec, NoSupersededResult

\* The row of a finished task keeps its status, in whatever order callbacks arrive.
THEOREM FinishedRowsStay == Spec /\ KeysLast => DatabaseOutcomeIsFinal
  <1> DEFINE A == \A j \in Jobs : db[j].status \in {"succeeded", "failed"} => db'[j].status = db[j].status
  <1>1. RecoveryInv /\ SystemInv /\ [Next]_vars => [A]_vars
    <2> SUFFICES ASSUME RecoveryInv, SystemInv, [Next]_vars, NEW j \in Jobs,
                        db[j].status \in {"succeeded", "failed"}
                 PROVE  db'[j].status = db[j].status
      OBVIOUS
    <2>1. Behind(db[j], j) /\ db[j].rev = job[j].rev /\ job[j].rev \in Nat
      BY Fields DEF RecoveryInv, Known, Behind, Final
    <2>2. ASSUME NEW p \in Callers, Sent(p), sync[p].job = j, sync[p].rev > db[j].rev PROVE FALSE
      BY <2>1, <2>2, Fields DEF RecoveryInv, Told, Behind
    <2> QED
      BY <2>2, RowSteps
  <1> QED
    BY <1>1, RecoveryInvariant, SystemInvariant, PTL DEF Spec, DatabaseOutcomeIsFinal

-----------------------------------------------------------------------------
(* Keys whose TTL is beyond the horizon are never lost.                      *)

\* No operation of the store drops a request, and no tick whose TTL is beyond the horizon.
LEMMA RequestLasts ==
    ASSUME StateTTL = 0, SystemInv, [StoreNext]_storeVars, NEW j \in Jobs, request[j] # NoRequest
    PROVE  request'[j] # NoRequest
  <1>1. request \in [Jobs -> NoRequest..StateTTL] /\ NoRequest = -1
    BY DEF SystemInv, TypeOK, StoreTypeOK, NoRequest
  <1>2. CASE UNCHANGED request
    BY <1>2
  <1>3. CASE StoreTick
    <2>1. request'[j] = Down(request[j])
      BY <1>3 DEF StoreTick, LastTick
    <2> QED
      BY <1>1, <2>1 DEF Down
  <1>4. CASE \E i \in Jobs : request' = [request EXCEPT ![i] = StateTTL]
    BY <1>1, <1>4
  <1>5. CASE \E i \in Jobs : request' = [request EXCEPT ![i] = IF @ = NoRequest THEN NoRequest ELSE StateTTL]
    BY <1>1, <1>5
  <1>6. CASE StoreOperation
    <2> PICK i \in Jobs : StoreOperation!(i)
      BY <1>6 DEF StoreOperation
    <2>1. \A k, d, g, r, a, l : RegisterJob(i, k, d, g, r, a, l) => request' = [request EXCEPT ![i] = StateTTL]
      BY DEF RegisterJob
    <2>2. \A g, s, a, p, e : Transition(i, g, s, a, p, e) =>
              request' = [request EXCEPT ![i] = IF @ = NoRequest THEN NoRequest ELSE StateTTL]
      BY DEF Transition
    <2>3. RetryFailed(i) => request' = [request EXCEPT ![i] = IF @ = NoRequest THEN NoRequest ELSE StateTTL]
      BY DEF RetryFailed
    <2>4. /\ \A g : TakeOverStale(i, g) => UNCHANGED request
          /\ \A r : MarkCallbackSynced(i, r) => UNCHANGED request
          /\ \A g, t : AcquireLease(i, g, t) \/ RefreshLease(i, g, t) \/ ReleaseLease(i, g, t) => UNCHANGED request
          /\ DiscardMissingJobIndexes(i) => UNCHANGED request
          /\ \A g : DiscardMissingJobRecovery(i, g) => UNCHANGED request
          /\ \A g : DiscardPendingRecovery(i, g) \/ MarkRecoveryEnqueued(i, g) => UNCHANGED request
      BY DEF TakeOverStale, MarkCallbackSynced, AcquireLease, RefreshLease, ReleaseLease,
             DiscardMissingJobIndexes, DiscardMissingJobRecovery, DiscardPendingRecovery, MarkRecoveryEnqueued
    <2>5. \/ UNCHANGED request
          \/ request' = [request EXCEPT ![i] = StateTTL]
          \/ request' = [request EXCEPT ![i] = IF @ = NoRequest THEN NoRequest ELSE StateTTL]
      <3>1. CASE \E g \in Gens, a \in 0..MaxAttempt :
                    \/ \E s \in {"queued", "running"} : Transition(i, g, s, a, 0, "none")
                    \/ \E p \in Gens : Transition(i, g, "succeeded", a, p, "none")
                    \/ \E e \in {"retryable", "final"} : Transition(i, g, "failed", a, 0, e)
        BY <2>2, <3>1
      <3>2. CASE \E k \in Keys, d \in Digests, g \in Gens, r \in 1..MaxRev, a \in 0..MaxAttempt,
                    l \in 0..Timeout : RegisterJob(i, k, d, g, r, a, l)
        BY <2>1, <3>2
      <3> DEFINE TakesOver == \E g \in Gens : TakeOverStale(i, g)
                 Marks     == \E r \in 1..MaxRev : MarkCallbackSynced(i, r)
                 Leases    == \E g \in Gens, t \in Tokens :
                                 AcquireLease(i, g, t) \/ RefreshLease(i, g, t) \/ ReleaseLease(i, g, t)
                 Discards  == \E g \in Gens : \/ DiscardMissingJobRecovery(i, g)
                                              \/ DiscardPendingRecovery(i, g)
                                              \/ MarkRecoveryEnqueued(i, g)
      <3>3. /\ TakesOver => UNCHANGED request
            /\ Marks => UNCHANGED request
            /\ Leases => UNCHANGED request
            /\ Discards => UNCHANGED request
        <4>1. TakesOver => UNCHANGED request
          BY <2>4
        <4>2. Marks => UNCHANGED request
          BY <2>4
        <4>3. Leases => UNCHANGED request
          BY <2>4
        <4>4. Discards => UNCHANGED request
          BY <2>4
        <4> QED
          BY <4>1, <4>2, <4>3, <4>4
      <3>4. CASE TakesOver \/ RetryFailed(i) \/ Marks \/ Leases \/ DiscardMissingJobIndexes(i) \/ Discards
        <4> HIDE DEF TakesOver, Marks, Leases, Discards
        <4> QED
          BY <2>3, <2>4, <3>3, <3>4
      <3> QED
        BY <3>1, <3>2, <3>4
    <2> QED
      BY <1>2, <1>4, <1>5, <2>5
  <1> QED
    BY <1>2, <1>3, <1>6 DEF StoreNext, storeVars

\* Nor does any drop a snapshot.
LEMMA KeysNeverExpire ==
    ASSUME StateTTL = 0
    PROVE  Spec => KeysLast
  <1>1. SystemInv /\ [Next]_vars => [Kept]_vars
    <2> SUFFICES ASSUME SystemInv, [Next]_vars, NEW j \in Jobs
                 PROVE  /\ Present(j) => Present(j)'
                        /\ request[j] # NoRequest => request'[j] # NoRequest
      BY DEF Kept
    <2>1. SnapshotMoves(j) /\ [StoreNext]_storeVars /\ job[j] \in JobState
      BY StepShared, StepRespectsStore, Fields DEF StoreMoves
    <2>2. Present(j) => Present(j)'
      <3>1. CASE Marked(j)
        BY <2>1, <3>1 DEF Marked, Present, JobState
      <3>2. ~(StateTTL > 0)
        OBVIOUS
      <3> QED
        BY <2>1, <3>1, <3>2 DEF SnapshotMoves, Registered, Moved, Present
    <2> QED
      BY <2>1, <2>2, RequestLasts
  <1> QED
    BY <1>1, SystemInvariant, PTL DEF Spec, KeysLast

\* With a TTL beyond the horizon, which is what the runs check, nothing is assumed of
\* the behaviour.
THEOREM RecoveryIsSound ==
    ASSUME StateTTL = 0
    PROVE  Spec => []RecoveryBarrier /\ []CapabilityOutcomeAgrees /\ NoSupersededResult /\ DatabaseOutcomeIsFinal
  BY KeysNeverExpire, BarrierHolds, CapabilityEndsAgree, SupersededCannotPublish, FinishedRowsStay, PTL

=============================================================================
