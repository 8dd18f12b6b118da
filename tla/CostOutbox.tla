------------------------------ MODULE CostOutbox ------------------------------
(***************************************************************************)
(* The outbox of cost summaries (jobs_v22/cost_persistence.py).  A worker  *)
(* that finishes a job queues the job's summary and synchronises it at     *)
(* once; a cron flushes the oldest entries of the queue.  A job that is    *)
(* retried finishes again and queues a newer summary under the same key.   *)
(* A summary is named by its ledger revision.                              *)
(***************************************************************************)
EXTENDS Naturals, Sequences, FiniteSets, SequencesExt

CONSTANTS
    OutboxJobs,     \* jobs that finish
    Refused,        \* jobs whose summary the database or the validator refuses
    Syncers,        \* coroutines that run CostSummaryOutbox.sync
    Flusher,        \* the one of them that the cron runs (arq's cron runs one at a time)
    FlushLimit,     \* flush(limit=50)
    MaxFinishes,    \* bound: how often a job finishes
    MaxOutages      \* bound: failed persist calls

ASSUME OutboxAssumption ==
    OutboxJobs # {} /\ Flusher \in Syncers /\ FlushLimit \in Nat \ {0}

VARIABLES
    finished,       \* [OutboxJobs -> Nat] ledger revision of the last summary made
    summary,        \* [OutboxJobs -> Nat] the cost_summary key, 0 when absent
    queue,          \* cost_sync_pending in the order of its scores
    syncer,         \* [Syncers -> record] a coroutine inside sync
    flush,          \* the jobs that the running flush has still to visit
    persisted,         \* [OutboxJobs -> Nat] p_ledger_revision of the row in the database
    outages,        \* failed persist calls so far
    raced           \* history: jobs that finished while a sync of them was under way

outboxVars == <<finished, summary, queue, syncer, flush, persisted, outages, raced>>

IdleSyncer == [pc |-> "idle", job |-> CHOOSE j \in OutboxJobs : TRUE, rev |-> 0]

Pending(j) == Contains(queue, j)

\* ZREM: the set holds a job at most once.
Dropped(j) == IF Pending(j) THEN RemoveAt(queue, CHOOSE i \in 1..Len(queue) : queue[i] = j) ELSE queue

OutboxTypeOK ==
    /\ finished \in [OutboxJobs -> 0..MaxFinishes]
    /\ summary \in [OutboxJobs -> 0..MaxFinishes]
    /\ ToSet(queue) \subseteq OutboxJobs /\ Len(queue) = Cardinality(ToSet(queue))
    /\ \A p \in Syncers : /\ syncer[p].pc \in {"idle", "read", "persist", "delete"}
                          /\ syncer[p].job \in OutboxJobs
                          /\ syncer[p].rev \in 0..MaxFinishes
    /\ ToSet(flush) \subseteq OutboxJobs /\ Len(flush) <= FlushLimit
    /\ persisted \in [OutboxJobs -> 0..MaxFinishes]
    /\ outages \in 0..MaxOutages
    /\ raced \subseteq OutboxJobs

OutboxInit ==
    /\ finished = [j \in OutboxJobs |-> 0]
    /\ summary = finished
    /\ queue = <<>>
    /\ syncer = [p \in Syncers |-> IdleSyncer]
    /\ flush = <<>>
    /\ persisted = finished
    /\ outages = 0
    /\ raced = {}

-----------------------------------------------------------------------------
EnterSync(p, j) == syncer' = [syncer EXCEPT ![p] = [pc |-> "read", job |-> j, rev |-> 0]]
LeaveSync(p) == syncer' = [syncer EXCEPT ![p] = IdleSyncer]

\* The worker's job is final: the summary key and the queue entry are set in one
\* transaction, and the worker goes on to synchronise it.  A new score moves the
\* entry to the end.
Enqueue(p, j) ==
    /\ p # Flusher
    /\ syncer[p].pc = "idle"
    /\ finished[j] < MaxFinishes
    /\ finished' = [finished EXCEPT ![j] = @ + 1]
    /\ summary' = [summary EXCEPT ![j] = finished[j] + 1]
    /\ queue' = Append(Dropped(j), j)
    /\ EnterSync(p, j)
    /\ raced' = IF \E q \in Syncers : syncer[q].pc \in {"persist", "delete"} /\ syncer[q].job = j
                THEN raced \cup {j} ELSE raced
    /\ UNCHANGED <<flush, persisted, outages>>

\* Mutant: the entry is dropped before the summary is persisted.
SyncReadDropsEntry(p) ==
    LET j == syncer[p].job IN
    /\ syncer[p].pc = "read"
    /\ queue' = Dropped(j)
    /\ IF summary[j] = 0 \/ j \in Refused THEN LeaveSync(p)
       ELSE syncer' = [syncer EXCEPT ![p].pc = "persist", ![p].rev = summary[j]]
    /\ UNCHANGED <<finished, summary, flush, persisted, outages, raced>>

\* sync reads the key.  Without it only the queue entry is dropped.  A summary
\* that does not validate ends the call, the entry stays.
SyncRead(p) ==
    LET j == syncer[p].job IN
    /\ syncer[p].pc = "read"
    /\ IF summary[j] = 0
       THEN queue' = Dropped(j) /\ LeaveSync(p)
       ELSE /\ UNCHANGED queue
            /\ IF j \in Refused THEN LeaveSync(p)
               ELSE syncer' = [syncer EXCEPT ![p].pc = "persist", ![p].rev = summary[j]]
    /\ UNCHANGED <<finished, summary, flush, persisted, outages, raced>>

\* upsert_v22_job_cost_summary keeps the row of the highest ledger revision.
SyncPersist(p) ==
    LET j == syncer[p].job IN
    /\ syncer[p].pc = "persist"
    /\ persisted' = [persisted EXCEPT ![j] = IF syncer[p].rev > @ THEN syncer[p].rev ELSE @]
    /\ syncer' = [syncer EXCEPT ![p].pc = "delete"]
    /\ UNCHANGED <<finished, summary, queue, flush, outages, raced>>

\* The call is refused for the moment, Redis fails or the process ends: the entry
\* stays for a later flush, and the cron's own round may end here.
SyncFails(p) ==
    /\ syncer[p].pc # "idle"
    /\ outages < MaxOutages
    /\ outages' = outages + 1
    /\ LeaveSync(p)
    /\ flush' \in IF p = Flusher THEN {flush, <<>>} ELSE {flush}
    /\ UNCHANGED <<finished, summary, queue, persisted, raced>>

\* The entry and the key go in one transaction, whatever the key holds by now.
SyncDelete(p) ==
    LET j == syncer[p].job IN
    /\ syncer[p].pc = "delete"
    /\ queue' = Dropped(j)
    /\ summary' = [summary EXCEPT ![j] = 0]
    /\ LeaveSync(p)
    /\ UNCHANGED <<finished, flush, persisted, outages, raced>>

\* Mutant: the newest entries first.
FlushReadNewest ==
    /\ flush = <<>> /\ syncer[Flusher].pc = "idle" /\ queue # <<>>
    /\ flush' = <<Last(queue)>>
    /\ UNCHANGED <<finished, summary, queue, syncer, persisted, outages, raced>>

\* The cron reads the oldest entries, once, and visits them in turn.
FlushRead ==
    /\ flush = <<>> /\ syncer[Flusher].pc = "idle" /\ queue # <<>>
    /\ flush' = SubSeq(queue, 1, IF Len(queue) < FlushLimit THEN Len(queue) ELSE FlushLimit)
    /\ UNCHANGED <<finished, summary, queue, syncer, persisted, outages, raced>>

FlushNext ==
    /\ flush # <<>> /\ syncer[Flusher].pc = "idle"
    /\ EnterSync(Flusher, Head(flush))
    /\ flush' = Tail(flush)
    /\ UNCHANGED <<finished, summary, queue, persisted, outages, raced>>

\* The key's expiry.  The settings keep it longer than any outage, so that only a
\* refused summary lives to see it.
SummaryExpires(j) ==
    /\ summary[j] # 0 /\ j \in Refused
    /\ summary' = [summary EXCEPT ![j] = 0]
    /\ UNCHANGED <<finished, queue, syncer, flush, persisted, outages, raced>>

SyncStep(p) == SyncRead(p) \/ SyncPersist(p) \/ SyncDelete(p)

OutboxNext ==
    \/ \E p \in Syncers : SyncStep(p) \/ SyncFails(p) \/ \E j \in OutboxJobs : Enqueue(p, j)
    \/ FlushRead \/ FlushNext
    \/ \E j \in OutboxJobs : SummaryExpires(j)

\* A coroutine goes on and the cron runs again and again.  Nothing is assumed of
\* the workers that queue summaries, or of the expiry.
OutboxFairness ==
    /\ \A p \in Syncers : WF_outboxVars(SyncStep(p))
    /\ WF_outboxVars(FlushRead) /\ WF_outboxVars(FlushNext)

OutboxSpec == OutboxInit /\ [][OutboxNext]_outboxVars /\ OutboxFairness

-----------------------------------------------------------------------------
(* Properties *)

\* The newest summary of a job is in the queue or in the database: the delete at
\* the end of sync does not compare, so it can drop a newer summary, but only if
\* the job finished again while an older summary of it was on its way.
SummaryLossNeedsARace ==
    \A j \in OutboxJobs \ (raced \cup Refused) :
        finished[j] # 0 => persisted[j] = finished[j] \/ (summary[j] = finished[j] /\ Pending(j))

\* Every summary that is accepted arrives, even behind entries that are refused,
\* as long as these do not fill a whole flush.
SummariesArrive ==
    \A j \in OutboxJobs \ Refused :
        finished[j] # 0 ~> persisted[j] = finished[j] \/ j \in raced
=============================================================================
