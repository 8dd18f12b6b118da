--------------------------- MODULE ServiceDiscovery ---------------------------
(***************************************************************************)
(* The competitor discovery that a first service reserves                  *)
(* (first_service_discovery_worker).  A row of the database authorises it: *)
(* the cron dispatches it once, an execution claims it under a lease and   *)
(* runs the ordinary discovery in a namespace of its own, and the row      *)
(* records the result.  Redis, with the discovery's state and ledger, can  *)
(* lose either.  Attempts are bounded by the row, never by Redis.          *)
(***************************************************************************)
EXTENDS Naturals

CONSTANTS
    Discoverers,    \* executions that may overlap
    ServiceTries,   \* attempts of the row: 3
    ServiceBudget   \* requests that the cost ledger allows

ASSUME ServiceAssumption == ServiceTries \in Nat \ {0} /\ ServiceBudget \in Nat

VARIABLES
    work,           \* the row: [status, dispatched, tries, lease, expired]
    found,          \* the state in Redis: [status, tries]
    serviceLedger,  \* [exists, claims]
    serviceRun,     \* [Discoverers -> [pc, lease, most]]
    serviceQueue,   \* attempts that are queued
    serviceSpent    \* requests that were made

serviceVars == <<work, found, serviceLedger, serviceRun, serviceQueue, serviceSpent>>

NoDiscovery == [status |-> "absent", tries |-> 0]
IdleService == [pc |-> "idle", lease |-> 0, most |-> 0]
FoundTerminal == found.status \in {"succeeded", "failed"}

ServicePcs == {"idle", "ensure", "lease", "run", "collect", "request", "finish"}
ServiceRuns == [pc : ServicePcs, lease : 0..ServiceTries, most : Nat]
WorkRows == [status : {"none", "pending", "recorded", "failed", "expired"}, dispatched : BOOLEAN,
             tries : 0..ServiceTries, lease : 0..ServiceTries, expired : BOOLEAN]
Discoveries == [status : {"absent", "queued", "running", "succeeded", "failed"}, tries : Nat]
ServiceLedgers == [exists : BOOLEAN, claims : 0..ServiceBudget]

ServiceTypeOK ==
    /\ work \in WorkRows /\ found \in Discoveries /\ serviceLedger \in ServiceLedgers
    /\ serviceRun \in [Discoverers -> ServiceRuns]
    /\ serviceQueue \subseteq 1..ServiceTries /\ serviceSpent \in Nat

ServiceInit ==
    /\ work = [status |-> "none", dispatched |-> FALSE, tries |-> 0, lease |-> 0, expired |-> TRUE]
    /\ found = NoDiscovery
    /\ serviceLedger = [exists |-> FALSE, claims |-> 0]
    /\ serviceRun = [w \in Discoverers |-> IdleService]
    /\ serviceQueue = {} /\ serviceSpent = 0

ReserveService ==
    /\ work.status = "none"
    /\ work' = [work EXCEPT !.status = "pending"]
    /\ UNCHANGED <<found, serviceLedger, serviceRun, serviceQueue, serviceSpent>>

\* repository.finish: the row takes the first outcome; a lost answer leaves it to the
\* next round.
RecordOutcome ==
    /\ FoundTerminal
    /\ work' \in {work, IF work.status = "pending"
                        THEN [work EXCEPT !.status = IF found.status = "failed" THEN "failed" ELSE "recorded"] ELSE work}

\* reconcile_one.  The claim of the dispatch is given once: a state that is missing
\* afterwards is never made again.  A state or a result that does not fit the row is
\* left alone.
ReconcileService ==
    /\ work.status = "pending"
    /\ \/ /\ found.status = "absent" /\ ~work.dispatched
          /\ work' = [work EXCEPT !.dispatched = TRUE]
          /\ \/ found' = [status |-> "queued", tries |-> 0] /\ serviceQueue' \in {serviceQueue, serviceQueue \cup {1}}
             \/ UNCHANGED <<found, serviceQueue>>
       \/ /\ found.status # "absent" /\ ~FoundTerminal
          /\ work.tries < ServiceTries /\ work.expired
          /\ serviceQueue' = serviceQueue \cup {work.tries + 1}
          /\ UNCHANGED <<work, found>>
       \/ RecordOutcome /\ UNCHANGED <<found, serviceQueue>>
    /\ UNCHANGED <<serviceLedger, serviceRun, serviceSpent>>

-----------------------------------------------------------------------------
(* execute_v22_first_service_discovery *)

ServiceGoto(w, pc) == serviceRun' = [serviceRun EXCEPT ![w].pc = pc]
HoldsWork(w) == work.status = "pending" /\ work.lease = serviceRun[w].lease /\ ~work.expired

\* The release in the finally: only of the own lease.
Released(w) == IF work.lease = serviceRun[w].lease THEN [work EXCEPT !.expired = TRUE] ELSE work
LeaveService(w) ==
    /\ serviceRun' = [serviceRun EXCEPT ![w] = IdleService]
    /\ work' \in {work, Released(w)}

\* closed, busy and exhausted end the execution; a claim counts an attempt.
ClaimWork(w) ==
    /\ serviceRun[w].pc = "idle" /\ serviceQueue # {}
    /\ \E attempt \in serviceQueue : serviceQueue' = serviceQueue \ {attempt}
    /\ IF work.status = "pending" /\ work.expired /\ work.tries < ServiceTries
       THEN /\ work' = [work EXCEPT !.tries = @ + 1, !.lease = work.tries + 1, !.expired = FALSE]
            /\ \/ serviceRun' = [serviceRun EXCEPT ![w] = [pc |-> "ensure", lease |-> work.tries + 1, most |-> 0]]
               \/ UNCHANGED serviceRun
       ELSE UNCHANGED <<work, serviceRun>>
    /\ UNCHANGED <<found, serviceLedger, serviceSpent>>

\* "Never replenish a lost provider budget on takeover."
EnsureWork(w) ==
    /\ serviceRun[w].pc = "ensure"
    /\ IF found.status = "absent" \/ FoundTerminal
          \/ (~serviceLedger.exists /\ (serviceRun[w].lease > 1 \/ found.tries > 0))
       THEN LeaveService(w) /\ UNCHANGED serviceLedger
       ELSE /\ serviceLedger' = [serviceLedger EXCEPT !.exists = TRUE, !.claims = IF serviceLedger.exists THEN @ ELSE 0]
            /\ serviceRun' = [serviceRun EXCEPT ![w].pc = "lease", ![w].most = found.tries + ServiceTries + 1 - serviceRun[w].lease]
            /\ UNCHANGED work
    /\ UNCHANGED <<found, serviceQueue, serviceSpent>>

\* The lease is looked at before the discovery starts.
CheckLease(w) ==
    /\ serviceRun[w].pc = "lease"
    /\ IF HoldsWork(w) THEN ServiceGoto(w, "run") /\ UNCHANGED work ELSE LeaveService(w)
    /\ UNCHANGED <<found, serviceLedger, serviceQueue, serviceSpent>>

\* execute_v22_competitor_discovery with generation 1 and the attempts that are left:
\* a state that is gone or terminal ends it, too many attempts fail it.
StartWork(w) ==
    /\ serviceRun[w].pc = "run"
    /\ CASE found.status = "absent" \/ FoundTerminal -> LeaveService(w) /\ UNCHANGED found
         [] found.status \in {"queued", "running"} /\ found.tries >= serviceRun[w].most ->
                found' = [found EXCEPT !.status = "failed"] /\ ServiceGoto(w, "finish") /\ UNCHANGED work
         [] OTHER -> found' = [status |-> "running", tries |-> found.tries + 1] /\ ServiceGoto(w, "collect") /\ UNCHANGED work
    /\ UNCHANGED <<serviceLedger, serviceQueue, serviceSpent>>

\* The ledger must be there for every claim; without it the run is retried later.
ClaimWorkRequest(w) ==
    /\ serviceRun[w].pc = "collect"
    /\ IF serviceLedger.exists /\ serviceLedger.claims < ServiceBudget
       THEN /\ serviceLedger' = [serviceLedger EXCEPT !.claims = @ + 1]
            /\ ServiceGoto(w, "request") /\ UNCHANGED work
       ELSE LeaveService(w) /\ UNCHANGED serviceLedger
    /\ UNCHANGED <<found, serviceQueue, serviceSpent>>

\* The answer: another request, the end of the discovery, or a Retry.
MakeWorkRequest(w) ==
    /\ serviceRun[w].pc = "request"
    /\ serviceSpent' = serviceSpent + 1
    /\ \/ ServiceGoto(w, "collect") /\ UNCHANGED <<work, found>>
       \/ \E status \in {"succeeded", "failed"} :
             /\ found' = IF found.status = "running" THEN [found EXCEPT !.status = status] ELSE found
             /\ ServiceGoto(w, "finish") /\ UNCHANGED work
       \/ LeaveService(w) /\ UNCHANGED found
    /\ UNCHANGED <<serviceLedger, serviceQueue>>

\* With the lease still held the outcome goes to the row; the cron records it otherwise.
FinishWork(w) ==
    /\ serviceRun[w].pc = "finish"
    /\ \/ /\ HoldsWork(w) /\ RecordOutcome
          /\ ServiceGoto(w, "idle")
       \/ LeaveService(w)
    /\ UNCHANGED <<found, serviceLedger, serviceQueue, serviceSpent>>

\* A lost heartbeat, the deadline or an exception ends the execution and releases the
\* lease; a crash releases nothing.
StopWork(w) ==
    /\ serviceRun[w].pc # "idle"
    /\ LeaveService(w)
    /\ UNCHANGED <<found, serviceLedger, serviceQueue, serviceSpent>>

-----------------------------------------------------------------------------
WorkLeaseExpires ==
    /\ ~work.expired
    /\ work' = [work EXCEPT !.expired = TRUE]
    /\ UNCHANGED <<found, serviceLedger, serviceRun, serviceQueue, serviceSpent>>

LoseServiceState ==
    /\ found.status # "absent"
    /\ found' = NoDiscovery
    /\ UNCHANGED <<work, serviceLedger, serviceRun, serviceQueue, serviceSpent>>

LoseServiceLedger ==
    /\ serviceLedger.exists
    /\ serviceLedger' = [exists |-> FALSE, claims |-> 0]
    /\ UNCHANGED <<work, found, serviceRun, serviceQueue, serviceSpent>>

\* expire: the deadline closes the row and compensates.
ExpireWork ==
    /\ work.status = "pending"
    /\ work' = [work EXCEPT !.status = "expired"]
    /\ UNCHANGED <<found, serviceLedger, serviceRun, serviceQueue, serviceSpent>>

ServiceNext ==
    \/ ReserveService \/ ReconcileService \/ WorkLeaseExpires \/ LoseServiceState \/ LoseServiceLedger \/ ExpireWork
    \/ \E w \in Discoverers :
          \/ ClaimWork(w) \/ EnsureWork(w) \/ CheckLease(w) \/ StartWork(w) \/ ClaimWorkRequest(w)
          \/ MakeWorkRequest(w) \/ FinishWork(w) \/ StopWork(w)

ServiceSpec == ServiceInit /\ [][ServiceNext]_serviceVars

\* Neither a lost state nor a lost ledger nor a takeover gives the discovery a second
\* budget.
DiscoverySpendIsBounded == serviceSpent <= ServiceBudget
=============================================================================
