---------------------------- MODULE Preparations ----------------------------
(***************************************************************************)
(* Collecting the sources of a paid analysis before it is dispatched       *)
(* (prepare_v22_acquisition, prepare_v22_first_service).  The database     *)
(* leases the preparation, counts its attempts and freezes its sources;    *)
(* Redis holds the queue and the cost ledger, either of which can be lost. *)
(* One preparation, whose worker may be taken over while it still runs.    *)
(***************************************************************************)
EXTENDS Naturals

CONSTANTS
    Preparers,      \* executions that may overlap
    PrepTries,      \* ctx["max_attempts"]
    PrepBudget      \* requests that the cost ledger allows

ASSUME PrepAssumption == PrepTries \in Nat /\ PrepBudget \in Nat

VARIABLES
    prepKind,       \* "acquisition" or "first_service"
    prep,           \* the row: [status, tries, lease, expired, counted]
    prepLedger,     \* [exists, claims]
    prepQueued,     \* whether the queue holds the preparation
    prepRun,        \* [Preparers -> [pc, lease, required]]
    prepSpent,      \* requests that were made
    handedOver      \* whether the prepared analysis was submitted

prepVars == <<prepKind, prep, prepLedger, prepQueued, prepRun, prepSpent, handedOver>>

IdlePrep == [pc |-> "idle", lease |-> 0, required |-> FALSE]

PrepPcs == {"idle", "ensure", "pulse", "collect", "request", "freeze", "handoff"}
PrepRuns == [pc : PrepPcs, lease : 0..PrepTries, required : BOOLEAN]
PrepRows == [status : {"none", "open", "ready", "closed"}, tries : 0..PrepTries, lease : 0..PrepTries,
             expired : BOOLEAN, counted : BOOLEAN]
PrepLedgers == [exists : BOOLEAN, claims : 0..PrepBudget]

PrepTypeOK ==
    /\ prepKind \in {"acquisition", "first_service"}
    /\ prep \in PrepRows /\ prepLedger \in PrepLedgers /\ prepRun \in [Preparers -> PrepRuns]
    /\ prepQueued \in BOOLEAN /\ prepSpent \in Nat /\ handedOver \in BOOLEAN

PrepInit ==
    /\ prepKind \in {"acquisition", "first_service"}
    /\ prep = [status |-> "none", tries |-> 0, lease |-> 0, expired |-> TRUE, counted |-> FALSE]
    /\ prepLedger = [exists |-> FALSE, claims |-> 0]
    /\ prepQueued = FALSE /\ prepSpent = 0 /\ handedOver = FALSE
    /\ prepRun = [w \in Preparers |-> IdlePrep]

PrepGoto(w, pc) == prepRun' = [prepRun EXCEPT ![w].pc = pc]
HoldsPrep(w) == prep.status = "open" /\ prep.lease = prepRun[w].lease /\ ~prep.expired

-----------------------------------------------------------------------------
(* Intake *)

\* submit_acquisition: registered in the database first, then queued; the answer to
\* either may be lost, and the same request repairs the gap.  A preparation that is
\* ready is queued again too.
SubmitPrep ==
    /\ prep.status # "closed"
    /\ prep' = IF prep.status = "none" THEN [prep EXCEPT !.status = "open"] ELSE prep
    /\ prepQueued' \in {prepQueued, TRUE}
    /\ UNCHANGED <<prepKind, prepLedger, prepRun, prepSpent, handedOver>>

\* enqueue_..._preparation: frozen sources are submitted at once.
ResubmitFrozen ==
    /\ prep.status = "ready"
    /\ handedOver' = TRUE
    /\ UNCHANGED <<prepKind, prep, prepLedger, prepQueued, prepRun, prepSpent>>

\* reconcile_v22_first_service_preparation: rows nobody works on, under a new job id
\* every minute.
ReconcilePrep ==
    /\ prepKind = "first_service" /\ ~prepQueued
    /\ \/ prep.status = "ready" /\ ~handedOver
       \/ prep.status = "open" /\ prep.expired /\ prep.tries < PrepTries
    /\ prepQueued' \in BOOLEAN
    /\ UNCHANGED <<prepKind, prep, prepLedger, prepRun, prepSpent, handedOver>>

-----------------------------------------------------------------------------
(* _prepare *)

\* Retry(defer=30): the queue brings the preparation back; it is given up after the
\* last try of the queue.
RetryPrep(w) ==
    /\ prepRun' = [prepRun EXCEPT ![w] = IdlePrep]
    /\ prepQueued' \in BOOLEAN

\* claim_..._preparation: inactive, busy, ready or the next attempt.  A receipt that
\* does not fit the request it is for is invalid.
ClaimPrep(w) ==
    /\ prepQueued /\ prepRun[w].pc = "idle"
    /\ CASE prep.status \in {"none", "closed"} \/ (prep.status = "open" /\ prep.expired /\ prep.tries = PrepTries) ->
                prepQueued' = FALSE /\ UNCHANGED <<prep, prepRun>>
         [] prep.status = "open" /\ ~prep.expired -> UNCHANGED prep /\ RetryPrep(w)
         [] prep.status = "ready" -> prepQueued' = FALSE /\ PrepGoto(w, "handoff") /\ UNCHANGED prep
         [] OTHER ->
                /\ prep' = [prep EXCEPT !.tries = @ + 1, !.lease = prep.tries + 1, !.expired = FALSE]
                /\ \/ /\ prepQueued' = FALSE
                      /\ prepRun' = [prepRun EXCEPT ![w] = [pc |-> "ensure", lease |-> prep.tries + 1,
                                                            required |-> prep.tries > 0 \/ prep.counted]]
                   \/ RetryPrep(w)
    /\ UNCHANGED <<prepKind, prepLedger, prepSpent, handedOver>>

\* Mutant: a ledger that is missing is made anew on every attempt.
EnsurePrepAlways(w) ==
    /\ prepRun[w].pc = "ensure"
    /\ prepLedger' = [prepLedger EXCEPT !.exists = TRUE, !.claims = IF prepLedger.exists THEN @ ELSE 0]
    /\ PrepGoto(w, "pulse")
    /\ UNCHANGED <<prepKind, prep, prepQueued, prepSpent, handedOver>>

\* ledger.ensure, with require_existing unless this is the first attempt and no
\* counter was ever saved.
EnsurePrep(w) ==
    /\ prepRun[w].pc = "ensure"
    /\ IF prepRun[w].required /\ ~prepLedger.exists
       THEN RetryPrep(w) /\ UNCHANGED prepLedger
       ELSE /\ prepLedger' = [prepLedger EXCEPT !.exists = TRUE, !.claims = IF prepLedger.exists THEN @ ELSE 0]
            /\ PrepGoto(w, "pulse")
            /\ UNCHANGED prepQueued
    /\ UNCHANGED <<prepKind, prep, prepSpent, handedOver>>

\* pulse: the counters go to the database under the lease, before the first request
\* and again around every checkpoint.  Without the ledger or the lease, or past the
\* deadline, the preparation is put off.
PulsePrep(w) ==
    /\ prepRun[w].pc = "pulse"
    /\ \/ /\ HoldsPrep(w) /\ prepLedger.exists
          /\ prep' = [prep EXCEPT !.counted = TRUE]
          /\ \E pc \in {"collect", "freeze"} : PrepGoto(w, pc)
          /\ UNCHANGED prepQueued
       \/ RetryPrep(w) /\ UNCHANGED prep
    /\ UNCHANGED <<prepKind, prepLedger, prepSpent, handedOver>>

\* A stage claims its request, which needs the ledger.
ClaimPrepRequest(w) ==
    /\ prepRun[w].pc = "collect"
    /\ IF prepLedger.exists /\ prepLedger.claims < PrepBudget
       THEN /\ prepLedger' = [prepLedger EXCEPT !.claims = @ + 1]
            /\ PrepGoto(w, "request")
            /\ UNCHANGED prepQueued
       ELSE RetryPrep(w) /\ UNCHANGED prepLedger
    /\ UNCHANGED <<prepKind, prep, prepSpent, handedOver>>

\* The request is made.  A stage may go on with its next one before the lease is
\* looked at again; a failed stage puts the preparation off.
MakePrepRequest(w) ==
    /\ prepRun[w].pc = "request"
    /\ prepSpent' = prepSpent + 1
    /\ \/ \E pc \in {"collect", "pulse"} : PrepGoto(w, pc) /\ UNCHANGED prepQueued
       \/ RetryPrep(w)
    /\ UNCHANGED <<prepKind, prep, prepLedger, handedOver>>

\* The sources are checked against the request and the deadline, the counters are
\* saved and the sources frozen, all under the lease.  The answer may be lost; then
\* the next claim finds the preparation ready.
FreezePrep(w) ==
    /\ prepRun[w].pc = "freeze"
    /\ \/ /\ HoldsPrep(w) /\ prepLedger.exists
          /\ prep' = [prep EXCEPT !.status = "ready", !.counted = TRUE]
          /\ (PrepGoto(w, "handoff") /\ UNCHANGED prepQueued) \/ RetryPrep(w)
       \/ RetryPrep(w) /\ UNCHANGED prep
    /\ UNCHANGED <<prepKind, prepLedger, prepSpent, handedOver>>

\* submit_dispatch, which answers the same to a second call.
HandOver(w) ==
    /\ prepRun[w].pc = "handoff"
    /\ \/ handedOver' = TRUE /\ PrepGoto(w, "idle") /\ UNCHANGED prepQueued
       \/ handedOver' \in {handedOver, TRUE} /\ RetryPrep(w)
    /\ UNCHANGED <<prepKind, prep, prepLedger, prepSpent>>

\* The heartbeat, a lost lease or the end of the time left stop the run anywhere;
\* what was already sent may still count.
StopPrep(w) ==
    /\ prepRun[w].pc # "idle"
    /\ RetryPrep(w)
    /\ UNCHANGED <<prepKind, prep, prepLedger, prepSpent, handedOver>>

-----------------------------------------------------------------------------
(* Faults and time *)

PrepLeaseExpires ==
    /\ ~prep.expired
    /\ prep' = [prep EXCEPT !.expired = TRUE]
    /\ UNCHANGED <<prepKind, prepLedger, prepQueued, prepRun, prepSpent, handedOver>>

LosePrepLedger ==
    /\ prepLedger.exists
    /\ prepLedger' = [exists |-> FALSE, claims |-> 0]
    /\ UNCHANGED <<prepKind, prep, prepQueued, prepRun, prepSpent, handedOver>>

\* The deadline closes and refunds what was not prepared in time.
ClosePrep ==
    /\ prep.status = "open"
    /\ prep' = [prep EXCEPT !.status = "closed"]
    /\ UNCHANGED <<prepKind, prepLedger, prepQueued, prepRun, prepSpent, handedOver>>

PrepNext ==
    \/ SubmitPrep \/ ResubmitFrozen \/ ReconcilePrep \/ PrepLeaseExpires \/ LosePrepLedger \/ ClosePrep
    \/ \E w \in Preparers :
          \/ ClaimPrep(w) \/ EnsurePrep(w) \/ PulsePrep(w) \/ ClaimPrepRequest(w)
          \/ MakePrepRequest(w) \/ FreezePrep(w) \/ HandOver(w) \/ StopPrep(w)

PrepSpec == PrepInit /\ [][PrepNext]_prepVars

-----------------------------------------------------------------------------
(* Properties *)

\* "cannot reset a spent budget": whatever crashes, takeovers and lost ledgers happen,
\* the requests of one paid analysis stay within its budget.
PreparationSpendIsBounded == prepSpent <= PrepBudget
=============================================================================
