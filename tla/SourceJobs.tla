------------------------------ MODULE SourceJobs ------------------------------
(***************************************************************************)
(* Work that a row of the database controls: the Google synchronisations   *)
(* (google_connections_v22: "gsc", "ga4", "gbp"), the collections for a    *)
(* before/after comparison and the page checks (report_v22: "gsc_window",  *)
(* "ga4_window", "page").  A cron lists the rows that are due and enqueues *)
(* them; an execution claims its row under a lease, spends requests from   *)
(* the ledger of the row, and hands the result or the error back under     *)
(* that lease.  A synchronisation may be claimed SyncTries times, a        *)
(* comparison or a page check once.  One row: rows share nothing.          *)
(***************************************************************************)
EXTENDS Naturals, Sequences

CONSTANTS
    SourceKinds,    \* the kinds of work to look at
    Executions,     \* executions of the row that may overlap
    Askers,         \* requests of the row by the browser
    SyncTries,      \* attempts of a synchronisation: 3
    GscViews,       \* len(VIEWS): 6
    Ga4Reports,     \* len(REPORTS): 4
    EventPages,     \* pages of configured key events: 20
    KeywordPages,   \* pages of keywords: 10
    RedisMayFail    \* whether the ledger can be out of reach

VARIABLES
    kind,       \* the kind of the row
    row,        \* [status, lease, tries, expired, code, selection]
    used,       \* [operation -> claims in the ledger]
    exec,       \* [Executions -> [pc, lease, stage, page, error]]
    asker       \* [Askers -> [pc, selection]]

sourceVars == <<kind, row, used, exec, asker>>

SyncKinds == {"gsc", "ga4", "gbp"}
Single == kind \notin SyncKinds
Tries == IF Single THEN 1 ELSE SyncTries

\* The requests of one collection, in order.  A paged stage ends with the last page.
Calls(op, n) == [op |-> op, most |-> n, paged |-> FALSE]
Pages(op, n) == [op |-> op, most |-> n, paged |-> TRUE]

\* Every view of the current and of the previous period.
GscRequests == <<Calls("gsc_search_analytics", 2 * GscViews)>>
Ga4Requests == <<Pages("ga4_key_events", EventPages), Calls("ga4_run_report", 2 * Ga4Reports)>>
GbpRequests == <<Calls("gbp_location", 1), Calls("gbp_performance", 1), Pages("gbp_keywords", KeywordPages)>>
\* Totals, dates and key events of both windows, without landing pages; the configured
\* events are read before and after.
Ga4WindowRequests ==
    <<Pages("ga4_key_events", EventPages), Calls("ga4_run_report", 2 * (Ga4Reports - 1)), Pages("ga4_key_events", EventPages)>>

Stages ==
    CASE kind \in {"gsc", "gsc_window"} -> GscRequests
      [] kind = "ga4" -> Ga4Requests
      [] kind = "ga4_window" -> Ga4WindowRequests
      [] kind = "gbp" -> GbpRequests
      [] kind = "page" -> <<>>

\* 12, 20, 8, 1, 1 and 10: what one whole collection needs.
OPERATION_LIMITS ==
    [gsc_search_analytics |-> 2 * GscViews, ga4_key_events |-> EventPages,
     ga4_run_report |-> 2 * Ga4Reports, gbp_location |-> 1, gbp_performance |-> 1,
     gbp_keywords |-> KeywordPages]

Selections == {"first", "second"}
NoError == [code |-> "none", retryable |-> FALSE]
Error(code, retryable) == [code |-> code, retryable |-> retryable]
IdleRun == [pc |-> "idle", lease |-> 0, stage |-> 1, page |-> 1, error |-> NoError]
RowEnded == row.status \in {"succeeded", "failed"}

\* The answers of Google, of the broker and of the database that end an attempt.
Transient == {Error("GOOGLE_UNAVAILABLE", TRUE), Error("TIMEOUT", TRUE), Error("STORAGE_UNAVAILABLE", TRUE)}
Refusals == {Error("ACCESS_DENIED", FALSE), Error("INVALID_RESPONSE", FALSE), Error("STORAGE_REJECTED", FALSE)}
LocalFailure == Error("SYNC_FAILED", FALSE)
Codes == {"none", "SYNC_FAILED", "LEASE_EXPIRED"} \cup {e.code : e \in Transient \cup Refusals}

SourceTypeOK ==
    /\ kind \in SourceKinds
    /\ row \in [status : {"none", "queued", "running", "succeeded", "failed"}, lease : 0..SyncTries,
                tries : 0..SyncTries, expired : BOOLEAN, code : Codes, selection : Selections \cup {"none"}]
    /\ \A op \in DOMAIN OPERATION_LIMITS : used[op] \in 0..OPERATION_LIMITS[op]
    /\ \A w \in Executions :
          /\ exec[w].pc \in {"idle", "ensure", "token", "claim", "request", "account", "finish", "fail"}
          /\ exec[w].error \in Transient \cup Refusals \cup {NoError, LocalFailure}
    /\ asker \in [Askers -> [pc : {"idle", "submit", "accepted", "refused"}, selection : Selections \cup {"none"}]]

SourceInit ==
    /\ kind \in SourceKinds
    /\ row = [status |-> "none", lease |-> 0, tries |-> 0,
              expired |-> FALSE, code |-> "none", selection |-> "none"]
    /\ used = [op \in DOMAIN OPERATION_LIMITS |-> 0]
    /\ exec = [w \in Executions |-> IdleRun]
    /\ asker = [a \in Askers |-> [pc |-> "idle", selection |-> "none"]]

-----------------------------------------------------------------------------
(* The entry of comparisons and page checks: the row has the identifier     *)
(* that the browser chose, and a repeated request finds it.                 *)

\* The web application asks for a synchronisation by a request of its own.
RequestSync ==
    /\ ~Single /\ row.status = "none"
    /\ row' = [row EXCEPT !.status = "queued"]
    /\ UNCHANGED <<kind, used, exec, asker>>

\* request: a saved row answers; without one the plan is made, and a window that has
\* not ended yet is refused.
AskRow(a, selection) ==
    /\ Single /\ asker[a].pc = "idle"
    /\ IF row.status # "none"
       THEN asker' = [asker EXCEPT ![a] = [selection |-> selection,
                          pc |-> IF row.selection = selection THEN "accepted" ELSE "refused"]]
       ELSE \E pc \in {"submit", "refused"} : asker' = [asker EXCEPT ![a] = [pc |-> pc, selection |-> selection]]
    /\ UNCHANGED <<kind, row, used, exec>>

\* request_collection, request_check: another request may have made the row meanwhile;
\* the database returns that one, and its selection is compared.  A lost answer leaves
\* the browser to ask again.
SubmitRow(a) ==
    /\ asker[a].pc = "submit"
    /\ row' = IF row.status = "none"
              THEN [row EXCEPT !.status = "queued", !.selection = asker[a].selection] ELSE row
    /\ \E answer \in {"idle", IF row'.selection = asker[a].selection THEN "accepted" ELSE "refused"} :
          asker' = [asker EXCEPT ![a].pc = answer]
    /\ UNCHANGED <<kind, used, exec>>

-----------------------------------------------------------------------------
(* The row, in the database *)

\* claim_...: a row that waits, or a synchronisation whose lease ran out.
ClaimRow(w) ==
    /\ exec[w].pc = "idle"
    /\ \/ row.status = "queued"
       \/ row.status = "running" /\ row.expired
    /\ IF row.tries = Tries
       THEN /\ row' = [row EXCEPT !.status = "failed", !.code = "LEASE_EXPIRED"]
            /\ UNCHANGED exec
       ELSE /\ row' = [row EXCEPT !.status = "running", !.lease = row.tries + 1,
                                  !.tries = @ + 1, !.expired = FALSE]
            /\ \E pc \in {"ensure", "idle"} :    \* the answer may be lost
                  exec' = [exec EXCEPT ![w] = [IdleRun EXCEPT !.pc = pc, !.lease = row.tries + 1]]
    /\ UNCHANGED <<kind, used, asker>>

LeaseExpires ==
    /\ row.status = "running" /\ ~row.expired
    /\ row' = [row EXCEPT !.expired = TRUE]
    /\ UNCHANGED <<kind, used, exec, asker>>

Holds(w) == row.status = "running" /\ row.lease = exec[w].lease

\* finish_...: the lease decides; the same completion again is answered as before.
Finished(w) == IF Holds(w) THEN [row EXCEPT !.status = "succeeded", !.expired = FALSE] ELSE row

\* Mutant: the error is stored without the lease.
FailedUnfenced(w) ==
    IF exec[w].error.retryable /\ row.tries < Tries
    THEN [row EXCEPT !.status = "queued", !.expired = FALSE]
    ELSE [row EXCEPT !.status = "failed", !.code = exec[w].error.code, !.expired = FALSE]

\* fail_...: retried after a delay while attempts are left.
Failed(w) ==
    CASE ~Holds(w) -> row
      [] Holds(w) /\ exec[w].error.retryable /\ row.tries < Tries ->
            [row EXCEPT !.status = "queued", !.expired = FALSE]
      [] OTHER -> [row EXCEPT !.status = "failed", !.code = exec[w].error.code, !.expired = FALSE]

-----------------------------------------------------------------------------
(* execute_v22_*_sync, execute_collection, execute_page_check *)

Goto(w, pc) == exec' = [exec EXCEPT ![w].pc = pc]
\* A synchronisation records the attempt in its ledger before it reports an error.
Raise(w, error) == exec' = [exec EXCEPT ![w].error = error, ![w].pc = IF Single THEN "fail" ELSE "account"]

\* A page check has no ledger and no token: it goes on to the page.
EnsureLedger(w) ==
    /\ exec[w].pc = "ensure"
    /\ CASE kind = "page" -> Goto(w, "request")
         [] OTHER -> \/ Goto(w, "token")
                     \/ RedisMayFail /\ exec' = [exec EXCEPT ![w].pc = "fail", ![w].error = LocalFailure]
    /\ UNCHANGED <<kind, row, used, asker>>

\* TokenBroker.access_token: 429 and 5xx may pass, another status or a token that is
\* of the wrong scope or about to expire does not.
AccessToken(w) ==
    /\ exec[w].pc = "token"
    /\ \/ Goto(w, "claim")
       \/ \E error \in {Error("GOOGLE_UNAVAILABLE", TRUE), Error("ACCESS_DENIED", FALSE)} : Raise(w, error)
    /\ UNCHANGED <<kind, row, used, asker>>

\* cost_ledger.claim before every request, for all attempts together.
ClaimRequest(w) ==
    LET op == Stages[exec[w].stage].op
    IN  /\ exec[w].pc = "claim"
        /\ \/ used[op] < OPERATION_LIMITS[op] /\ used' = [used EXCEPT ![op] = @ + 1] /\ Goto(w, "request")
           \/ used[op] = OPERATION_LIMITS[op] /\ UNCHANGED used /\ Raise(w, LocalFailure)
           \/ RedisMayFail /\ UNCHANGED used /\ Raise(w, LocalFailure)
        /\ UNCHANGED <<kind, row, asker>>

\* After the last request: health, the attempt in the ledger, and the row.
NextRequest(w, more) ==
    LET stage == Stages[exec[w].stage]
        over == exec[w].page = stage.most
    IN  IF over /\ more /\ stage.op = "ga4_key_events" THEN Raise(w, Error("INVALID_RESPONSE", FALSE))
        ELSE IF more /\ ~over THEN exec' = [exec EXCEPT ![w].page = @ + 1, ![w].pc = "claim"]
        ELSE IF exec[w].stage < Len(Stages) THEN exec' = [exec EXCEPT ![w].stage = @ + 1, ![w].page = 1, ![w].pc = "claim"]
        ELSE Goto(w, IF Single THEN "finish" ELSE "account")

\* One answer.  A page token seen before, or a shape that does not fit, is invalid.
ReadAnswer(w) ==
    /\ exec[w].pc = "request"
    /\ CASE kind = "page" -> Goto(w, "finish") \/ Raise(w, LocalFailure)
         [] OTHER -> \/ \E more \in IF Stages[exec[w].stage].paged THEN BOOLEAN
                                    ELSE {exec[w].page < Stages[exec[w].stage].most} : NextRequest(w, more)
                     \/ \E error \in (Transient \cup Refusals) \ {Error("TIMEOUT", TRUE)} : Raise(w, error)
    /\ UNCHANGED <<kind, row, used, asker>>

\* finish_attempt.  Without the ledger a success becomes an error, and an error is
\* left to the lease.
RecordAttempt(w) ==
    /\ exec[w].pc = "account"
    /\ \/ Goto(w, IF exec[w].error = NoError THEN "finish" ELSE "fail")
       \/ RedisMayFail /\ exec' = IF exec[w].error = NoError THEN [exec EXCEPT ![w].error = LocalFailure]
                                  ELSE [exec EXCEPT ![w] = IdleRun]
    /\ UNCHANGED <<kind, row, used, asker>>

\* repository.finish.  A synchronisation that does not get its answer reports an error
\* under the same lease; a collection leaves the outcome to the row.
FinishRow(w) ==
    /\ exec[w].pc = "finish"
    /\ \/ row' = Finished(w) /\ exec' = [exec EXCEPT ![w] = IdleRun]
       \/ /\ row' \in {row, Finished(w)}
          /\ exec' = IF Single THEN [exec EXCEPT ![w] = IdleRun]
                     ELSE [exec EXCEPT ![w].pc = "fail", ![w].error = Error("STORAGE_UNAVAILABLE", TRUE)]
    /\ UNCHANGED <<kind, used, asker>>

\* repository.fail, which may itself get lost.
FailRow(w) ==
    /\ exec[w].pc = "fail"
    /\ row' \in {row, Failed(w)}
    /\ exec' = [exec EXCEPT ![w] = IdleRun]
    /\ UNCHANGED <<kind, used, asker>>

\* asyncio.timeout(240); for a synchronisation it includes the finish.
TimesOut(w) ==
    /\ exec[w].pc \in {"token", "claim", "request"} \cup IF Single THEN {} ELSE {"account", "finish"}
    /\ exec[w].error = NoError
    /\ IF exec[w].pc = "finish"
       THEN exec' = [exec EXCEPT ![w].pc = "fail", ![w].error = Error("TIMEOUT", TRUE)]
       ELSE Raise(w, Error("TIMEOUT", TRUE))
    /\ UNCHANGED <<kind, row, used, asker>>

\* A cancelled or lost execution leaves its lease to expire.
LoseExecution(w) ==
    /\ exec[w].pc # "idle"
    /\ exec' = [exec EXCEPT ![w] = IdleRun]
    /\ UNCHANGED <<kind, row, used, asker>>

ExecStep(w) ==
    \/ EnsureLedger(w) \/ AccessToken(w) \/ ClaimRequest(w) \/ ReadAnswer(w)
    \/ RecordAttempt(w) \/ FinishRow(w) \/ FailRow(w)

SourceNext ==
    \/ RequestSync \/ LeaseExpires
    \/ \E a \in Askers : SubmitRow(a) \/ \E selection \in Selections : AskRow(a, selection)
    \/ \E w \in Executions : ClaimRow(w) \/ ExecStep(w) \/ TimesOut(w) \/ LoseExecution(w)

\* The cron comes again, executions go on, leases run out.  Nobody has to ask.
SourceFairness ==
    /\ WF_sourceVars(LeaseExpires)
    /\ WF_sourceVars(\E w \in Executions : ClaimRow(w))
    /\ \A w \in Executions : WF_sourceVars(ExecStep(w))

SourceSpec == SourceInit /\ [][SourceNext]_sourceVars /\ SourceFairness

-----------------------------------------------------------------------------
(* Properties *)

Row == INSTANCE OneOutcome WITH
    task <- CASE row.status = "none" -> "absent"
              [] row.status = "queued" -> "waiting"
              [] row.status = "running" -> "active"
              [] row.status = "succeeded" -> "done"
              [] row.status = "failed" -> "failed"

\* Every synchronisation, comparison and page check ends, and ends once: lost answers,
\* timeouts that race a committed finish, executions that overlap after a lease and
\* late errors included.
SourceEndsOnce == Row!TaskSpec

\* A browser that was told its comparison or page check is accepted sees that very
\* selection in the row, also when two requests used the same identifier at once.
AcceptedSelectionIsStored ==
    \A a \in Askers : asker[a].pc = "accepted" => row.selection = asker[a].selection

\* "transient errors retry with a delay" (gsc-sync-design): a synchronisation fails
\* only by an answer that rules success out or with its last attempt.
TransientErrorsAreRetried ==
    row.status = "failed" /\ ~Single => row.tries = SyncTries \/ row.code \in {e.code : e \in Refusals}
=============================================================================
