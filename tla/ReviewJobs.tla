------------------------------ MODULE ReviewJobs ------------------------------
(***************************************************************************)
(* The paid review of a report (review_intake, review_worker).  "Redis is  *)
(* a wakeup, never an entitlement or result": the row holds the credit,    *)
(* the dispatch token, the lease of the run and the saved report.  One     *)
(* review, requested by any browser that holds the report.                 *)
(***************************************************************************)
EXTENDS Naturals

CONSTANTS
    Reviewers,      \* executions that may overlap
    MaxDispatches   \* dispatches of the cron to look at

VARIABLES
    review,         \* the row: [status, token, offered, gen, leased]
    wakeups,        \* tokens in the queue
    reviewer,       \* [Reviewers -> [pc, gen, ruledOut]]
    asked           \* what the browser was told: "nothing", "unknown", "started", "refused"

reviewVars == <<review, wakeups, reviewer, asked>>

IdleReviewer == [pc |-> "idle", gen |-> 0, ruledOut |-> FALSE]

ReviewTypeOK ==
    /\ review \in [status : {"none", "queued", "running", "succeeded", "failed"}, token : 0..MaxDispatches,
                   offered : BOOLEAN, gen : 0..MaxDispatches, leased : BOOLEAN]
    /\ wakeups \subseteq 1..MaxDispatches
    /\ reviewer \in [Reviewers -> [pc : {"idle", "resolve", "beat", "complete", "finish"},
                                   gen : 0..MaxDispatches, ruledOut : BOOLEAN]]
    /\ asked \in {"nothing", "unknown", "started", "refused"}

ReviewInit ==
    /\ review = [status |-> "none", token |-> 0, offered |-> FALSE, gen |-> 0, leased |-> FALSE]
    /\ wakeups = {} /\ asked = "nothing"
    /\ reviewer = [w \in Reviewers |-> IdleReviewer]

\* ReviewIntakeService.run: a saved job answers; otherwise the input is prepared and
\* the job is started with its debit in one call.  An answer that cannot be read is
\* no reason for a second debit.
StartReview ==
    /\ asked \in {"nothing", "unknown"}
    /\ \/ /\ review.status = "none"
          /\ \/ review' = [review EXCEPT !.status = "queued"] /\ asked' \in {"started", "unknown"}
             \/ UNCHANGED review /\ asked' = "refused"
       \/ review.status # "none" /\ UNCHANGED review /\ asked' \in {"started", "unknown"}
    /\ UNCHANGED <<wakeups, reviewer>>

\* reconcile_v22_review_generations: a token per pending row; the wakeup may get lost.
DispatchReview ==
    /\ review.token < MaxDispatches /\ ~review.offered
    /\ \/ review.status = "queued"
       \/ review.status = "running" /\ ~review.leased
    /\ review' = [review EXCEPT !.token = @ + 1, !.offered = TRUE]
    /\ wakeups' \in {wakeups, wakeups \cup {review.token + 1}}
    /\ UNCHANGED <<reviewer, asked>>

\* The dispatch lease of the database runs out, and so does the queued wakeup.
DispatchExpires ==
    /\ review.offered
    /\ review' = [review EXCEPT !.offered = FALSE]
    /\ wakeups' \in {wakeups, wakeups \ {review.token}}
    /\ UNCHANGED <<reviewer, asked>>

\* claim_v22_review_run takes the token it was dispatched with, once.
ClaimReview(w) ==
    /\ reviewer[w].pc = "idle"
    /\ \E token \in wakeups :
          /\ wakeups' = wakeups \ {token}
          /\ IF review.offered /\ review.token = token /\ review.status \in {"queued", "running"} /\ ~review.leased
             THEN /\ review' = [review EXCEPT !.status = "running", !.offered = FALSE, !.gen = @ + 1, !.leased = TRUE]
                  /\ \/ reviewer' = [reviewer EXCEPT ![w] = [pc |-> "resolve", gen |-> review.gen + 1, ruledOut |-> FALSE]]
                     \/ UNCHANGED reviewer
             ELSE UNCHANGED <<review, reviewer>>
    /\ UNCHANGED asked

-----------------------------------------------------------------------------
(* ReviewCoordinator.execute *)

OwnsReview(w) == review.status = "running" /\ review.gen = reviewer[w].gen
RaiseReview(w, ruledOut) == reviewer' = [reviewer EXCEPT ![w].pc = "finish", ![w].ruledOut = ruledOut]

\* inputs.resolve: an input that does not match its receipt may have been saved all
\* the same and is tried again; a refusal of the database rules the review out.
ResolveReview(w) ==
    /\ reviewer[w].pc = "resolve"
    /\ \/ reviewer' = [reviewer EXCEPT ![w].pc = "beat"]
       \/ \E ruledOut \in BOOLEAN : RaiseReview(w, ruledOut)
    /\ UNCHANGED <<review, wakeups, asked>>

\* A run that lost its lease before it saves leaves quietly.
BeatReview(w) ==
    /\ reviewer[w].pc = "beat"
    /\ IF OwnsReview(w) /\ review.leased
       THEN reviewer' = [reviewer EXCEPT ![w].pc = "complete"]
       ELSE reviewer' = [reviewer EXCEPT ![w] = IdleReviewer]
    /\ UNCHANGED <<review, wakeups, asked>>

\* complete_v22_review_analysis: report, status and credit together, for the current
\* generation.  Without a receipt that fits the outcome is unknown.
CompleteReview(w) ==
    /\ reviewer[w].pc = "complete"
    /\ \/ /\ OwnsReview(w)
          /\ review' = [review EXCEPT !.status = "succeeded", !.leased = FALSE]
          /\ reviewer' = [reviewer EXCEPT ![w] = IdleReviewer] \/ RaiseReview(w, FALSE)
       \/ ~OwnsReview(w) /\ RaiseReview(w, TRUE) /\ UNCHANGED review
       \/ \E ruledOut \in BOOLEAN : RaiseReview(w, ruledOut) /\ UNCHANGED review
    /\ UNCHANGED <<wakeups, asked>>

\* finalize_v22_review_generation: a saved success first, then the lease, then the
\* verdict of the run.
Finalized(w, fail) ==
    CASE ~OwnsReview(w) -> review
      [] OwnsReview(w) /\ fail -> [review EXCEPT !.status = "failed", !.leased = FALSE]
      [] OTHER -> [review EXCEPT !.status = "queued", !.leased = FALSE]

\* Only an error that is not retryable, and never a timeout, fails the review.
FinishReview(w) ==
    /\ reviewer[w].pc = "finish"
    /\ review' \in {review, Finalized(w, reviewer[w].ruledOut)}
    /\ reviewer' = [reviewer EXCEPT ![w] = IdleReviewer]
    /\ UNCHANGED <<wakeups, asked>>

Reviewing(w) == reviewer[w].pc \in {"resolve", "beat", "complete"}

\* The time limit, or a heartbeat that finds the lease lost (a RuntimeError), ends the run,
\* and neither rules the review out; what was sent to the database may have been saved.
InterruptReview(w) ==
    /\ Reviewing(w)
    /\ RaiseReview(w, FALSE)
    /\ UNCHANGED <<review, wakeups, asked>>

\* The heartbeat itself is refused by the database: an error that is not retryable.
RefuseHeartbeat(w) ==
    /\ Reviewing(w)
    /\ RaiseReview(w, TRUE)
    /\ UNCHANGED <<review, wakeups, asked>>

\* Shutdown: the lease is left to expire.
LoseReviewer(w) ==
    /\ reviewer[w].pc # "idle"
    /\ reviewer' = [reviewer EXCEPT ![w] = IdleReviewer]
    /\ UNCHANGED <<review, wakeups, asked>>

ReviewLeaseExpires ==
    /\ review.leased
    /\ review' = [review EXCEPT !.leased = FALSE]
    /\ UNCHANGED <<wakeups, reviewer, asked>>

\* The deadline of the row, with its compensation.
ReviewDeadline ==
    /\ review.status \in {"queued", "running"}
    /\ review' = [review EXCEPT !.status = "failed", !.leased = FALSE]
    /\ UNCHANGED <<wakeups, reviewer, asked>>

ReviewStep(w) == ResolveReview(w) \/ BeatReview(w) \/ CompleteReview(w) \/ FinishReview(w)

ReviewNext ==
    \/ StartReview \/ DispatchReview \/ DispatchExpires \/ ReviewLeaseExpires \/ ReviewDeadline
    \/ \E w \in Reviewers : ClaimReview(w) \/ ReviewStep(w) \/ InterruptReview(w) \/ RefuseHeartbeat(w) \/ LoseReviewer(w)

\* Time passes; nothing else has to happen for a review to end.
ReviewFairness == WF_reviewVars(ReviewDeadline)

ReviewSpec == ReviewInit /\ [][ReviewNext]_reviewVars /\ ReviewFairness

-----------------------------------------------------------------------------
(* Properties *)

Reviewed == INSTANCE OneOutcome WITH
    task <- CASE review.status = "none" -> "absent"
              [] review.status = "queued" -> "waiting"
              [] review.status = "running" -> "active"
              [] review.status = "succeeded" -> "done"
              [] review.status = "failed" -> "failed"

\* A review that was paid for ends, and ends once: no run that was taken over, no late
\* error and no lost answer undoes a saved report or a refund.
ReviewEndsOnce == Reviewed!TaskSpec
=============================================================================
