---------------------------- MODULE ProviderCalls ----------------------------
(***************************************************************************)
(* One planned search of one job (CheckpointedSerpProvider.search with the *)
(* key failover of SerpApiSearchAdapter and execute_serpapi_get), executed *)
(* by several runs of the job: a run that a takeover has fenced goes on    *)
(* beside its successor, two deliveries of one generation overlap, and any *)
(* run may be lost between two awaits.  They share, in Redis,              *)
(*   - the response checkpoint and the numbered attempt claims, both       *)
(*     written by JobCheckpoints.save, which refuses a fenced run, a       *)
(*     finished job and a key that exists;                                 *)
(*   - the job's cost ledger, which admits at most CostLimit requests.     *)
(* The circuit breaker in front of the provider admits or refuses a call   *)
(* (module CircuitBreaker says when); here only what a call tells it       *)
(* counts.  Each action stands for the code between two awaits.            *)
(***************************************************************************)
EXTENDS Naturals, FiniteSets

CONSTANTS
    Runs,           \* executions of the job that may exist at a time
    Lives,          \* executions the job has in all (bounds crashes and retries)
    MaxGen,         \* generations the job goes through
    AttemptLimit,   \* SERP_PROVIDER_ATTEMPT_LIMIT_PER_CALL
    CostLimit,      \* OPERATION_LIMITS["serpapi_market_search"]
    KeyCount        \* configured SerpAPI keys

ASSUME ProviderAssumption ==
    /\ Lives \in Nat /\ MaxGen \in Nat \ {0}
    /\ AttemptLimit \in Nat \ {0} /\ CostLimit \in Nat /\ KeyCount \in Nat

VARIABLES
    gen,        \* run_generation in the job's state
    open,       \* the job's status is neither succeeded nor failed
    response,   \* the response checkpoint: 0, or the attempt that produced it
    claimed,    \* attempt numbers that have a checkpoint
    ledger,     \* the cost ledger: all claims, those of other calls, completed ones
    run,        \* the runs and where each one stands
    lives,      \* executions begun so far
    sent,       \* requests sent to the provider under each attempt number
    returned    \* responses handed to the stage by runs that were then current

vars == <<gen, open, response, claimed, ledger, run, lives, sent, returned>>
shared == <<gen, open>>

Attempts == 1..AttemptLimit

\* A run that stands before its first await.  found, seen and gap belong to
\* _existing, which reads the attempt keys one after the other; claim is the
\* attempt it makes, value the response it found or received (named by the
\* attempt that produced it).
Begun(g) == [pc |-> "lookup", gen |-> g, keys |-> 0, found |-> 0, seen |-> 0, gap |-> FALSE,
             for |-> "count", claim |-> 0, value |-> 0, outcome |-> "none"]

Ended == {"none", "crashed", "failed", "corrupt", "done"}
Pcs == Ended \cup {"lookup", "hit", "scan", "circuit", "claim", "charge", "request", "complete",
                   "circuit_failure", "circuit_success", "save", "reread"}
Outcomes == {"none", "success", "key_failure", "retryable", "rejected"}
RunState == [pc : Pcs, gen : 0..MaxGen, keys : 0..KeyCount, found : 0..AttemptLimit,
             seen : 0..AttemptLimit, gap : BOOLEAN, for : {"count", "claim", "audit", "report"},
             claim : 0..AttemptLimit, value : 0..AttemptLimit, outcome : Outcomes]
Ledger == [claims : 0..CostLimit, others : 0..CostLimit, completed : Nat]

\* The ledger belongs to the job: its other planned calls may have used part of it.
Init ==
    /\ gen = 1 /\ open = TRUE
    /\ response = 0 /\ claimed = {}
    /\ \E n \in 0..CostLimit : ledger = [claims |-> n, others |-> n, completed |-> 0]
    /\ run = [r \in Runs |-> [Begun(0) EXCEPT !.pc = "none"]] /\ lives = 0
    /\ sent = [n \in Attempts |-> 0] /\ returned = {}

At(r, pc) == run[r].pc = pc
Current(r) == open /\ run[r].gen = gen
Go(r, changes) == run' = [run EXCEPT ![r] = changes]
Step(r, pc) == Go(r, [run[r] EXCEPT !.pc = pc])
\* A run that ended is remembered by its generation.
Ends(r, pc) == Go(r, [Begun(run[r].gen) EXCEPT !.pc = pc])
Fails(r) == Ends(r, "failed")

-----------------------------------------------------------------------------
\* The job around the call.  A takeover fences the runs of the generation
\* before; the job may finish or be failed while a run is on its way.
BeginRun(r) ==
    /\ run[r].pc \in Ended /\ open /\ lives < Lives
    /\ lives' = lives + 1
    /\ Go(r, Begun(gen))
    /\ UNCHANGED <<gen, open, response, claimed, ledger, sent, returned>>

TakeOver ==
    /\ open /\ gen < MaxGen
    /\ gen' = gen + 1
    /\ UNCHANGED <<open, response, claimed, ledger, run, lives, sent, returned>>

FinishJob ==
    /\ open /\ open' = FALSE
    /\ UNCHANGED <<gen, response, claimed, ledger, run, lives, sent, returned>>

Crash(r) ==
    /\ run[r].pc \notin Ended
    /\ Ends(r, "crashed")
    /\ UNCHANGED <<gen, open, response, claimed, ledger, lives, sent, returned>>

-----------------------------------------------------------------------------
\* Mutant: save does not look at the generation.
MaySaveUnfenced(r, exists) == open /\ ~ exists

\* JobCheckpoints.save by run r of a key that exists or does not.
MaySave(r, exists) == Current(r) /\ ~ exists

\* search: the committed response is used as it is.
Lookup(r) ==
    /\ At(r, "lookup")
    /\ \/ response # 0 /\ Go(r, [run[r] EXCEPT !.pc = "hit", !.value = response])
       \/ response = 0 /\ Go(r, [run[r] EXCEPT !.pc = "scan", !.for = "count"])
    /\ UNCHANGED <<shared, response, claimed, ledger, lives, sent, returned>>

\* A run hands its response on (the ledger counts a checkpoint hit in passing);
\* whether the job may use it depends on whether the run is still current.
Returns(r, value) == returned' = IF Current(r) THEN returned \cup {value} ELSE returned

RecordCheckpointHit(r) ==
    /\ At(r, "hit")
    /\ Returns(r, run[r].value)
    /\ Ends(r, "done")
    /\ UNCHANGED <<shared, response, claimed, ledger, lives, sent>>

\* _existing reads the next attempt key; a claim after a missing one is an error.
ScanNext(r) ==
    /\ At(r, "scan") /\ run[r].seen < AttemptLimit
    /\ LET n == run[r].seen + 1 IN
       \/ /\ n \in claimed /\ run[r].gap
          /\ Ends(r, "corrupt")
       \/ /\ n \in claimed /\ ~ run[r].gap
          /\ Go(r, [run[r] EXCEPT !.seen = n, !.found = @ + 1])
       \/ /\ n \notin claimed
          /\ Go(r, [run[r] EXCEPT !.seen = n, !.gap = TRUE])
    /\ UNCHANGED <<shared, response, claimed, ledger, lives, sent, returned>>

\* The scan is over: what happens next depends on who asked.  Without a claim
\* there is no audit trail and the response is not used.
Scanned(r) == [run[r] EXCEPT !.seen = 0, !.found = 0, !.gap = FALSE]

\* Mutant: an attempt more than the limit is claimed.
ScanDoneOffByOne(r) ==
    /\ At(r, "scan") /\ run[r].seen = AttemptLimit
    /\ Go(r, [Scanned(r) EXCEPT !.pc = IF run[r].for = "claim" THEN "claim" ELSE "circuit", !.claim = run[r].found + 1])
    /\ UNCHANGED <<shared, response, claimed, ledger, lives, sent, returned>>

ScanDone(r) ==
    /\ At(r, "scan") /\ run[r].seen = AttemptLimit
    /\ LET full == run[r].found = AttemptLimit IN
       \/ run[r].for = "count" /\ full /\ Fails(r)
       \/ run[r].for = "count" /\ ~ full /\ Go(r, [Scanned(r) EXCEPT !.pc = "circuit"])
       \/ run[r].for = "claim" /\ full /\ Fails(r)
       \/ run[r].for = "claim" /\ ~ full /\ Go(r, [Scanned(r) EXCEPT !.pc = "claim", !.claim = run[r].found + 1])
       \/ run[r].for = "audit" /\ Go(r, [Scanned(r) EXCEPT !.pc = IF run[r].found = 0 THEN "failed" ELSE "save"])
       \/ run[r].for = "report" /\ Fails(r)
    /\ UNCHANGED <<shared, response, claimed, ledger, lives, sent, returned>>

\* The breaker admits the call or not; execute_serpapi_get then collects the
\* keys that are not blocked.  No key at all is a failure the breaker hears of.
BeforeCall(r) ==
    /\ At(r, "circuit")
    /\ \/ Fails(r)
       \/ \E k \in 1..KeyCount : Go(r, [run[r] EXCEPT !.pc = "scan", !.for = "claim", !.keys = k])
       \/ Go(r, [run[r] EXCEPT !.pc = "circuit_failure", !.outcome = "retryable"])
    /\ UNCHANGED <<shared, response, claimed, ledger, lives, sent, returned>>

\* Mutant: the answer of save is not looked at.
ClaimAttemptUnchecked(r) ==
    /\ At(r, "claim")
    /\ claimed' = IF MaySave(r, run[r].claim \in claimed) THEN claimed \cup {run[r].claim} ELSE claimed
    /\ Step(r, "charge")
    /\ UNCHANGED <<shared, response, ledger, lives, sent, returned>>

\* ProviderAttemptLedger.claim: a refused save reads the claims again.
ClaimAttempt(r) ==
    /\ At(r, "claim")
    /\ \/ /\ MaySave(r, run[r].claim \in claimed)
          /\ claimed' = claimed \cup {run[r].claim}
          /\ Step(r, "charge")
       \/ /\ ~ MaySave(r, run[r].claim \in claimed)
          /\ Go(r, [run[r] EXCEPT !.pc = "scan", !.for = "claim", !.claim = 0])
          /\ UNCHANGED claimed
    /\ UNCHANGED <<shared, response, ledger, lives, sent, returned>>

\* Mutant: the request goes out although it was denied.
ClaimCostDenialIgnored(r) ==
    /\ At(r, "charge")
    /\ ledger' = IF ledger.claims < CostLimit THEN [ledger EXCEPT !.claims = @ + 1] ELSE ledger
    /\ Step(r, "request")
    /\ UNCHANGED <<shared, response, claimed, lives, sent, returned>>

\* JobCostLedger.claim: a denial ends the call.
ClaimCost(r) ==
    /\ At(r, "charge")
    /\ \/ /\ ledger.claims < CostLimit
          /\ ledger' = [ledger EXCEPT !.claims = @ + 1]
          /\ Step(r, "request")
       \/ /\ ledger.claims >= CostLimit
          /\ UNCHANGED ledger
          /\ Fails(r)
    /\ UNCHANGED <<shared, response, claimed, lives, sent, returned>>

\* The request goes out and the provider answers it in one of the ways the
\* code tells apart: a usable payload, a key that is rejected, exhausted or
\* limited, a failure worth a retry (transport, HTTP 5xx), or another one.
SendRequest(r) ==
    /\ At(r, "request")
    /\ sent' = [sent EXCEPT ![run[r].claim] = @ + 1]
    /\ \E outcome \in Outcomes \ {"none"} :
          Go(r, [run[r] EXCEPT !.pc = "complete", !.outcome = outcome, !.value = run[r].claim])
    /\ UNCHANGED <<shared, response, claimed, ledger, lives, returned>>

\* after_attempt completes the claim; a key failure moves on to the next key,
\* and without one the call fails as a whole.
CompleteClaim(r) ==
    /\ At(r, "complete")
    /\ ledger' = [ledger EXCEPT !.completed = @ + 1]
    /\ \/ run[r].outcome = "success" /\ Step(r, "circuit_success")
       \/ /\ run[r].outcome = "key_failure" /\ run[r].keys > 1
          /\ Go(r, [run[r] EXCEPT !.pc = "scan", !.for = "claim", !.keys = @ - 1, !.claim = 0, !.outcome = "none"])
       \/ /\ run[r].outcome = "key_failure" /\ run[r].keys <= 1
          /\ Go(r, [run[r] EXCEPT !.pc = "circuit_failure", !.outcome = "retryable"])
       \/ run[r].outcome \in {"retryable", "rejected"} /\ Step(r, "circuit_failure")
    /\ UNCHANGED <<shared, response, claimed, lives, sent, returned>>

\* Mutant: the timeout does not cover the claims.
InClaimLoopNever(r) == FALSE

\* asyncio.timeout ends the adapter's work: a request without an answer, whose
\* cost claim stays open, or the loop of ProviderAttemptLedger.claim, in which
\* a run that may not save reads and tries again for ever.  A Redis round trip
\* is far shorter than the timeout, so nothing else lasts that long.
InClaimLoop(r) == At(r, "claim") \/ (At(r, "scan") /\ run[r].for = "claim")

TotalTimeout(r) ==
    /\ \/ /\ At(r, "request")
          /\ sent' = [sent EXCEPT ![run[r].claim] = @ + 1]
          /\ Go(r, [run[r] EXCEPT !.pc = "circuit_failure", !.outcome = "retryable", !.value = run[r].claim])
       \/ /\ InClaimLoop(r) /\ ~ Current(r)
          /\ Go(r, [Scanned(r) EXCEPT !.pc = "circuit_failure", !.outcome = "retryable"])
          /\ UNCHANGED sent
    /\ UNCHANGED <<shared, response, claimed, ledger, lives, returned>>

\* record_failure counts the outcome unless it is not the provider's fault,
\* then the attempts are counted for the error that is raised.
RecordFailure(r) ==
    /\ At(r, "circuit_failure")
    /\ Go(r, [run[r] EXCEPT !.pc = "scan", !.for = "report"])
    /\ UNCHANGED <<shared, response, claimed, ledger, lives, sent, returned>>

RecordSuccess(r) ==
    /\ At(r, "circuit_success")
    /\ Go(r, [run[r] EXCEPT !.pc = "scan", !.for = "audit"])
    /\ UNCHANGED <<shared, response, claimed, ledger, lives, sent, returned>>

\* A response within the size limit is committed, if nobody was faster.
SaveResponse(r) ==
    /\ At(r, "save")
    /\ \/ MaySave(r, response # 0) /\ response' = run[r].value /\ Step(r, "reread")
       \/ ~ MaySave(r, response # 0) /\ response' = response /\ Step(r, "reread")
       \/ response' = response /\ Fails(r)
    /\ UNCHANGED <<shared, claimed, ledger, lives, sent, returned>>

\* Mutant: a run returns what it received.
ReadCanonicalOwn(r) ==
    /\ At(r, "reread")
    /\ Returns(r, run[r].value)
    /\ Ends(r, "done")
    /\ UNCHANGED <<shared, response, claimed, ledger, lives, sent>>

\* The committed response is the canonical one, whoever wrote it.
ReadCanonical(r) ==
    /\ At(r, "reread")
    /\ Returns(r, IF response = 0 THEN run[r].value ELSE response)
    /\ Ends(r, "done")
    /\ UNCHANGED <<shared, response, claimed, ledger, lives, sent>>

-----------------------------------------------------------------------------
RunStep(r) ==
    \/ Lookup(r) \/ RecordCheckpointHit(r) \/ ScanNext(r) \/ ScanDone(r) \/ BeforeCall(r)
    \/ ClaimAttempt(r) \/ ClaimCost(r) \/ SendRequest(r) \/ CompleteClaim(r)
    \/ RecordFailure(r) \/ RecordSuccess(r) \/ SaveResponse(r) \/ ReadCanonical(r)

Next ==
    \/ TakeOver \/ FinishJob
    \/ \E r \in Runs : BeginRun(r) \/ Crash(r) \/ RunStep(r) \/ TotalTimeout(r)

Spec == Init /\ [][Next]_vars

\* The event loop goes on with a coroutine whose await is over, and the
\* timer of asyncio.timeout goes off.
FairSpec == Spec /\ \A r \in Runs : WF_vars(RunStep(r)) /\ WF_vars(TotalTimeout(r))

-----------------------------------------------------------------------------
\* Every variable stays in its range.
TypeOK ==
    /\ gen \in 1..MaxGen /\ open \in BOOLEAN
    /\ response \in 0..AttemptLimit /\ claimed \subseteq Attempts
    /\ ledger \in Ledger
    /\ run \in [Runs -> RunState] /\ lives \in 0..Lives
    /\ sent \in [Attempts -> Nat] /\ returned \subseteq 0..AttemptLimit

\* An attempt number pays for one request, whatever crashes, times out or is
\* delivered twice, so a planned call costs at most AttemptLimit requests.
\* ProviderAttemptLedger.claim commits the claim before the request goes out.
OneRequestPerAttempt == \A n \in Attempts : sent[n] > 0 => n \in claimed /\ sent[n] = 1

\* The requests of the call: each attempt number with the requests sent under it.
Requests == UNION {{n} \X (1..sent[n]) : n \in Attempts}

\* No request goes out that the cost ledger has not admitted beside those of
\* the job's other calls, the ledger admits no more than the limit of the
\* operation, and it completes no claim whose request was not sent.
RequestsAreCharged ==
    /\ Cardinality(Requests) + ledger.others <= ledger.claims /\ ledger.claims <= CostLimit
    /\ ledger.completed <= Cardinality(Requests)

\* Attempt claims have no holes: the next number is the number of claims plus
\* one, although it is computed from reads that are not atomic.
ClaimsAreContiguous == \A n \in claimed : 1..n \subseteq claimed

\* The stage sees one response to a planned call, whichever run asks: all the
\* responses that runs return while they are current are the same, even when
\* several runs paid for one (the committed checkpoint is canonical).
OneCanonicalResponse == Cardinality(returned) <= 1

\* SerpMarketCheckpointError is raised for a current run only if another
\* delivery of its own generation claimed attempts while it was reading:
\* a fenced run never makes its successor see corrupt claims.
CorruptionNeedsRival ==
    [][\A r \in Runs : (run[r].pc = "scan" /\ run'[r].pc = "corrupt" /\ Current(r)) =>
          \E q \in Runs \ {r} : run[q].pc # "none" /\ run[q].gen = gen]_vars

\* Every run of the call comes to an end: the loop in which a fenced run asks
\* for an attempt again and again is cut by the adapter's timeout.
RunsEnd == \A r \in Runs : run[r].pc \notin Ended ~> run[r].pc \in Ended
=============================================================================
