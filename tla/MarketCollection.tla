--------------------------- MODULE MarketCollection ---------------------------
(***************************************************************************)
(* The search market of a job: the point that the target market stands     *)
(* for, the plan of two calls per query, and the snapshot collected from   *)
(* the answers over the runs of a job.  Texts are reduced to how they      *)
(* compare: a candidate says how its name relates to the market's fields.  *)
(* (collectors/serp_market*.py, jobs_v22/serp_market_stage.py)             *)
(***************************************************************************)
EXTENDS Integers, Sequences, FiniteSets, SequencesExt, FiniteSetsExt

CONSTANTS
    QueryMin, QueryMax,     \* SERP_QUERY_MIN, SERP_QUERY_MAX
    CallAttempts,           \* SERP_PROVIDER_ATTEMPT_LIMIT_PER_CALL
    ResultsPerType          \* SERP_RESULT_LIMIT_PER_TYPE

LocationFailure(code, retryable) == [code |-> code, retryable |-> retryable]
Resolved(point) == "code" \notin DOMAIN point

-----------------------------------------------------------------------------
(* The point.  market.postal, .city, .region: the field is given.  candidate.postal:
   its name is the postal code; .city: how it contains the city; .display: which of
   its names is the market's label.                                                 *)

MatchesPostal(market, c) == market.postal /\ c.postal
PostalTarget(market, c) == c.type = "postal" /\ MatchesPostal(market, c)

Rejected(market, c) ==
    \/ ~c.country \/ ~c.named
    \/ c.type \in {"country", "dma"}
    \/ market.postal /\ ~MatchesPostal(market, c)
    \/ market.city /\ c.city = "absent" /\ ~PostalTarget(market, c)

CandidateScore(market, c) ==
    LET worth(cond, n) == IF cond THEN n ELSE 0
    IN  worth("name" \in c.display, 80) + worth("canonical" \in c.display, 100) + worth(market.postal, 100)
          + worth(market.city, 50) + worth(market.city /\ c.city = "exact", 100)
          + worth(market.region /\ c.region, 25) + c.words
          + (IF PostalTarget(market, c) THEN 40 ELSE worth(market.city /\ c.type = "city", 1000))

\* _coordinates: two numbers in range, longitude first.
HasCoordinates(c) == c.gps \in [1..2 -> Int] /\ c.gps[1] \in -180..180 /\ c.gps[2] \in -90..90

\* What SerpApiLocationProvider.search makes of an answer: the error, or the first ten objects.
LookUp(answer) ==
    IF answer.status = 429 \/ answer.status >= 500 \/ answer.kind = "timeout" THEN LocationFailure("TEMPORARY", TRUE)
    ELSE IF answer.status \in 400..499 \ {429} THEN LocationFailure("REQUEST_REJECTED", FALSE)
    ELSE IF answer.kind = "large" THEN LocationFailure("RESPONSE_TOO_LARGE", FALSE)
    ELSE IF answer.kind = "invalid" THEN LocationFailure("RESPONSE_INVALID", FALSE)
    ELSE [items |-> answer.items]

PointOf(market, items) ==
    LET usable == {i \in DOMAIN items : ~Rejected(market, items[i]) /\ HasCoordinates(items[i]) /\ items[i].id # 0}
        score(i) == CandidateScore(market, items[i])
        finalists == {i \in usable : \A j \in usable : score(j) <= score(i)}
        first == CHOOSE i \in finalists : \A j \in finalists : items[i].id <= items[j].id
    IN  IF usable = {} THEN LocationFailure("NOT_FOUND", FALSE)
        ELSE IF Cardinality({<<items[i].place, items[i].gps>> : i \in finalists}) # 1 THEN LocationFailure("AMBIGUOUS", FALSE)
        ELSE [source |-> "location", item |-> items[first]]

ResolveTargetPoint(market, answer) ==
    LET found == LookUp(answer)
    IN  IF market.coordinates = "half" THEN LocationFailure("COORDINATES_INCOMPLETE", FALSE)
        ELSE IF market.coordinates = "both" THEN [source |-> "explicit"]
        ELSE IF answer.kind = "no provider" THEN LocationFailure("PROVIDER_UNAVAILABLE", TRUE)
        ELSE IF Resolved(found) THEN PointOf(market, found.items) ELSE found

\* The point is of the country, and is the place that the market names: the exact
\* postal code, or else within the city and the city itself if it was offered; no other
\* offer that is as good lies elsewhere.
PointIsMeant(market, answer) ==
    LET point == ResolveTargetPoint(market, answer)
    IN  Resolved(point) /\ point.source = "location" =>
            /\ point.item.country
            /\ market.postal => point.item.postal
            /\ market.city /\ ~market.postal =>
                  /\ point.item.city # "absent"
                  /\ (\E c \in ToSet(answer.items) : /\ c.type = "city" /\ c.city = "exact" /\ c.id # 0
                                                     /\ HasCoordinates(c) /\ c.country /\ c.named)
                       => point.item.type = "city"
            /\ \A c \in ToSet(answer.items) : c.place # point.item.place =>
                  \/ Rejected(market, c) \/ ~HasCoordinates(c) \/ c.id = 0
                  \/ CandidateScore(market, c) < CandidateScore(market, point.item)

-----------------------------------------------------------------------------
(* The plan.  A query is its text: .fold without case, .text as written, empty for 0. *)

Engines == <<"maps", "google">>
ResultTypes(engine) == IF engine = "maps" THEN <<"maps">> ELSE <<"local_pack", "organic">>

PlannedCall(query, index, engine) ==
    [index |-> index, query |-> query, engine |-> engine, digest |-> <<query.text, engine>>]

BuildSearchPlan(queries) ==
    IF Len(queries) \notin QueryMin..QueryMax THEN [error |-> "three to five queries"]
    ELSE IF \E i \in DOMAIN queries : queries[i].text = 0 THEN [error |-> "non-empty"]
    ELSE IF Cardinality({queries[i].fold : i \in DOMAIN queries}) # Len(queries) THEN [error |-> "unique"]
    ELSE [calls |-> [k \in 1..(2 * Len(queries)) |->
                       PlannedCall(queries[(k + 1) \div 2], (k + 1) \div 2, Engines[((k + 1) % 2) + 1])]]

\* SerpSearchPlan.validate_plan
ValidPlan(plan, queries) ==
    /\ Len(plan.calls) = 2 * Len(queries)
    /\ \A k \in DOMAIN plan.calls : /\ plan.calls[k].index = (k + 1) \div 2
                                    /\ plan.calls[k].query = queries[plan.calls[k].index]
                                    /\ plan.calls[k].engine = IF k % 2 = 1 THEN "maps" ELSE "google"
    /\ \A k, l \in DOMAIN plan.calls : plan.calls[k].digest = plan.calls[l].digest => k = l

-----------------------------------------------------------------------------
(* Results.  A section is valid or not, its items come with a name (0: none), a
   position (0: none), a website ("none", "unsafe" or a domain) and a place.        *)

\* sanitize_serp_payload: the sections of the engine, cut to the limit; the rest is dropped.
Sanitize(payload, engine) ==
    [kind |-> payload.kind,
     sections |-> [t \in ToSet(ResultTypes(engine)) |->
         [payload.sections[t] EXCEPT !.items = SubSeq(@, 1, Min({Len(@), ResultsPerType}))]]]

\* _payload_error: an empty answer is no error.
PayloadFails(payload) == payload.kind \in {"error", "status"}

\* The record of an item; its identity is every field but the source of its rank.
ResultRecord(call, type, item, index) ==
    [call |-> call.digest, type |-> type, position |-> IF item.position # 0 THEN item.position ELSE index,
     ranked |-> IF item.position # 0 THEN "provider_position" ELSE "response_order",
     name |-> item.name, domain |-> IF item.site = "unsafe" THEN "none" ELSE item.site, place |-> item.place]

Identity(record) == <<record.call, record.type, record.position, record.name, record.domain, record.place>>

AddItem(call, type, items, acc, index) ==
    LET item == items[index]
        record == ResultRecord(call, type, item, index)
    IN  IF item.name = 0 THEN [acc EXCEPT !.limits = @ \cup {"skipped"}]
        ELSE IF \E r \in ToSet(acc.records) : Identity(r) = Identity(record) THEN [acc EXCEPT !.limits = @ \cup {"duplicate"}]
        ELSE [acc EXCEPT !.records = Append(@, record)]

AddSection(call, payload, acc, type) ==
    LET section == payload.sections[type]
    IN  IF ~section.valid THEN [acc EXCEPT !.limits = @ \cup {"invalid"}]
        ELSE FoldLeft(LAMBDA a, i : AddItem(call, type, section.items, a, i), acc, [i \in DOMAIN section.items |-> i])

NormalizeResults(call, payload) ==
    IF payload.kind = "empty" THEN [records |-> <<>>, limits |-> {"empty"}]
    ELSE FoldLeft(LAMBDA a, t : AddSection(call, payload, a, t), [records |-> <<>>, limits |-> {}], ResultTypes(call.engine))

-----------------------------------------------------------------------------
(* Calls.  A ledger holds, per call, the attempts claimed and the response saved.  An
   answer is a payload, "transient", "rejected" or "open" (the circuit refuses it).    *)

CallRecord(call, status, attempts, hit, found) ==
    [digest |-> call.digest, query |-> call.query, engine |-> call.engine, status |-> status, attempts |-> attempts,
     used |-> attempts > 0, hit |-> hit, records |-> found.records, limits |-> found.limits]

FailedCall(call, code, retryable, attempts) ==
    CallRecord(call, IF retryable THEN "failed_transient" ELSE "failed_deterministic", attempts, FALSE,
               [records |-> <<>>, limits |-> {code}])

Answered(call, payload, attempts, hit) ==
    IF PayloadFails(payload) THEN [FailedCall(call, "RESPONSE_ERROR", FALSE, attempts) EXCEPT !.hit = hit]
    ELSE CallRecord(call, "succeeded", attempts, hit, NormalizeResults(call, payload))

\* CheckpointedSerpProvider.search around the adapter, and what the collector records of it.
Search(call, ledger, answer) ==
    LET saved == ledger.saved
        attempts == ledger.attempts + 1
        spent == [ledger EXCEPT !.attempts = attempts]
    IN  CASE saved # <<>> -> [ledger |-> ledger, record |-> Answered(call, saved[1].payload, saved[1].attempts, TRUE)]
          [] saved = <<>> /\ ledger.attempts >= CallAttempts ->
                [ledger |-> ledger, record |-> FailedCall(call, "EXHAUSTED", FALSE, CallAttempts)]
          [] OTHER -> IF answer.kind \in {"transient", "rejected"}
                      THEN [ledger |-> spent, record |-> FailedCall(call, answer.kind, answer.kind = "transient", attempts)]
                      ELSE [ledger |-> [spent EXCEPT !.saved = <<[payload |-> Sanitize(answer, call.engine), attempts |-> attempts]>>],
                            record |-> Answered(call, Sanitize(answer, call.engine), attempts, FALSE)]

\* A response of this job that an earlier run saved needs no permit of the circuit.
Refused(ledger, answer) == answer.kind = "open" /\ ledger.saved = <<>> /\ ledger.attempts < CallAttempts

-----------------------------------------------------------------------------
(* Runs and the snapshot *)

QueryRun(plan, records, index) ==
    [index |-> index, query |-> plan.calls[2 * index].query, maps |-> records[2 * index - 1], google |-> records[2 * index],
     results |-> records[2 * index - 1].records \o records[2 * index].records,
     complete |-> records[2 * index - 1].status = "succeeded" /\ records[2 * index].status = "succeeded",
     limits |-> records[2 * index - 1].limits \cup records[2 * index].limits]

Budget(records) ==
    [planned |-> Len(records), limit |-> Len(records) * CallAttempts,
     used |-> Cardinality({k \in DOMAIN records : records[k].used}),
     attempts |-> FoldLeft(LAMBDA n, r : n + r.attempts, 0, records),
     hits |-> Cardinality({k \in DOMAIN records : records[k].hit})]

CompleteCount(runs) == Cardinality({i \in DOMAIN runs : runs[i].complete})

\* SerpMarketCollector.collect once every call has its record.
Collected(plan, records) ==
    LET runs == [i \in 1..(Len(records) \div 2) |-> QueryRun(plan, records, i)]
        results == FoldLeft(LAMBDA s, r : s \o r.results, <<>>, runs)
    IN  IF CompleteCount(runs) < QueryMin
        THEN [error |-> "INSUFFICIENT", retryable |-> \E k \in DOMAIN records : records[k].status = "failed_transient"]
        ELSE [runs |-> runs, budget |-> Budget(records), results |-> results, complete |-> CompleteCount(runs),
              counts |-> [t \in {"maps", "local_pack", "organic"} |-> Len(SelectSeq(results, LAMBDA r : r.type = t))]]

\* One run of the stage: the calls in order until the circuit refuses one.
CollectOnce(plan, ledgers, answers) ==
    LET n == Len(plan.calls)
        stop == Min({k \in 1..n : Refused(ledgers[k], answers[k])} \cup {n + 1})
        done == [k \in 1..n |-> Search(plan.calls[k], ledgers[k], answers[k])]
    IN  [ledgers |-> [k \in 1..n |-> IF k < stop THEN done[k].ledger ELSE ledgers[k]],
         outcome |-> IF stop <= n THEN [error |-> "CIRCUIT_OPEN", retryable |-> TRUE]
                     ELSE Collected(plan, [k \in 1..n |-> done[k].record])]

\* collect_context over the runs of a job: a saved snapshot is returned as it is.
CollectContext(plan, rounds) ==
    LET start == [ledgers |-> [k \in DOMAIN plan.calls |-> [attempts |-> 0, saved |-> <<>>]],
                  outcome |-> [error |-> "NOT_RUN", retryable |-> TRUE]]
    IN  FoldLeft(LAMBDA s, answers : IF "error" \in DOMAIN s.outcome /\ s.outcome.retryable
                                     THEN CollectOnce(plan, s.ledgers, answers) ELSE s, start, rounds)

-----------------------------------------------------------------------------
(* What is promised *)

ValidCall(r) == r.attempts \in 0..CallAttempts /\ r.used = (r.attempts > 0) /\ (r.status # "succeeded" => r.limits # {})

ValidRun(run) ==
    /\ run.maps.engine = "maps" /\ run.google.engine = "google"
    /\ ValidCall(run.maps) /\ ValidCall(run.google)
    /\ run.maps.query = run.query /\ run.google.query = run.query
    /\ run.complete = (run.maps.status = "succeeded" /\ run.google.status = "succeeded")
    /\ \A t \in {"maps", "local_pack", "organic"} : Len(SelectSeq(run.results, LAMBDA r : r.type = t)) <= ResultsPerType
    /\ \A r \in ToSet(run.results) : \E c \in {run.maps, run.google} :
          r.call = c.digest /\ r.type \in ToSet(ResultTypes(c.engine))

ValidBudget(b) == b.planned % 2 = 0 /\ b.used <= b.planned /\ b.limit = b.planned * CallAttempts /\ b.attempts <= b.limit

\* SerpMarketSnapshot.validate_snapshot
ValidSnapshot(plan, queries, s) ==
    /\ [i \in DOMAIN s.runs |-> s.runs[i].query] = queries /\ \A i \in DOMAIN s.runs : s.runs[i].index = i /\ ValidRun(s.runs[i])
    /\ s.complete = CompleteCount(s.runs) /\ s.complete \in QueryMin..QueryMax
    /\ ValidBudget(s.budget) /\ s.budget.planned = 2 * Len(queries)
    /\ \A i, j \in DOMAIN s.results : Identity(s.results[i]) = Identity(s.results[j]) => i = j

\* The snapshot accounts for every request of every run: what was claimed for a call is
\* what its record shows, whether this run or an earlier one sent it.
RequestsAreAccounted(ledgers, s) ==
    \A k \in DOMAIN ledgers :
        LET run == s.runs[(k + 1) \div 2]
            record == IF k % 2 = 1 THEN run.maps ELSE run.google
        IN  record.attempts = ledgers[k].attempts

\* Only a call without an answer is worth another run, and a job that a call could
\* have completed is not given up while attempts remain.
RetriedForAReason(result) ==
    "error" \in DOMAIN result.outcome /\ result.outcome.error = "INSUFFICIENT" =>
        LET open == {k \in DOMAIN result.ledgers : result.ledgers[k].saved = <<>>}
        IN  IF result.outcome.retryable THEN open # {}
            ELSE \E k \in DOMAIN result.ledgers :
                    IF k \in open THEN result.ledgers[k].attempts > 0 ELSE PayloadFails(result.ledgers[k].saved[1].payload)

MarketIsAccepted(queries, rounds) ==
    LET plan == BuildSearchPlan(queries)
        result == CollectContext(plan, rounds)
    IN  "calls" \in DOMAIN plan =>
            /\ ValidPlan(plan, queries)
            /\ RetriedForAReason(result)
            /\ "runs" \in DOMAIN result.outcome =>
                  /\ ValidSnapshot(plan, queries, result.outcome)
                  /\ RequestsAreAccounted(result.ledgers, result.outcome)
=============================================================================
