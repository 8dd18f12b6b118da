------------------------- MODULE FirstPartyFindings -------------------------
(***************************************************************************)
(* Findings from the client's own sources: Search Console (gsc), Analytics *)
(* (ga4) and the Business Profile (gbp), each judged by itself.            *)
(*                                                                         *)
(* Outcomes form a set, since the result is sorted by rule and target; a   *)
(* rate is a quotient of counts, and so are a relative change and a score. *)
(* Evidence is named by what its identity digests, the confidence is not   *)
(* part of it.                                                             *)
(***************************************************************************)
EXTENDS Integers, Sequences, FiniteSets, FiniteSetsExt

CONSTANTS
    BusinessCap,        \* max_business_findings_per_source
    MeasurementCap,     \* max_measurement_findings_per_source
    EvaluationLimit,    \* max_evaluations
    EvidenceMax         \* max_evidence_items

OwnSources == {"gsc", "ga4", "gbp"}
NotSet == "(not set)"
HighCodes == {"no_data"}
KnownCodes == HighCodes \cup {"activity_gap"}

-----------------------------------------------------------------------------
(* Numbers *)

Score(n, d) == [n |-> n, d |-> d]
Exceeds(a, b) == a.n * b.d > b.n * a.d
AtMostShare(n, d, num, den, tn, td) == den * n * td <= num * tn * d     \* n/d <= num/den * tn/td

\* relative_change of two counts and of two quotients, unknown when the base is not positive.
Change(now, before) == [delta |-> now - before, base |-> before]
RateChange(n1, d1, n0, d0) == [delta |-> n1 * d0 - n0 * d1, base |-> n0 * d1]
IsKnown(c) == c.base > 0
Falls(c) == IsKnown(c) /\ 5 * c.delta <= -c.base
Rises(c) == IsKnown(c) /\ 5 * c.delta >= c.base
Moves(c) == Falls(c) \/ Rises(c)
Halves(c) == IsKnown(c) /\ 2 * c.delta <= -c.base
Magnitude(c) == Score(Max({c.delta, -c.delta}), c.base)
Band(c) == <<IF c.delta > 0 THEN "increase" ELSE "decrease", IF 2 * Magnitude(c).n >= c.base THEN "50_plus" ELSE "20_to_49">>

-----------------------------------------------------------------------------
(* Sources *)

\* What a source may be used for, and its health as the report states it.
Assessment(in, s) ==
    LET snap == in.snap[s]
    IN  IF ~snap.present THEN [state |-> "not_checked", health |-> "not_checked"]
        ELSE IF in.now >= snap.expires THEN [state |-> "not_checked", health |-> "expired"]
        ELSE IF ~snap.matched \/ snap.health \notin {"healthy", "unhealthy"} THEN [state |-> "not_checked", health |-> snap.health]
        ELSE [state |-> IF snap.health = "healthy" THEN "eligible_for_business" ELSE "configuration_only", health |-> snap.health]

Eligible(in, s) == Assessment(in, s).state = "eligible_for_business"
Measurable(in, s) == Assessment(in, s).state \in {"eligible_for_business", "configuration_only"}
BlockedReason(in, s) == IF Assessment(in, s).health = "expired" THEN "source_expired" ELSE "source_unhealthy"

-----------------------------------------------------------------------------
(* Evidence and outcomes *)

Piece(src, key, period, metric, conf) == [id |-> <<src, key, period, metric, "own", 0>>, conf |-> conf]
Target(src, kind, key) == <<src, kind, key>>

\* outcome: not checked for a reason why, else judged by whether the condition is met.
Judged(rule, kind, target, why, met, ev, comp, impact) ==
    LET on == why = "none" /\ met
    IN  [rule |-> rule, kind |-> kind, target |-> target,
         state |-> IF why # "none" THEN "not_checked" ELSE IF met THEN "triggered" ELSE "not_triggered",
         reason |-> IF why # "none" THEN why ELSE IF met THEN "condition_met" ELSE "condition_not_met",
         ev |-> IF on THEN ev ELSE {}, comp |-> IF on THEN comp ELSE {}, impact |-> IF on THEN impact ELSE Score(0, 1)]
Unchecked(rule, kind, target, why) == Judged(rule, kind, target, why, FALSE, {}, {}, Score(0, 1))
Triggered(outcomes) == {o \in outcomes : o.state = "triggered"}
References(outcomes) == UNION {o.ev \cup o.comp : o \in outcomes}

\* Problems of the measurement that the health of a source names.
MeasurementOutcomes(in, s) ==
    {Judged(<<s, "measurement", c>>, "measurement", Target(s, "coverage", c), "none", TRUE,
            {Piece(s, c, "current", "health_reason", "high")}, {}, Score(IF c \in HighCodes THEN 100 ELSE 50, 1)) :
        c \in IF Measurable(in, s) THEN in.snap[s].codes \cap KnownCodes ELSE {}}

BlockedOutcomes(in, s, rules) ==
    {Unchecked(<<s, r, "">>, "business", Target(s, "aggregate", r), BlockedReason(in, s)) : r \in rules}

-----------------------------------------------------------------------------
(* Search Console *)

GscPieces(key, period, metrics) == {Piece("gsc", key, period, m, "medium") : m \in metrics}

\* A query or a page that is seen on positions 4 to 20 and clicked 20 % less than the site.
GscOpportunity(in, kind, k) ==
    LET row == in.gsc[kind].current[k]
        total == in.gsc.totals.current
        minimum == IF kind = "query" THEN 50 ELSE 100
        why == IF total = <<>> \/ total[1].clicks = 0 THEN "field_not_observed"
               ELSE IF row.imp < minimum THEN "insufficient_sample" ELSE "none"
        met == row.pos \in 4..20 /\ AtMostShare(row.clicks, row.imp, 4, 5, total[1].clicks, total[1].imp)
    IN  Judged(<<"gsc", "opportunity", kind>>, "business", Target("gsc", kind, k), why, met,
               GscPieces(k, "current", {"impressions", "ctr", "position"}), GscPieces("site_total", "current", {"ctr"}),
               Score(Max({0, total[1].clicks * row.imp - row.clicks * total[1].imp}), total[1].imp))

\* The metric that fell most, clicks before impressions.
WorstDecline(changes) ==
    LET falling == {m \in DOMAIN changes : Falls(changes[m])}
    IN  IF "clicks" \in falling /\ ("impressions" \in falling => ~Exceeds(Magnitude(changes["impressions"]), Magnitude(changes["clicks"])))
        THEN "clicks" ELSE IF falling = {} THEN "none" ELSE "impressions"

\* Decline and growth of one query or page between the two periods.
GscTrends(in, kind, k) ==
    LET view == in.gsc[kind]
        now == view.current[k]
        before == view.previous[k]
        changes == [m \in {x \in {"clicks", "impressions"} : IF x = "clicks" THEN before.clicks >= 10 ELSE before.imp >= 50} |->
                       IF m = "clicks" THEN Change(now.clicks, before.clicks) ELSE Change(now.imp, before.imp)]
        worst == WorstDecline(changes)
        missing == k \notin DOMAIN view.current \cap DOMAIN view.previous
        lost == IF view.cut THEN "detail_truncated" ELSE "comparison_unavailable"
        declineWhy == IF missing THEN lost ELSE IF DOMAIN changes = {} THEN "insufficient_sample" ELSE "none"
        growthWhy == IF missing THEN lost ELSE IF before.clicks < 10 THEN "insufficient_sample" ELSE "none"
    IN  {Judged(<<"gsc", "decline", "">>, "business", Target("gsc", kind, k), declineWhy, worst # "none",
                GscPieces(k, "current", {worst}), GscPieces(k, "previous", {worst}), Score(-changes[worst].delta, 1)),
         Judged(<<"gsc", "growth", "">>, "business", Target("gsc", kind, k), growthWhy, Rises(changes["clicks"]),
                GscPieces(k, "current", {"clicks"}), GscPieces(k, "previous", {"clicks"}), Score(changes["clicks"].delta, 1))}

GscOutcomes(in) ==
    MeasurementOutcomes(in, "gsc") \cup
    IF ~Eligible(in, "gsc") THEN BlockedOutcomes(in, "gsc", {"query_opportunity", "page_opportunity", "decline", "growth"})
    ELSE UNION {{GscOpportunity(in, kind, k) : k \in DOMAIN in.gsc[kind].current}
                  \cup UNION {GscTrends(in, kind, k) : k \in DOMAIN in.gsc[kind].current \cup DOMAIN in.gsc[kind].previous} :
                kind \in {"query", "page"}}

-----------------------------------------------------------------------------
(* Analytics *)

Restricted(in, views) == UNION {in.ga4.restricted[v] : v \in views}
Ga4Views == {"totals", "pages", "dates", "events"}
Ga4Confidence(in) == IF in.ga4.degraded = {} THEN "medium" ELSE "low"
Ga4Pieces(in, key, period, metrics) == {Piece("ga4", key, period, m, Ga4Confidence(in)) : m \in metrics}

\* Sessions that no landing page is known for.
NotSetOutcome(in) ==
    Judged(<<"ga4", "measurement", "not_set">>, "measurement", Target("ga4", "coverage", "not_set"), "none", TRUE,
           {Piece("ga4", NotSet, "current", "sessions", "medium")}, {}, Score(in.ga4.pages.current[NotSet].sessions, 1))

\* Landing pages whose visitors engage 20 % less, or convert half as much, as those of the site.
EngagementGap(in, k) ==
    LET row == in.ga4.pages.current[k]
        total == in.ga4.totals.current
        why == IF Restricted(in, Ga4Views) \cap {"sessions", "engagedSessions", "engagementRate"} # {} THEN "provider_limitation"
               ELSE IF total = <<>> \/ total[1].engaged = 0 THEN "field_not_observed"
               ELSE IF row.sessions < 20 THEN "insufficient_sample" ELSE "none"
    IN  Judged(<<"ga4", "engagement_gap", "">>, "business", Target("ga4", "landing_page", k), why,
               AtMostShare(row.engaged, row.sessions, 4, 5, total[1].engaged, total[1].sessions),
               Ga4Pieces(in, k, "current", {"sessions", "engagement_rate"}), Ga4Pieces(in, "site_total", "current", {"engagement_rate"}),
               Score(Max({0, total[1].engaged * row.sessions - row.engaged * total[1].sessions}), total[1].sessions))

ConversionGap(in, k) ==
    LET row == in.ga4.pages.current[k]
        total == in.ga4.totals.current
        why == IF Restricted(in, Ga4Views) \cap {"sessions", "keyEvents", "sessionKeyEventRate"} # {} THEN "provider_limitation"
               ELSE IF ~in.ga4.configured \/ total = <<>> THEN "field_not_observed"
               ELSE IF row.sessions < 20 THEN "insufficient_sample" ELSE "none"
        low == total[1].converting > 0 /\ AtMostShare(row.converting, row.sessions, 1, 2, total[1].converting, total[1].sessions)
    IN  Judged(<<"ga4", "conversion_gap", "">>, "business", Target("ga4", "landing_page", k), why, row.events = 0 \/ low,
               Ga4Pieces(in, k, "current", {"sessions", "key_events", "session_key_event_rate"}),
               IF total[1].converting > 0 THEN Ga4Pieces(in, "site_total", "current", {"session_key_event_rate"}) ELSE {},
               Score(Max({0, total[1].converting * row.sessions - row.converting * total[1].sessions}), Max({1, total[1].sessions})))

\* The changes of a landing page that may be judged.
PageMetrics(in, now, before) ==
    LET all == [sessions |-> Change(now.sessions, before.sessions),
                engagementRate |-> RateChange(now.engaged, now.sessions, before.engaged, before.sessions),
                sessionKeyEventRate |-> RateChange(now.converting, now.sessions, before.converting, before.sessions)]
    IN  [m \in {x \in DOMAIN all : /\ x \notin Restricted(in, Ga4Views) /\ IsKnown(all[x])
                                   /\ x = "sessionKeyEventRate" => in.ga4.configured} |-> all[m]]

\* One outcome for what rose and one for what fell, or one that says why there is none.
PageChange(in, k) ==
    LET view == in.ga4.pages
        now == view.current[k]
        before == view.previous[k]
        changes == PageMetrics(in, now, before)
        why == IF k \notin DOMAIN view.current \cap DOMAIN view.previous THEN IF view.cut THEN "detail_truncated" ELSE "comparison_unavailable"
               ELSE IF now.sessions < 20 \/ before.sessions < 20 THEN "insufficient_sample"
               ELSE IF DOMAIN changes = {} THEN IF Restricted(in, Ga4Views) # {} THEN "provider_limitation" ELSE "comparison_unavailable"
               ELSE "none"
        Rule(kind, which, met) ==
            LET largest == CHOOSE m \in which : \A x \in which : ~Exceeds(Magnitude(changes[x]), Magnitude(changes[m]))
            IN  Judged(<<"ga4", "page_change", "">>, "business", Target("ga4", kind, k), why, met,
                       Ga4Pieces(in, k, "current", which), Ga4Pieces(in, k, "previous", which),
                       Score(Magnitude(changes[largest]).n * before.sessions, changes[largest].base))
        rising == {m \in DOMAIN changes : Rises(changes[m])}
        falling == {m \in DOMAIN changes : Falls(changes[m])}
    IN  IF why # "none" THEN {Unchecked(<<"ga4", "page_change", "">>, "business", Target("ga4", "landing_page", k), why)}
        ELSE IF rising \cup falling = {} THEN {Rule("landing_page", {}, FALSE)}
        ELSE (IF rising = {} THEN {} ELSE {Rule("landing_page|increase", rising, TRUE)})
               \cup (IF falling = {} THEN {} ELSE {Rule("landing_page|decrease", falling, TRUE)})

Ga4Outcomes(in) ==
    LET view == in.ga4.pages
        notSet == NotSet \in DOMAIN view.current /\ view.current[NotSet].sessions > 0
    IN  (MeasurementOutcomes(in, "ga4") \cup (IF Measurable(in, "ga4") /\ notSet THEN {NotSetOutcome(in)} ELSE {}))
          \cup IF ~Eligible(in, "ga4") THEN BlockedOutcomes(in, "ga4", {"engagement_gap", "conversion_gap", "page_change"})
               ELSE {EngagementGap(in, k) : k \in DOMAIN view.current} \cup {ConversionGap(in, k) : k \in DOMAIN view.current}
                      \cup UNION {PageChange(in, k) : k \in DOMAIN view.current \cup DOMAIN view.previous}

-----------------------------------------------------------------------------
(* Business Profile: numbers stay private, evidence holds a band of the change. *)

GbpChange(in, key, minimum) ==
    LET c == Change(in.gbp[key].current, in.gbp[key].previous)
    IN  Judged(<<"gbp", "change", key>>, "business", Target("gbp", "aggregate", key),
               IF in.gbp[key].previous < minimum THEN "insufficient_sample" ELSE "none", Moves(c),
               {Piece("gbp", key, "current_vs_previous", "change_band", "high")}, {Piece("gbp", key, "previous", "own_sample_gate", "high")},
               Score(IF Band(c)[2] = "50_plus" THEN 100 ELSE 50, 1))

SearchDemand(in) ==
    LET exact == {n \in in.gbp.keywords : n > 0}
    IN  Judged(<<"gbp", "search_demand", "">>, "business", Target("gbp", "search_demand", "leading_term"),
               IF exact = {} THEN "provider_limitation" ELSE "none", TRUE,
               {Piece("gbp", "leading_search_term", "keyword_months", "demand_tier", "high")}, {},
               Score(IF Max(exact) >= 100 THEN 100 ELSE IF Max(exact) >= 20 THEN 50 ELSE 20, 1))

GbpOutcomes(in) ==
    IF ~in.snap["gbp"].present
    THEN {Unchecked(<<"gbp", r, "">>, IF r = "measurement" THEN "measurement" ELSE "business", Target("gbp", "aggregate", r), "source_missing") :
             r \in {"impressions", "actions", "search_demand", "measurement"}}
    ELSE MeasurementOutcomes(in, "gbp") \cup
         IF ~Eligible(in, "gbp") THEN BlockedOutcomes(in, "gbp", {"impressions", "actions", "search_demand"})
         ELSE {GbpChange(in, "impressions", 50), GbpChange(in, "actions", 10), SearchDemand(in)}

-----------------------------------------------------------------------------
(* The result *)

OwnProposals(in) == GscOutcomes(in) \cup Ga4Outcomes(in) \cup GbpOutcomes(in)

\* The n findings of most impact; names decide between equals.
MostImpact(findings, n) ==
    IF Cardinality(findings) <= n THEN findings
    ELSE CHOOSE kept \in kSubset(n, findings) : \A f \in kept, g \in findings \ kept : ~Exceeds(g.impact, f.impact)

Dropped(o) == [o EXCEPT !.state = "not_checked", !.reason = "output_limit"]

\* _apply_caps: a finding over the limit of its source and kind becomes an evaluation that was not checked.
OwnCaps(outcomes) ==
    LET found == Triggered(outcomes)
        Group(s, kind) == {o \in found : o.target[1] = s /\ o.kind = kind}
        kept == UNION {MostImpact(Group(s, "business"), BusinessCap) \cup MostImpact(Group(s, "measurement"), MeasurementCap) : s \in OwnSources}
    IN  (outcomes \ found) \cup kept \cup {Dropped(o) : o \in found \ kept}

\* One name, two contents: the ledger and the validator refuse both.
LedgerConflict(pieces) == \E a, b \in pieces : a.id = b.id /\ a # b
EvaluationConflict(outcomes) == \E a, b \in outcomes : a.rule = b.rule /\ a.target = b.target /\ a # b
ReferencesInvalid(in, outcomes) ==
    \E o \in outcomes : \/ \E p \in o.ev \cup o.comp : p.id[1] # o.target[1]
                        \/ o.state = "triggered" /\ o.kind = "business" /\ (~Eligible(in, o.target[1]) \/ in.snap[o.target[1]].health # "healthy")
                        \/ o.state = "triggered" /\ o.ev = {}

\* _evaluate_first_party_request, on snapshots whose checksum and recomputed health agree or not.
OwnResult(in, proposed) ==
    LET evidence == References(proposed)
        outcomes == OwnCaps(proposed)
        error == IF \E s \in OwnSources : in.snap[s].present /\ ~in.snap[s].intact THEN "CHECKSUM_MISMATCH"
                 ELSE IF LedgerConflict(evidence) THEN "ID_CONFLICT"
                 ELSE IF Cardinality(evidence) > EvidenceMax \/ Cardinality(proposed) > EvaluationLimit THEN "LIMIT_EXCEEDED"
                 ELSE IF EvaluationConflict(outcomes) THEN "ID_CONFLICT"
                 ELSE IF ReferencesInvalid(in, outcomes) THEN "REFERENCE_INVALID" ELSE "none"
    IN  [error |-> error, outcomes |-> IF error = "none" THEN outcomes ELSE {}, evidence |-> IF error = "none" THEN evidence ELSE {}]
OwnFindings(in) == OwnResult(in, OwnProposals(in))
=============================================================================
