------------------------ MODULE CrossSourceFindings ------------------------
(***************************************************************************)
(* Findings that two of the client's sources support together: what they   *)
(* agree on, and where they move in opposite directions.                   *)
(***************************************************************************)
EXTENDS FirstPartyFindings

CONSTANTS
    PageAddress,            \* the parts of the page addresses that the sources report, as urlsplit gives them
    WeekDays, MinWeeks,     \* days of a week, minimum_weeks of spearman
    PageCap, PairCap,       \* findings per page rule, findings per pair on aggregates
    ConflictCap, CrossCap   \* max_measurement_findings, max_findings

Pairs == {"gsc_ga4", "gsc_gbp", "ga4_gbp"}
PairSources == [gsc_ga4 |-> <<"gsc", "ga4">>, gsc_gbp |-> <<"gsc", "gbp">>, ga4_gbp |-> <<"ga4", "gbp">>]

-----------------------------------------------------------------------------
(* Pairs *)

WindowsCompatible(a, b) ==
    /\ a.last - a.first = 89 /\ b.last - b.first = 89
    /\ a.last - b.last \in -3..3

\* Why a pair cannot be used, "none" when it can; another source never blocks it.
PairWhy(in, pair) ==
    LET both == {PairSources[pair][1], PairSources[pair][2]}
        barred == {s \in both : in.snap[s].present /\ ~Eligible(in, s)}
        a == in.window[PairSources[pair][1]]
        b == in.window[PairSources[pair][2]]
    IN  IF \E s \in both : ~in.snap[s].present THEN "source_missing"
        ELSE IF \E s \in barred : Assessment(in, s).health = "expired" THEN "source_expired"
        ELSE IF barred # {} THEN "source_unhealthy"
        ELSE IF ~WindowsCompatible(a.current, b.current) \/ ~WindowsCompatible(a.previous, b.previous) THEN "window_mismatch"
        ELSE "none"

\* The site of the report is the one that both sources observe.
DomainIsBound(in) == in.domain \in in.hosts /\ in.resource.host = in.domain /\ in.resource.path = ""

-----------------------------------------------------------------------------
(* Pages: raw addresses that name one page are one page. *)

Tracking == {"utm_source", "gclid"}

\* normalize_gsc_page and normalize_ga4_page: scheme, default port, "www.", a last slash and
\* tracking parameters do not count; an address of another host or an unsafe one is no page.
NormalizePage(in, source, raw) ==
    LET u == PageAddress[raw]
        fits == IF source = "ga4" THEN raw # NotSet /\ ~u.absolute
                ELSE u.absolute /\ u.host = in.domain /\ u.port # "other"
    IN  IF ~fits \/ u.unsafe THEN <<>> ELSE <<u.path, u.params \ Tracking>>

PageRows(in, source, period) == IF source = "gsc" THEN in.gsc.page[period] ELSE in.ga4.pages[period]
Group(in, source, period, page) ==
    {raw \in DOMAIN PageRows(in, source, period) : NormalizePage(in, source, raw) = page}
PageViews == {"gsc", "ga4"} \X {"current", "previous"}
Total(in, source, period, page, field) ==
    LET Value(row) == IF field = "places" THEN row.pos * row.imp ELSE row[field]
    IN  MapThenSumSet(LAMBDA raw : Value(PageRows(in, source, period)[raw]), Group(in, source, period, page))

-----------------------------------------------------------------------------
(* Rules *)

Aligned(c, d) == (Rises(c) /\ Rises(d)) \/ (Falls(c) /\ Falls(d))
Opposed(c, d) == (Rises(c) /\ Falls(d)) \/ (Falls(c) /\ Rises(d))
TrendScore(c, d) == Score(IF Halves(c) /\ Halves(d) THEN 100 ELSE 50, 1)

CrossTarget(pair, kind, key) == <<pair, kind, key, {}>>
PageTarget(page) == <<"gsc_ga4", "page", page[1], page[2]>>

PairPiece(source, key, period, metric, scope, week) == [id |-> <<source, key, period, metric, scope, week>>, conf |-> "medium"]
MergedPieces(in, source, period, page, metric) ==
    {PairPiece(source, raw, period, metric, "page", 0) : raw \in Group(in, source, period, page)}
TotalPieces(source, period, metric) == {PairPiece(source, "site_total", period, metric, "total", 0)}
WeekPieces(source, weeks, metric) == {PairPiece(source, "week", "current", metric, "week", w) : w \in weeks}

\* Clicks and sessions of one page, together or against each other.  An aligned page keeps
\* the reason of its trend in the evaluation of the conflict that it does not have.
PageTrend(in, page) ==
    LET clicks == [p \in {"current", "previous"} |-> Total(in, "gsc", p, page, "clicks")]
        sessions == [p \in {"current", "previous"} |-> Total(in, "ga4", p, page, "sessions")]
        c == Change(clicks["current"], clicks["previous"])
        d == Change(sessions["current"], sessions["previous"])
        cut == in.gsc.page.cut \/ in.ga4.pages.cut
        why == IF \E v \in PageViews : Group(in, v[1], v[2], page) = {} THEN IF cut THEN "detail_truncated" ELSE "comparison_unavailable"
               ELSE IF "sessions" \in Restricted(in, {"totals", "pages"}) THEN "provider_limitation"
               ELSE IF clicks["previous"] < 10 \/ sessions["current"] < 20 \/ sessions["previous"] < 20 THEN "insufficient_sample" ELSE "none"
        ev == MergedPieces(in, "gsc", "current", page, "clicks") \cup MergedPieces(in, "ga4", "current", page, "sessions")
        comp == MergedPieces(in, "gsc", "previous", page, "clicks") \cup MergedPieces(in, "ga4", "previous", page, "sessions")
        trend == Judged("page_trend", "business", PageTarget(page), why, Aligned(c, d), ev, comp, TrendScore(c, d))
        conflict == Judged("page_conflict", "measurement", PageTarget(page), why, Opposed(c, d), ev, comp, Score(20, 1))
    IN  {trend, IF trend.state = "triggered" THEN [conflict EXCEPT !.reason = "condition_met"] ELSE conflict}

\* A page that is seen in the search, and whose visitors engage or convert less than others.
PageOpportunity(in, page) ==
    LET imp == Total(in, "gsc", "current", page, "imp")
        clicks == Total(in, "gsc", "current", page, "clicks")
        places == Total(in, "gsc", "current", page, "places")
        sessions == Total(in, "ga4", "current", page, "sessions")
        events == Total(in, "ga4", "current", page, "events")
        g == in.gsc.totals.current
        a == in.ga4.totals.current
        why == IF \E s \in {"gsc", "ga4"} : Group(in, s, "current", page) = {} THEN "comparison_unavailable"
               ELSE IF Restricted(in, {"totals", "pages"}) \cap {"sessions", "engagedSessions", "engagementRate", "keyEvents", "sessionKeyEventRate"} # {}
                    THEN "provider_limitation"
               ELSE IF g = <<>> \/ a = <<>> THEN "field_not_observed"
               ELSE IF imp < 100 \/ sessions < 20 THEN "insufficient_sample" ELSE "none"
        search == places >= 4 * imp /\ places <= 20 * imp /\ AtMostShare(clicks, imp, 4, 5, g[1].clicks, g[1].imp)
        engagement == /\ a[1].engaged > 0
                      /\ AtMostShare(Total(in, "ga4", "current", page, "engaged"), sessions, 4, 5, a[1].engaged, a[1].sessions)
        conversion == /\ in.ga4.configured
                      /\ events = 0 \/ (a[1].converting > 0 /\ AtMostShare(events, sessions, 1, 2, a[1].converting, a[1].sessions))
    IN  Judged("page_opportunity", "business", PageTarget(page), why, search /\ (engagement \/ conversion),
               UNION {MergedPieces(in, "gsc", "current", page, m) : m \in {"impressions", "ctr", "position"}}
                 \cup UNION {MergedPieces(in, "ga4", "current", page, m) : m \in {"sessions", "engagement_rate", "key_events"}},
               TotalPieces("gsc", "current", "ctr") \cup TotalPieces("ga4", "current", "engagement_rate")
                 \cup TotalPieces("ga4", "current", "session_key_event_rate"),
               Score(IF engagement /\ conversion THEN 100 ELSE 50, 1))

PageRules == {<<"page_trend", "business">>, <<"page_opportunity", "business">>, <<"page_conflict", "measurement">>}
PageOutcomes(in) ==
    LET named == UNION {{NormalizePage(in, v[1], raw) : raw \in DOMAIN PageRows(in, v[1], v[2])} : v \in PageViews}
        Each(key, why) == {Unchecked(r[1], r[2], CrossTarget("gsc_ga4", "page", key), why) : r \in PageRules}
    IN  IF PairWhy(in, "gsc_ga4") # "none" THEN Each("page", PairWhy(in, "gsc_ga4"))
        ELSE (IF <<>> \in named THEN Each("invalid_page_identity", "page_identity_ambiguous") ELSE {})
               \cup UNION {PageTrend(in, page) \cup {PageOpportunity(in, page)} : page \in named \ {<<>>}}

\* Two totals that move by at least 20 % each, given enough of both.
Together(pair, key, why, c, d, sources, trend, conflict) ==
    LET ev == UNION {sources[s].now : s \in DOMAIN sources}
        comp == UNION {sources[s].before : s \in DOMAIN sources}
    IN  {Judged(trend, "business", CrossTarget(pair, "aggregate", key), why, Aligned(c, d), ev, comp, TrendScore(c, d)),
         Judged(conflict, "measurement", CrossTarget(pair, "aggregate", key), why, Opposed(c, d), ev, comp, Score(20, 1))}

TotalRefs(source, metric) == [now |-> TotalPieces(source, "current", metric), before |-> TotalPieces(source, "previous", metric)]
GbpRefs(key) == [now |-> {Piece("gbp", key, "current_vs_previous", "change_band", "high")},
                 before |-> {Piece("gbp", key, "previous", "pair_sample_gate", "high")}]
Known(totals) == totals.current # <<>> /\ totals.previous # <<>>

AggregateOutcomes(in) ==
    LET g == in.gsc.totals
        a == in.ga4.totals
        why == IF PairWhy(in, "gsc_ga4") # "none" THEN PairWhy(in, "gsc_ga4")
               ELSE IF "sessions" \in Restricted(in, {"totals"}) THEN "provider_limitation"
               ELSE IF ~Known(g) \/ ~Known(a) THEN "comparison_unavailable"
               ELSE IF g.previous[1].clicks < 10 \/ a.current[1].sessions < 20 \/ a.previous[1].sessions < 20 THEN "insufficient_sample"
               ELSE "none"
    IN  Together("gsc_ga4", "organic_demand", why, Change(g.current[1].clicks, g.previous[1].clicks),
                 Change(a.current[1].sessions, a.previous[1].sessions),
                 [gsc |-> TotalRefs("gsc", "clicks"), ga4 |-> TotalRefs("ga4", "sessions")], "aggregate_trend", "aggregate_conflict")

\* The Business Profile with the search, by impressions, and with the site, by sessions and actions.
GbpPairOutcomes(in, pair, source, key, otherMin, gbpMin) ==
    LET t == in[source].totals
        Other(row) == IF source = "gsc" THEN row.imp ELSE row.sessions
        metric == IF source = "gsc" THEN "impressions" ELSE "sessions"
        why == IF PairWhy(in, pair) # "none" THEN PairWhy(in, pair)
               ELSE IF source = "ga4" /\ "sessions" \in Restricted(in, {"totals"}) THEN "provider_limitation"
               ELSE IF ~Known(t) THEN "comparison_unavailable"
               ELSE IF Other(t.previous[1]) < otherMin \/ in.gbp[key].previous < gbpMin
                       \/ (source = "ga4" /\ Other(t.current[1]) < otherMin) THEN "insufficient_sample"
               ELSE "none"
    IN  Together(pair, key, why, Change(Other(t.current[1]), Other(t.previous[1])), Change(in.gbp[key].current, in.gbp[key].previous),
                 [other |-> TotalRefs(source, metric), gbp |-> GbpRefs(key)], "profile_trend", "profile_conflict")

-----------------------------------------------------------------------------
(* Weeks: days are numbers, a week starts on a multiple of WeekDays. *)

\* complete_week_pairs: the weeks of both windows that both series have every day of, less the lag.
WeekPairs(left, right, start, end, lag) ==
    {w \in start..end : /\ w % WeekDays = 0 /\ w + WeekDays - 1 <= end - lag
                        /\ w..(w + WeekDays - 1) \subseteq DOMAIN left \cap DOMAIN right}
WeekSum(series, w) == MapThenSumSet(LAMBDA d : series[d], w..(w + WeekDays - 1))

\* Twice the distance of the average rank of a week from the mean rank.
RankOffset(series, weeks, w) ==
    2 * Cardinality({v \in weeks : WeekSum(series, v) < WeekSum(series, w)})
      + Cardinality({v \in weeks : WeekSum(series, v) = WeekSum(series, w)}) - Cardinality(weeks)

\* spearman, as the sign of the correlation when it is at least 0.7 either way, and "none" when unknown.
Correlation(left, right, weeks) ==
    LET Product(a, b) == MapThenSumSet(LAMBDA w : RankOffset(a, weeks, w) * RankOffset(b, weeks, w), weeks)
        num == Product(left, right)
        strong == 100 * num * num >= 49 * Product(left, left) * Product(right, right)
        Flat(series) == Cardinality({WeekSum(series, w) : w \in weeks}) < 2
    IN  IF Cardinality(weeks) < MinWeeks \/ Flat(left) \/ Flat(right) THEN "unknown"
        ELSE IF ~strong THEN "weak" ELSE IF num > 0 THEN "positive" ELSE "inverse"

WeeklyOutcomes(in) ==
    LET weeks == WeekPairs(in.days.gsc, in.days.ga4, in.days.start, in.days.end, in.days.lag)
        rho == Correlation(in.days.gsc, in.days.ga4, weeks)
        why == IF PairWhy(in, "gsc_ga4") # "none" THEN PairWhy(in, "gsc_ga4")
               ELSE IF "sessions" \in Restricted(in, {"dates"}) THEN "provider_limitation"
               ELSE IF rho = "unknown" THEN "insufficient_sample" ELSE "none"
        ev == WeekPieces("gsc", weeks, "weekly_clicks")
        comp == WeekPieces("ga4", weeks, "weekly_sessions")
        target == CrossTarget("gsc_ga4", "weekly_series", "organic_weekly")
    IN  {Judged("weekly_movement", "business", target, why, rho = "positive", ev, comp, Score(50, 1)),
         Judged("weekly_conflict", "measurement", target, why, rho = "inverse", ev, comp, Score(20, 1))}

-----------------------------------------------------------------------------
(* The result *)

CrossProposals(in) ==
    PageOutcomes(in) \cup AggregateOutcomes(in) \cup WeeklyOutcomes(in)
      \cup GbpPairOutcomes(in, "gsc_gbp", "gsc", "impressions", 50, 50)
      \cup GbpPairOutcomes(in, "ga4_gbp", "ga4", "actions", 20, 10)

\* _apply_caps: each group by its limit, then what is left by the limit of all.
CrossCaps(outcomes) ==
    LET found == Triggered(outcomes)
        business == {o \in found : o.kind = "business"}
        Pages(rule) == {o \in business : o.target[2] = "page" /\ o.rule = rule}
        Aggregates(pair) == {o \in business : o.target[2] # "page" /\ o.target[1] = pair}
        grouped == MostImpact(found \ business, ConflictCap) \cup UNION {MostImpact(Aggregates(p), PairCap) : p \in Pairs}
                     \cup UNION {MostImpact(Pages(r[1]), PageCap) : r \in PageRules}
        kept == MostImpact(grouped, CrossCap)
    IN  (outcomes \ found) \cup kept \cup {Dropped(o) : o \in found \ kept}

\* validate_result: a finding refers to both sources of its pair, and to no other.
CrossInvalid(in, outcomes) ==
    \E o \in Triggered(outcomes) :
        \/ {p.id[1] : p \in o.ev \cup o.comp} # {PairSources[o.target[1]][1], PairSources[o.target[1]][2]}
        \/ o.comp = {}
        \/ o.kind = "business" /\ PairWhy(in, o.target[1]) # "none"

\* _evaluate_cross_source_request, on the findings of the sources recomputed.
CrossResult(in, own, proposed) ==
    LET outcomes == CrossCaps(proposed)
        error == IF own.error # "none" THEN own.error
                 ELSE IF ~DomainIsBound(in) THEN "BINDING_INVALID"
                 ELSE IF LedgerConflict(own.evidence \cup References(proposed)) THEN "ID_CONFLICT"
                 ELSE IF Cardinality(own.evidence \cup References(proposed)) > EvidenceMax
                         \/ Cardinality(proposed) > EvaluationLimit THEN "LIMIT_EXCEEDED"
                 ELSE IF CrossInvalid(in, outcomes) THEN "RESULT_INVALID" ELSE "none"
    IN  [error |-> error, own |-> own.outcomes, outcomes |-> IF error = "none" THEN outcomes ELSE {}]
CrossFindings(in) == CrossResult(in, OwnFindings(in), CrossProposals(in))

-----------------------------------------------------------------------------
(* What the findings promise *)

\* Snapshots that are what they claim to be give findings, and never a refusal; those of a
\* sampled report that has sessions without a landing page may name one piece of evidence twice.
SampledNotSet(in) == in.ga4.degraded # {} /\ NotSet \in DOMAIN in.ga4.pages.current

\* Growth and decline of one query or page are of different metrics.
TrendsAreConsistent(outcomes) ==
    \A o, p \in Triggered(outcomes) :
        o.target = p.target /\ o.rule[2] = "growth" /\ p.rule[2] = "decline" => o.ev \cap p.ev = {}

\* What limits leave out has no more impact than what they keep of its kind, and keeps its evidence.
LimitsKeepImpact(proposed, outcomes) ==
    \A o \in Triggered(proposed) : o \notin outcomes =>
        /\ Dropped(o) \in outcomes /\ o.ev # {}
        /\ \A f \in Triggered(outcomes) : f.kind = o.kind /\ f.rule = o.rule /\ f.target[1] = o.target[1] => ~Exceeds(o.impact, f.impact)

\* A page that each source knows by one address.
OneAddress(in, page) == \A s \in {"gsc", "ga4"} :
    /\ Cardinality(Group(in, s, "current", page)) = 1 /\ Group(in, s, "current", page) = Group(in, s, "previous", page)
Says(outcomes, rule, kind, key) ==
    \E o \in Triggered(outcomes) : o.rule[1] = kind[1] /\ o.rule[2] = rule /\ o.target[2] = kind[2] /\ o.target[3] = key

\* What two sources say of a page together, each says by its own rules, unless Analytics
\* restricts a metric elsewhere or the site has no clicks to compare with.
PageConfirmed(in, own, o) ==
    LET page == <<o.target[3], o.target[4]>>
        g == CHOOSE raw \in Group(in, "gsc", "current", page) : TRUE
        a == CHOOSE raw \in Group(in, "ga4", "current", page) : TRUE
        fell == Says(own, "decline", <<"gsc", "page">>, g)
        rose == Says(own, "growth", <<"gsc", "page">>, g)
        less == Says(own, "page_change", <<"ga4", "landing_page|decrease">>, a)
        more == Says(own, "page_change", <<"ga4", "landing_page|increase">>, a)
    IN  Restricted(in, {"dates", "events"}) = {} =>
        /\ o.rule = "page_trend" => (fell /\ less) \/ (rose /\ more)
        /\ o.rule = "page_conflict" => (fell /\ more) \/ (rose /\ less)
        /\ o.rule = "page_opportunity" =>
              /\ in.gsc.totals.current[1].clicks > 0 => Says(own, "opportunity", <<"gsc", "page">>, g)
              /\ Says(own, "engagement_gap", <<"ga4", "landing_page">>, a) \/ Says(own, "conversion_gap", <<"ga4", "landing_page">>, a)

Confirmed(in, own, o) ==
    /\ o.target[2] = "page" /\ OneAddress(in, <<o.target[3], o.target[4]>>) => PageConfirmed(in, own, o)
    /\ o.target[1] \in {"gsc_gbp", "ga4_gbp"} => Says(own, "change", <<"gbp", "aggregate">>, o.target[3])

\* Two sources never both agree and disagree on one thing.
NoAgreedConflict(outcomes) ==
    \A o, p \in Triggered(outcomes) : o.target = p.target /\ o.kind # p.kind => o.rule = "page_opportunity" \/ p.rule = "page_opportunity"

CrossIsSound(in, out) ==
    out.error = "none" =>
        \A own \in {OwnProposals(in)}, proposed \in {CrossProposals(in)} :
            /\ TrendsAreConsistent(out.own) /\ LimitsKeepImpact(own, out.own)
            /\ NoAgreedConflict(out.outcomes) /\ LimitsKeepImpact(proposed, out.outcomes)
            /\ \A o \in Triggered(proposed) : Confirmed(in, own, o)

\* The ranks find every agreement and every opposition in order, whichever series comes first.
WeeksAgree(left, right, weeks, found) ==
    LET Order(sign) == \A v, w \in weeks : WeekSum(left, v) < WeekSum(left, w) <=> sign * (WeekSum(right, w) - WeekSum(right, v)) > 0
    IN  /\ found # "unknown" => (Order(1) => found = "positive") /\ (Order(-1) => found = "inverse")
        /\ found = Correlation(right, left, weeks)
=============================================================================
