----------------------------- MODULE Measurement -----------------------------
(***************************************************************************)
(* Before and after: the windows around the day on which an action was     *)
(* carried out (comparison_windows.py), the health of a synchronised       *)
(* source (evaluate_health of gsc.py, ga4.py and gbp.py), the comparison   *)
(* of two stored snapshots (comparison.py) and the reading of GA4 sessions *)
(* (ga4_session_reading.py).  An instant is a number of hours, a date a    *)
(* number of days of DayHours hours, a time zone its offset.               *)
(***************************************************************************)
EXTENDS Integers, FiniteSets, SequencesExt, Ordering

CONSTANTS
    DayHours,       \* 24
    RecentDays,     \* 7: a source that has been silent for longer is stale
    GapDays         \* 14: a silent stretch between active dates is a gap

ASSUME MeasurementAssumption == DayHours \in Nat \ {0} /\ RecentDays \in Nat /\ GapDays \in Nat

DateOf(instant, zone) == (instant + zone) \div DayHours
Midnight(day, zone) == day * DayHours - zone
DaysOf(window) == window.start..window.end

\* Mutant: the whole day after the implementation day counts as after.
PlanWindowsOwnDate(day, own, source, days) ==
    [before |-> [start |-> day - days, end |-> day - 1],
     excluded |-> [start |-> day, end |-> day],
     after |-> [start |-> day + 1, end |-> day + days]]

\* plan_windows: the dates of the source that the implementation day touches are left
\* out; as many whole days before and after them are compared.
PlanWindows(day, own, source, days) ==
    LET excludedStart == DateOf(Midnight(day, own), source)
        excludedEnd == DateOf(Midnight(day + 1, own) - 1, source)
    IN  [before |-> [start |-> excludedStart - days, end |-> excludedStart - 1],
         excluded |-> [start |-> excludedStart, end |-> excludedEnd],
         after |-> [start |-> excludedEnd + 1, end |-> excludedEnd + days]]

\* ComparisonWindows.consistent
WindowsAccepted(windows, days) ==
    /\ \A w \in {windows.before, windows.after} : Cardinality(DaysOf(w)) = days
    /\ windows.before.end + 1 = windows.excluded.start
    /\ windows.excluded.end + 1 = windows.after.start

-----------------------------------------------------------------------------
(* Health.  A snapshot has the active dates of its current period, and facts  *)
(* named for what they say.                                                   *)

Silent(dates, end) ==
    LET sorted == Ascending(dates)
    IN  IF dates = {} THEN {}
        ELSE (IF end - Last(sorted) > RecentDays THEN {"RECENT_ACTIVITY_MISSING"} ELSE {})
             \cup (IF \E i \in 1..(Len(sorted) - 1) : sorted[i + 1] - sorted[i] - 1 >= GapDays
                   THEN {"ACTIVITY_GAP"} ELSE {})

Missing(facts, wanted) == wanted \ facts

\* evaluate_health of GSC: current totals, queries and pages, and dates.
GscProblems(s) ==
    Missing(s.facts, {"CURRENT_DATA", "QUERY_ROWS", "PAGE_ROWS"})
        \cup (IF s.dates = {} THEN {"ACTIVITY_DATES"} ELSE Silent(s.dates, s.end))

\* evaluate_health of GA4: a property whose dates all show zero sessions has date
\* rows, but no active date.
Ga4Problems(s) ==
    Missing(s.facts, {"CURRENT_SESSIONS", "LANDING_PAGE_ROWS", "DATE_ROWS", "CONFIGURED_KEY_EVENTS"})
        \cup Silent(s.dates, s.end)

ProfileChecks == {"voice_of_merchant", "open", "title", "website", "phone", "primary_category",
                  "regular_hours", "address_or_service_area"}

\* evaluate_health of GBP: every check of the profile, and current impressions.
GbpProblems(s) == Missing(s.facts, ProfileChecks \cup {"CURRENT_IMPRESSIONS"})

Problems(s) ==
    CASE s.source = "gsc" -> GscProblems(s)
      [] s.source = "ga4" -> Ga4Problems(s)
      [] s.source = "gbp" -> GbpProblems(s)

Health(s) == IF Problems(s) = {} THEN "healthy" ELSE "unhealthy"

-----------------------------------------------------------------------------
(* Comparison.  A stored snapshot: the dates its rows have, its coverage, the *)
(* hour it was fetched, its binding, identity, health, and the view of pages. *)

None == "none"
NoSnapshot == [present |-> FALSE]
NoDate == -1        \* before every date
Compared(state, reasons) == [state |-> state, reasons |-> reasons]

\* The last date that the snapshot can be trusted for: the day of the fetch was not over.
Cutoff(s, source) ==
    IF s.dates = {} THEN NoDate ELSE Min({Max(s.dates), DateOf(s.fetched, source) - 1})

\* _extract: every day of the window; for a page, the view of exactly that window.
Extract(s, window, dimension) ==
    IF ~(DaysOf(window) \subseteq s.dates) THEN "DAILY_COVERAGE_INCOMPLETE"
    ELSE IF dimension = "property" THEN None
    ELSE IF window \notin {s.previous, s.current} THEN "EXACT_WINDOW_AGGREGATE_REQUIRED"
    ELSE IF s.truncated THEN "DETAIL_TRUNCATED"
    ELSE IF s.view = "auto" THEN "AGGREGATION_NOT_SUPPORTED"
    ELSE IF s.view = "without_target" THEN "TARGET_NOT_OBSERVED_IN_BOTH_WINDOWS"
    ELSE None

\* The reports of GA4 carry no proof that they are complete: never comparable.  What else
\* stands against them is said first: r.flaws names what differs or is restricted.
CompareGa4(r) ==
    Compared("not_comparable",
        IF r.channel = "organic_search" THEN {"ORGANIC_CHANNEL_NOT_OBSERVED"}
        ELSE IF "hosts" \in r.flaws THEN {"HOST_SCOPE_CHANGED"}
        ELSE IF "zones" \in r.flaws THEN {"SOURCE_TIMEZONE_CHANGED"}
        ELSE IF "restricted" \in r.flaws THEN {"GA4_REPORT_RESTRICTED"}
        ELSE IF "events" \in r.flaws THEN {"GA4_EVENT_CONFIGURATION_CHANGED"}
        ELSE {"GA4_COMPLETENESS_NOT_ATTESTED", "GA4_EVENT_HISTORY_NOT_VERIFIED"})

CompareRows(r, windows, source) ==
    LET cutoffs == <<Cutoff(r.before, source), Cutoff(r.after, source)>>
        reasons == {Extract(r.before, windows.before, r.dimension),
                    Extract(r.after, windows.after, r.dimension)} \ {None}
    IN  IF cutoffs[1] < windows.before.end \/ cutoffs[2] < windows.after.end
        THEN Compared("insufficient", {"FINAL_DATE_COVERAGE_UNCONFIRMED"})
        ELSE IF reasons = {} THEN Compared("comparable", {})
        ELSE IF "AGGREGATION_NOT_SUPPORTED" \in reasons THEN Compared("not_comparable", reasons)
        ELSE Compared("insufficient", reasons)

\* compare_implementation: the first reason against the comparison decides.
Compare(r) ==
    LET windows == PlanWindows(r.day, r.own, r.source, r.days)
        elapsed == DateOf(r.evaluated, r.source) > windows.after.end
        both == {r.before, r.after}
    IN  IF NoSnapshot \in both THEN Compared(IF elapsed THEN "insufficient" ELSE "waiting", {"SNAPSHOT_MISSING"})
        ELSE IF r.before.binding # r.after.binding THEN Compared("not_comparable", {"SOURCE_BINDING_CHANGED"})
        ELSE IF \E s \in both : ~s.matched THEN Compared("not_comparable", {"IDENTITY_NOT_MATCHED"})
        ELSE IF \E s \in both : ~s.healthy THEN Compared("insufficient", {"SOURCE_UNHEALTHY"})
        ELSE IF r.after.expires <= r.evaluated THEN Compared("not_comparable", {"CURRENT_SNAPSHOT_EXPIRED"})
        ELSE IF r.filtered THEN Compared("not_comparable", {"COMBINED_DIMENSIONS_NOT_OBSERVED"})
        ELSE IF r.kind = "ga4" THEN CompareGa4(r)
        ELSE IF r.dimension = "landing_page" THEN Compared("not_comparable", {"DIMENSION_NOT_OBSERVED"})
        ELSE IF ~elapsed THEN Compared("waiting", {"AFTER_WINDOW_NOT_ELAPSED"})
        ELSE IF r.after.current.end < windows.after.end THEN Compared("waiting", {"AFTER_COLLECTION_NOT_AVAILABLE"})
        ELSE IF r.before.previous.start > windows.before.start \/ r.before.current.end < windows.before.end
        THEN Compared("insufficient", {"BEFORE_WINDOW_NOT_COVERED"})
        ELSE CompareRows(r, windows, r.source)

-----------------------------------------------------------------------------
(* GA4 sessions *)

\* relative_percent: two decimals, halves away from zero, in hundredths of a percent;
\* nothing without a baseline.
RelativePercent(before, after) ==
    LET rise == after - before
        size == IF rise < 0 THEN -rise ELSE rise
        rounded == (2 * size * 10000 + before) \div (2 * before)
    IN  IF before = 0 THEN {} ELSE IF rise < 0 THEN {-rounded} ELSE {rounded}

\* read_sessions: counts are shown when nothing speaks against either period.
ReadSessions(s) ==
    LET reasons == (IF DateOf(s.started, s.zone) <= s.after.end THEN {"WINDOW_NOT_ELAPSED"} ELSE {})
                   \cup (IF \E p \in {s.previous, s.current} : p.totals # 1 THEN {"TOTAL_NOT_RETURNED"} ELSE {})
                   \cup (IF \E p \in {s.previous, s.current} : p.dates # p.expected THEN {"DATES_NOT_RETURNED"} ELSE {})
                   \cup s.previous.flags \cup s.current.flags
    IN  IF reasons # {} THEN [state |-> "withheld", reasons |-> reasons]
        ELSE [state |-> "available", before |-> s.previous.sessions, after |-> s.current.sessions,
              change |-> RelativePercent(s.previous.sessions, s.current.sessions)]

-----------------------------------------------------------------------------
(* What is promised *)

\* No hour of the implementation day, in the zone of whoever did it, is in a window.
ImplementationIsExcluded(r, windows) ==
    \A hour \in Midnight(r.day, r.own)..(Midnight(r.day + 1, r.own) - 1) :
        /\ DateOf(hour, r.source) \notin DaysOf(windows.before) \cup DaysOf(windows.after)
        /\ DateOf(hour, r.source) \in DaysOf(windows.excluded)

\* A comparison that shows figures has every day of both windows, over at the fetch.
ComparableIsCovered(r, result) ==
    LET windows == PlanWindows(r.day, r.own, r.source, r.days)
        whole(s, w) == \A day \in DaysOf(w) : day \in s.dates /\ Midnight(day + 1, r.source) <= s.fetched
    IN  result.state = "comparable" =>
            /\ r.kind = "gsc" /\ whole(r.before, windows.before) /\ whole(r.after, windows.after)
            /\ Midnight(windows.after.end + 1, r.source) <= r.evaluated

\* A healthy source has no GapDays silent days between active ones, nor RecentDays + 1
\* silent days at its end.
ActivityIsSteady(s) ==
    s.source # "gbp" /\ s.dates # {} /\ Health(s) = "healthy" =>
        /\ \A day \in s.dates : day >= s.end - RecentDays \/ \E later \in s.dates : later > day
        /\ \A day \in s.dates : (\E later \in s.dates : later > day)
                                    => \E later \in s.dates : later \in (day + 1)..(day + GapDays)

\* The change that is shown is the exact one to within half a hundredth of a percent, and
\* never points the other way.
ChangeIsRounded(before, after, change) ==
    LET off == change * before - 10000 * (after - before)
    IN  /\ before > 0 /\ -before <= 2 * off /\ 2 * off <= before
        /\ change > 0 => after > before
        /\ change < 0 => after < before
=============================================================================
