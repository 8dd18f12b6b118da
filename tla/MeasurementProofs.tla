--------------------------- MODULE MeasurementProofs ---------------------------
(***************************************************************************)
(* What Measurement promises, for every day, time zone, snapshot, source   *)
(* and count: the windows of an implementation leave its day out, a        *)
(* comparison that shows figures has days that were over, a healthy source *)
(* has no silent stretch, and a change is the exact one to two decimals.   *)
(* The invariants that TLC checks on small inputs, of the measurement and  *)
(* of the inventory (InventoryProofs), follow for every value of the       *)
(* limits.                                                                 *)
(***************************************************************************)
EXTENDS MCAlgorithms, InventoryProofs

-----------------------------------------------------------------------------
(* Days and hours.                                                           *)

\* A number is in the interval that its quotient starts.
LEMMA Quotient ==
    ASSUME NEW a \in Int, NEW d \in Nat, d > 0
    PROVE  /\ a \div d \in Int
           /\ d * (a \div d) <= a /\ a < d * (a \div d) + d
  OBVIOUS

\* A product with a positive number grows.
LEMMA ProductGrows ==
    ASSUME NEW x \in Int, NEW y \in Int, x < y, NEW d \in Nat, d > 0
    PROVE  d * x + d <= d * y
  <1>1. d * (y - x - 1) >= 0
    OBVIOUS
  <1>2. d * (y - x - 1) = d * y - d * x - d
    OBVIOUS
  <1>3. d * x \in Int /\ d * y \in Int
    OBVIOUS
  <1> QED
    BY <1>1, <1>2, <1>3

\* A later instant is not on an earlier date (local_date of comparison_windows.py).
LEMMA DatesFollowInstants ==
    ASSUME NEW i \in Int, NEW j \in Int, NEW zone \in Int, i <= j
    PROVE  DateOf(i, zone) \in Int /\ DateOf(j, zone) \in Int /\ DateOf(i, zone) <= DateOf(j, zone)
  <1> DEFINE a == i + zone  b == j + zone  q == a \div DayHours  p == b \div DayHours
  <1>1. DayHours \in Nat /\ DayHours > 0
    BY MeasurementAssumption
  <1>2. a \in Int /\ b \in Int /\ a <= b
    OBVIOUS
  <1> HIDE DEF a, b
  <1>3. q \in Int /\ DayHours * q <= a
    BY <1>1, <1>2, Quotient
  <1>4. p \in Int /\ b < DayHours * p + DayHours
    BY <1>1, <1>2, Quotient
  <1> HIDE DEF q, p
  <1>5. ASSUME p < q PROVE FALSE
    <2>1. DayHours * p + DayHours <= DayHours * q
      BY <1>1, <1>3, <1>4, <1>5, ProductGrows
    <2>2. DayHours * p \in Int /\ DayHours * q \in Int
      BY <1>1, <1>3, <1>4
    <2> QED
      BY <1>1, <1>2, <1>3, <1>4, <2>1, <2>2
  <1>6. q <= p
    BY <1>3, <1>4, <1>5
  <1> QED
    BY <1>3, <1>4, <1>6 DEF DateOf, a, b, q, p

\* A day is over at an instant when the instant is on a later date (Cutoff, elapsed).
LEMMA LaterDatesAreOver ==
    ASSUME NEW i \in Int, NEW zone \in Int, NEW day \in Int, day < DateOf(i, zone)
    PROVE  Midnight(day + 1, zone) <= i
  <1> DEFINE a == i + zone  q == a \div DayHours
  <1>1. DayHours \in Nat /\ DayHours > 0
    BY MeasurementAssumption
  <1>2. a \in Int
    OBVIOUS
  <1>3. q = DateOf(i, zone)
    BY DEF DateOf
  <1> HIDE DEF a
  <1>4. q \in Int /\ DayHours * q <= a
    BY <1>1, <1>2, Quotient
  <1> HIDE DEF q
  <1>5. day < q
    BY <1>3
  <1>6. DayHours * day + DayHours <= DayHours * q
    BY <1>1, <1>4, <1>5, ProductGrows
  <1>7. (day + 1) * DayHours = DayHours * day + DayHours
    BY <1>1
  <1>8. DayHours * day \in Int /\ DayHours * q \in Int
    BY <1>1, <1>4
  <1>9. (day + 1) * DayHours <= i + zone
    BY <1>1, <1>2, <1>4, <1>6, <1>7, <1>8 DEF a
  <1> QED
    BY <1>1, <1>7, <1>8, <1>9 DEF Midnight

\* The first hour of a day is an instant, and it is before the first hour of the next one.
LEMMA MidnightsAreInstants ==
    ASSUME NEW day \in Int, NEW zone \in Int
    PROVE  /\ Midnight(day, zone) \in Int /\ Midnight(day + 1, zone) \in Int
           /\ Midnight(day, zone) <= Midnight(day + 1, zone) - 1
  <1>1. DayHours \in Nat /\ DayHours > 0
    BY MeasurementAssumption
  <1>2. (day + 1) * DayHours = day * DayHours + DayHours /\ day * DayHours \in Int
    BY <1>1
  <1> QED
    BY <1>1, <1>2 DEF Midnight

-----------------------------------------------------------------------------
(* Windows (plan_windows, ComparisonWindows.consistent).                     *)

\* The windows of a day whose excluded dates have these ends.
WindowsAround(first, last, days) ==
    [before |-> [start |-> first - days, end |-> first - 1],
     excluded |-> [start |-> first, end |-> last],
     after |-> [start |-> last + 1, end |-> last + days]]
Excludes(first, last, day, own, source) ==
    /\ first = DateOf(Midnight(day, own), source)
    /\ last = DateOf(Midnight(day + 1, own) - 1, source)
    /\ first <= last

\* The windows as numbers: where the excluded days start and end.
LEMMA WindowsArePlanned ==
    ASSUME NEW day \in Int, NEW own \in Int, NEW source \in Int, NEW days \in Nat
    PROVE  \E first, last \in Int :
               /\ Excludes(first, last, day, own, source)
               /\ PlanWindows(day, own, source, days) = WindowsAround(first, last, days)
  <1> DEFINE first == DateOf(Midnight(day, own), source)
             last == DateOf(Midnight(day + 1, own) - 1, source)
  <1>1. /\ Midnight(day, own) \in Int /\ Midnight(day + 1, own) - 1 \in Int
        /\ Midnight(day, own) <= Midnight(day + 1, own) - 1
    BY MidnightsAreInstants
  <1>2. first \in Int /\ last \in Int /\ first <= last
    BY <1>1, DatesFollowInstants
  <1>3. PlanWindows(day, own, source, days) = WindowsAround(first, last, days)
    BY DEF PlanWindows, WindowsAround
  <1> HIDE DEF first, last
  <1>4. Excludes(first, last, day, own, source)
    BY <1>2 DEF first, last, Excludes
  <1> QED
    BY <1>2, <1>3, <1>4

\* The windows that plan_windows gives have as many whole days as were asked for, on the two
\* sides of the days that are left out, so that ComparisonWindows.consistent accepts them.
THEOREM WindowsAreAccepted ==
    ASSUME NEW day \in Int, NEW own \in Int, NEW source \in Int, NEW days \in Nat
    PROVE  WindowsAccepted(PlanWindows(day, own, source, days), days)
  <1>1. PICK first, last \in Int :
            /\ Excludes(first, last, day, own, source)
            /\ PlanWindows(day, own, source, days) = WindowsAround(first, last, days)
    BY WindowsArePlanned
  <1>2. Cardinality((first - days)..(first - 1)) = days
    <2>1. first - days \in Int /\ first - 1 \in Int
      OBVIOUS
    <2>2. Cardinality((first - days)..(first - 1)) =
              IF first - days > first - 1 THEN 0 ELSE (first - 1) - (first - days) + 1
      BY <2>1, FS_Interval
    <2> QED
      BY <2>2
  <1>3. Cardinality((last + 1)..(last + days)) = days
    <2>1. last + days \in Int /\ last + 1 \in Int
      OBVIOUS
    <2>2. Cardinality((last + 1)..(last + days)) = IF last + 1 > last + days THEN 0 ELSE (last + days) - (last + 1) + 1
      BY <2>1, FS_Interval
    <2> QED
      BY <2>2
  <1> DEFINE w == PlanWindows(day, own, source, days)
  <1>4. DaysOf(w.before) = (first - days)..(first - 1) /\ DaysOf(w.after) = (last + 1)..(last + days)
    BY <1>1 DEF DaysOf, WindowsAround
  <1>5. w.before.end + 1 = w.excluded.start /\ w.excluded.end + 1 = w.after.start
    BY <1>1 DEF WindowsAround
  <1> HIDE DEF w
  <1>6. WindowsAccepted(w, days)
    BY <1>2, <1>3, <1>4, <1>5 DEF WindowsAccepted
  <1> QED
    BY <1>6 DEF w

\* The hours of a day, in one zone, are on the dates that are left out in another.
LEMMA HoursAreExcluded ==
    ASSUME NEW day \in Int, NEW own \in Int, NEW source \in Int, NEW days \in Nat,
           NEW hour \in Midnight(day, own)..(Midnight(day + 1, own) - 1)
    PROVE  LET w == PlanWindows(day, own, source, days)
           IN  /\ DateOf(hour, source) \notin DaysOf(w.before) \cup DaysOf(w.after)
               /\ DateOf(hour, source) \in DaysOf(w.excluded)
  <1> DEFINE w == PlanWindows(day, own, source, days)
  <1>1. PICK first, last \in Int :
            /\ Excludes(first, last, day, own, source)
            /\ PlanWindows(day, own, source, days) = WindowsAround(first, last, days)
    BY WindowsArePlanned
  <1>2. /\ Midnight(day, own) \in Int /\ Midnight(day + 1, own) - 1 \in Int
    BY MidnightsAreInstants
  <1>3. /\ DaysOf(w.before) = (first - days)..(first - 1)
        /\ DaysOf(w.after) = (last + 1)..(last + days)
        /\ DaysOf(w.excluded) = first..last
    BY <1>1 DEF DaysOf, WindowsAround
  <1> HIDE DEF w
  <1>4. hour \in Int /\ Midnight(day, own) <= hour /\ hour <= Midnight(day + 1, own) - 1
    BY <1>2
  <1>5. DateOf(hour, source) \in Int /\ first <= DateOf(hour, source)
    BY <1>1, <1>2, <1>4, DatesFollowInstants DEF Excludes
  <1>6. DateOf(hour, source) <= last
    BY <1>1, <1>2, <1>4, DatesFollowInstants DEF Excludes
  <1>7. /\ DateOf(hour, source) \notin DaysOf(w.before) \cup DaysOf(w.after)
        /\ DateOf(hour, source) \in DaysOf(w.excluded)
    BY <1>1, <1>3, <1>5, <1>6 DEF Excludes
  <1> QED
    BY <1>7 DEF w

\* In every pair of time zones, every hour of the implementation day, in the zone of whoever
\* carried it out, is on an excluded date of the source and in neither window (plan_windows).
THEOREM ImplementationStaysOut ==
    ASSUME NEW r, r.day \in Int, r.own \in Int, r.source \in Int, r.days \in Nat
    PROVE  ImplementationIsExcluded(r, PlanWindows(r.day, r.own, r.source, r.days))
  BY HoursAreExcluded DEF ImplementationIsExcluded

-----------------------------------------------------------------------------
(* Comparisons (compare_implementation, _extract, the cutoff of a snapshot). *)

\* The greatest of a finite set of numbers.
LEMMA MaxOfNumbers ==
    ASSUME NEW s \in SUBSET Int, IsFiniteSet(s), s # {}
    PROVE  Max(s) \in s /\ \A x \in s : x <= Max(s)
  <1> DEFINE list == Ascending(s)  c == Cardinality(s)
  <1>1. /\ list \in [1..c -> s]
        /\ \A x \in s : \E i \in 1..c : list[i] = x
        /\ \A i, j \in 1..c : i < j => list[i] < list[j]
    BY AscendingLists
  <1>2. c \in Nat
    BY FS_CardinalityType
  <1> HIDE DEF list, c
  <1>3. c \in 1..c
    <2>1. PICK x \in s : TRUE
      OBVIOUS
    <2>2. PICK i \in 1..c : list[i] = x
      BY <1>1
    <2> QED
      BY <1>2, <2>2
  <1>4. list[c] \in s
    BY <1>1, <1>3
  <1>5. \A x \in s : list[c] >= x
    <2> TAKE x \in s
    <2>1. PICK i \in 1..c : list[i] = x
      BY <1>1
    <2>2. CASE i = c
      BY <1>4, <2>1, <2>2
    <2>3. CASE i # c
      <3>1. i < c
        BY <1>2, <2>3
      <3>2. list[i] < list[c]
        BY <1>1, <1>3, <3>1
      <3>3. list[c] \in Int /\ x \in Int
        BY <1>4
      <3> QED
        BY <2>1, <3>2, <3>3
    <2> QED
      BY <2>2, <2>3
  <1>6. \E x \in s : \A y \in s : x >= y
    BY <1>4, <1>5
  <1>7. Max(s) \in s /\ \A y \in s : Max(s) >= y
    BY <1>6 DEF Max
  <1> QED
    BY <1>7

\* The lesser of two numbers.
LEMMA MinOfPair ==
    ASSUME NEW a \in Int, NEW b \in Int
    PROVE  Min({a, b}) \in Int /\ Min({a, b}) <= a /\ Min({a, b}) <= b
  <1>1. \E x \in {a, b} : \A y \in {a, b} : x <= y
    OBVIOUS
  <1>2. Min({a, b}) \in {a, b} /\ \A y \in {a, b} : Min({a, b}) <= y
    BY <1>1 DEF Min
  <1> QED
    BY <1>2

\* A snapshot with what the comparison of dates needs: dates, and the hour of the fetch.
IsStored(s) == s # NoSnapshot /\ s.dates \in SUBSET Int /\ IsFiniteSet(s.dates) /\ s.fetched \in Int
IsSnapshot(s) == s = NoSnapshot \/ IsStored(s)

\* Dates up to the cutoff of a snapshot were over when it was fetched.
LEMMA CutoffIsOver ==
    ASSUME NEW s, IsStored(s), NEW source \in Int, NEW end \in Int, ~(Cutoff(s, source) < end),
           NEW day \in s.dates, day <= end
    PROVE  Midnight(day + 1, source) <= s.fetched
  <1> DEFINE dates == s.dates  fetched == s.fetched
             top == Max(dates)  last == DateOf(fetched, source) - 1
  <1>1. dates \in SUBSET Int /\ IsFiniteSet(dates) /\ fetched \in Int /\ day \in dates /\ dates # {}
    BY DEF IsStored
  <1>2. Cutoff(s, source) = Min({top, last})
    BY <1>1 DEF Cutoff
  <1> HIDE DEF dates, fetched
  <1>3. top \in Int
    BY <1>1, MaxOfNumbers
  <1>4. DateOf(fetched, source) \in Int
    BY <1>1, DatesFollowInstants
  <1>5. last \in Int /\ last < DateOf(fetched, source)
    BY <1>4
  <1> HIDE DEF top, last
  <1>6. Min({top, last}) \in Int /\ Min({top, last}) <= last
    BY <1>3, <1>5, MinOfPair
  <1>7. end <= Min({top, last})
    BY <1>2, <1>6
  <1>8. day \in Int
    BY <1>1
  <1>9. day < DateOf(fetched, source)
    BY <1>4, <1>5, <1>6, <1>7, <1>8
  <1>10. Midnight(day + 1, source) <= fetched
    BY <1>1, <1>8, <1>9, LaterDatesAreOver
  <1> QED
    BY <1>10 DEF fetched

\* Whatever _extract finds nothing against has every day of the window.
LEMMA ExtractsAreCovered ==
    ASSUME NEW s, NEW window, NEW dimension, Extract(s, window, dimension) = None
    PROVE  DaysOf(window) \subseteq s.dates
  <1>1. SUFFICES ASSUME ~(DaysOf(window) \subseteq s.dates) PROVE Extract(s, window, dimension) # None
    OBVIOUS
  <1>2. Extract(s, window, dimension) = "DAILY_COVERAGE_INCOMPLETE"
    BY <1>1 DEF Extract
  <1> QED
    BY <1>2 DEF None

\* Rows are only comparable up to both cutoffs and when both extracts succeed.
LEMMA RowsAreCovered ==
    ASSUME NEW r, NEW windows, NEW source, CompareRows(r, windows, source).state = "comparable"
    PROVE  /\ ~(Cutoff(r.before, source) < windows.before.end) /\ ~(Cutoff(r.after, source) < windows.after.end)
           /\ Extract(r.before, windows.before, r.dimension) = None
           /\ Extract(r.after, windows.after, r.dimension) = None
  <1> DEFINE first == Cutoff(r.before, source)  second == Cutoff(r.after, source)
             one == Extract(r.before, windows.before, r.dimension)
             two == Extract(r.after, windows.after, r.dimension)
             late == first < windows.before.end \/ second < windows.after.end
             reasons == {one, two} \ {None}
  <1>1. CompareRows(r, windows, source) =
            CASE late -> Compared("insufficient", {"FINAL_DATE_COVERAGE_UNCONFIRMED"})
              [] OTHER -> CASE reasons = {} -> Compared("comparable", {})
                            [] "AGGREGATION_NOT_SUPPORTED" \in reasons -> Compared("not_comparable", reasons)
                            [] OTHER -> Compared("insufficient", reasons)
    BY DEF CompareRows
  <1> HIDE DEF late, reasons
  <1>2. \A x : Compared("insufficient", x).state # "comparable" /\ Compared("not_comparable", x).state # "comparable"
    BY DEF Compared
  <1>3. ~late
    BY <1>1, <1>2
  <1>4. reasons = {}
    BY <1>1, <1>2, <1>3
  <1> QED
    BY <1>3, <1>4 DEF late, reasons

\* Nothing is comparable before the window is over, without both snapshots, or for GA4.
LEMMA ComparedInTime ==
    ASSUME NEW r, Compare(r).state = "comparable"
    PROVE  LET windows == PlanWindows(r.day, r.own, r.source, r.days)
           IN  /\ NoSnapshot # r.before /\ NoSnapshot # r.after /\ r.kind # "ga4"
               /\ DateOf(r.evaluated, r.source) > windows.after.end
               /\ CompareRows(r, windows, r.source).state = "comparable"
  <1> DEFINE windows == PlanWindows(r.day, r.own, r.source, r.days)
             elapsed == DateOf(r.evaluated, r.source) > windows.after.end
             both == {r.before, r.after}
             rows == CompareRows(r, windows, r.source)
             ga4 == CompareGa4(r)
             rest == IF r.before.binding # r.after.binding THEN Compared("not_comparable", {"SOURCE_BINDING_CHANGED"})
                     ELSE IF \E s \in both : ~s.matched THEN Compared("not_comparable", {"IDENTITY_NOT_MATCHED"})
                     ELSE IF \E s \in both : ~s.healthy THEN Compared("insufficient", {"SOURCE_UNHEALTHY"})
                     ELSE IF r.after.expires <= r.evaluated THEN Compared("not_comparable", {"CURRENT_SNAPSHOT_EXPIRED"})
                     ELSE IF r.filtered THEN Compared("not_comparable", {"COMBINED_DIMENSIONS_NOT_OBSERVED"})
                     ELSE IF r.kind = "ga4" THEN ga4
                     ELSE IF r.dimension = "landing_page" THEN Compared("not_comparable", {"DIMENSION_NOT_OBSERVED"})
                     ELSE IF ~elapsed THEN Compared("waiting", {"AFTER_WINDOW_NOT_ELAPSED"})
                     ELSE IF r.after.current.end < windows.after.end THEN Compared("waiting", {"AFTER_COLLECTION_NOT_AVAILABLE"})
                     ELSE IF r.before.previous.start > windows.before.start \/ r.before.current.end < windows.before.end
                     THEN Compared("insufficient", {"BEFORE_WINDOW_NOT_COVERED"})
                     ELSE rows
  <1>1. Compare(r) = IF NoSnapshot \in both THEN Compared(IF elapsed THEN "insufficient" ELSE "waiting", {"SNAPSHOT_MISSING"})
                     ELSE rest
    BY DEF Compare
  <1>2. \A x : /\ Compared("insufficient", x).state # "comparable" /\ Compared("not_comparable", x).state # "comparable"
               /\ Compared("waiting", x).state # "comparable"
    BY DEF Compared
  <1>3. ga4.state # "comparable"
    BY DEF CompareGa4, Compared
  <1> HIDE DEF windows, ga4, rows
  <1>4. rest.state = "comparable" => r.kind # "ga4" /\ elapsed /\ rows.state = "comparable"
    <2> HIDE DEF both, elapsed
    <2> QED
      BY <1>2, <1>3
  <1> HIDE DEF rest, both, elapsed
  <1>5. NoSnapshot \notin both
    <2>1. CASE elapsed
      BY <1>1, <1>2, <2>1
    <2>2. CASE ~elapsed
      BY <1>1, <1>2, <2>2
    <2> QED
      BY <2>1, <2>2
  <1>6. rest.state = "comparable"
    BY <1>1, <1>5
  <1> QED
    BY <1>4, <1>5, <1>6 DEF both, elapsed, windows, rows

\* A comparison that shows figures has every day of both windows in the two snapshots, each of
\* them over when its snapshot was fetched, and the second window was over when it was made
\* (compare_implementation).
THEOREM ComparisonsAreCovered ==
    ASSUME NEW r, r.day \in Int, r.own \in Int, r.source \in Int, r.days \in Nat, r.evaluated \in Int,
           r.kind \in {"gsc", "ga4"}, IsSnapshot(r.before), IsSnapshot(r.after)
    PROVE  ComparableIsCovered(r, Compare(r))
  <1> DEFINE windows == PlanWindows(r.day, r.own, r.source, r.days)
             whole(s, w) == \A day \in DaysOf(w) : day \in s.dates /\ Midnight(day + 1, r.source) <= s.fetched
  <1>1. SUFFICES ASSUME Compare(r).state = "comparable"
                 PROVE  /\ r.kind = "gsc" /\ whole(r.before, windows.before) /\ whole(r.after, windows.after)
                        /\ Midnight(windows.after.end + 1, r.source) <= r.evaluated
    BY DEF ComparableIsCovered
  <1>2. /\ NoSnapshot # r.before /\ NoSnapshot # r.after /\ r.kind # "ga4"
        /\ DateOf(r.evaluated, r.source) > windows.after.end
        /\ CompareRows(r, windows, r.source).state = "comparable"
    BY <1>1, ComparedInTime
  <1>3. IsStored(r.before) /\ IsStored(r.after)
    BY <1>2 DEF IsSnapshot
  <1>4. /\ windows.before.start \in Int /\ windows.before.end \in Int
        /\ windows.after.start \in Int /\ windows.after.end \in Int
    <2> DEFINE day == r.day
               own == r.own
               source == r.source
               days == r.days
    <2>0. day \in Int /\ own \in Int /\ source \in Int /\ days \in Nat
      OBVIOUS
    <2> HIDE DEF day, own, source, days
    <2>1. PICK first, last \in Int :
              /\ Excludes(first, last, day, own, source)
              /\ PlanWindows(day, own, source, days) = WindowsAround(first, last, days)
      BY <2>0, WindowsArePlanned
    <2>2. windows = WindowsAround(first, last, days)
      BY <2>1 DEF day, own, source, days
    <2> HIDE DEF windows
    <2> QED
      BY <2>0, <2>2 DEF WindowsAround
  <1> HIDE DEF windows
  <1>5. /\ ~(Cutoff(r.before, r.source) < windows.before.end) /\ ~(Cutoff(r.after, r.source) < windows.after.end)
        /\ DaysOf(windows.before) \subseteq r.before.dates /\ DaysOf(windows.after) \subseteq r.after.dates
    BY <1>2, RowsAreCovered, ExtractsAreCovered
  <1>6. whole(r.before, windows.before)
    <2> SUFFICES ASSUME NEW day \in DaysOf(windows.before)
                 PROVE  day \in r.before.dates /\ Midnight(day + 1, r.source) <= r.before.fetched
      OBVIOUS
    <2>1. day \in r.before.dates /\ day <= windows.before.end
      BY <1>4, <1>5 DEF DaysOf
    <2> QED
      BY <1>3, <1>4, <1>5, <2>1, CutoffIsOver
  <1>7. whole(r.after, windows.after)
    <2> SUFFICES ASSUME NEW day \in DaysOf(windows.after)
                 PROVE  day \in r.after.dates /\ Midnight(day + 1, r.source) <= r.after.fetched
      OBVIOUS
    <2>1. day \in r.after.dates /\ day <= windows.after.end
      BY <1>4, <1>5 DEF DaysOf
    <2> QED
      BY <1>3, <1>4, <1>5, <2>1, CutoffIsOver
  <1>8. Midnight(windows.after.end + 1, r.source) <= r.evaluated
    BY <1>2, <1>4, LaterDatesAreOver
  <1>9. r.kind = "gsc"
    BY <1>2
  <1> QED
    BY <1>6, <1>7, <1>8, <1>9

-----------------------------------------------------------------------------
(* Health (evaluate_health of gsc.py and ga4.py).                            *)

\* A source that is not found silent had activity in the last RecentDays days, and from each
\* active date to the next one there are at most GapDays days.
LEMMA NeverSilentForLong ==
    ASSUME NEW dates \in SUBSET Int, IsFiniteSet(dates), dates # {}, NEW end \in Int, Silent(dates, end) = {}
    PROVE  /\ \A day \in dates : day >= end - RecentDays \/ \E later \in dates : later > day
           /\ \A day \in dates : (\E later \in dates : later > day)
                                     => \E later \in dates : later \in (day + 1)..(day + GapDays)
  <1> DEFINE list == Ascending(dates)  c == Cardinality(dates)
             old == end - Last(list) > RecentDays
             gap == \E i \in 1..(Len(list) - 1) : list[i + 1] - list[i] - 1 >= GapDays
  <1>1. /\ list \in [1..c -> dates]
        /\ \A x \in dates : \E i \in 1..c : list[i] = x
        /\ \A i, j \in 1..c : i < j => list[i] < list[j]
    BY AscendingLists
  <1>2. c \in Nat
    BY FS_CardinalityType
  <1>3. Silent(dates, end) = (IF old THEN {"RECENT_ACTIVITY_MISSING"} ELSE {})
                                 \cup (IF gap THEN {"ACTIVITY_GAP"} ELSE {})
    BY DEF Silent
  <1>4. ~old /\ ~gap
    <2> HIDE DEF old, gap
    <2> QED
      BY <1>3
  <1> HIDE DEF list, c
  <1>5. list \in Seq(dates) /\ Len(list) = c
    BY <1>1, <1>2
  <1>6. c \in 1..c
    <2>1. PICK x \in dates : TRUE
      OBVIOUS
    <2>2. PICK i \in 1..c : list[i] = x
      BY <1>1
    <2> QED
      BY <1>2, <2>2
  <1>7. Last(list) = list[c]
    BY <1>5 DEF Last
  <1>8. RecentDays \in Nat /\ GapDays \in Nat
    BY MeasurementAssumption
  <1>9. list[c] \in dates /\ list[c] \in Int
    BY <1>1, <1>6
  <1>10. end - list[c] <= RecentDays
    BY <1>4, <1>7, <1>8, <1>9 DEF old
  <1>11. \A i \in 1..(c - 1) : /\ i \in 1..c /\ i + 1 \in 1..c
                               /\ list[i] \in Int /\ list[i + 1] \in dates /\ list[i + 1] \in Int
                               /\ list[i] < list[i + 1] /\ list[i + 1] - list[i] - 1 < GapDays
    <2> TAKE i \in 1..(c - 1)
    <2>1. i \in 1..c /\ i + 1 \in 1..c /\ i < i + 1
      BY <1>2
    <2>2. list[i] \in Int /\ list[i + 1] \in dates /\ list[i + 1] \in Int /\ list[i] < list[i + 1]
      BY <1>1, <2>1
    <2>3. ~(list[i + 1] - list[i] - 1 >= GapDays)
      BY <1>4, <1>5 DEF gap
    <2> QED
      BY <1>8, <2>1, <2>2, <2>3
  <1>12. \A day \in dates : day = list[c] \/ \E i \in 1..(c - 1) : day = list[i]
    <2> TAKE day \in dates
    <2>1. PICK i \in 1..c : list[i] = day
      BY <1>1
    <2>2. i = c \/ i \in 1..(c - 1)
      BY <1>2, <2>1
    <2> QED
      BY <2>1, <2>2
  <1>13. \A day \in dates : day <= list[c]
    <2> TAKE day \in dates
    <2>1. PICK i \in 1..c : list[i] = day
      BY <1>1
    <2>2. i = c \/ i < c
      BY <1>2, <2>1
    <2>3. i < c => list[i] < list[c]
      BY <1>1, <1>6, <2>1
    <2> QED
      BY <1>9, <2>1, <2>2, <2>3
  <1> HIDE DEF old, gap
  <1>14. ASSUME NEW day \in dates PROVE day >= end - RecentDays \/ \E later \in dates : later > day
    <2>1. CASE day = list[c]
      BY <1>8, <1>9, <1>10, <2>1
    <2>2. ASSUME NEW i \in 1..(c - 1), day = list[i] PROVE \E later \in dates : later > day
      BY <1>11, <2>2
    <2> QED
      BY <1>12, <2>1, <2>2
  <1>15. ASSUME NEW day \in dates, NEW further \in dates, further > day
         PROVE  \E later \in dates : later \in (day + 1)..(day + GapDays)
    <2>1. day # list[c]
      BY <1>9, <1>13, <1>15
    <2>2. PICK i \in 1..(c - 1) : day = list[i]
      BY <1>12, <2>1
    <2>3. list[i + 1] \in dates /\ list[i + 1] \in (day + 1)..(day + GapDays)
      BY <1>8, <1>11, <2>2
    <2> QED
      BY <2>3
  <1> QED
    BY <1>14, <1>15

\* A healthy source of search or visits has been active all along: no silent stretch between
\* its active dates, and none at its end (evaluate_health of gsc.py and ga4.py).
THEOREM ActivityStaysSteady ==
    ASSUME NEW s, s.source \in {"gsc", "ga4", "gbp"}, s.dates \in SUBSET Int, IsFiniteSet(s.dates), s.end \in Int
    PROVE  ActivityIsSteady(s)
  <1>1. SUFFICES ASSUME s.source # "gbp", s.dates # {}, Health(s) = "healthy"
                 PROVE  /\ \A day \in s.dates : day >= s.end - RecentDays \/ \E later \in s.dates : later > day
                        /\ \A day \in s.dates : (\E later \in s.dates : later > day)
                               => \E later \in s.dates : later \in (day + 1)..(day + GapDays)
    BY DEF ActivityIsSteady
  <1>2. Problems(s) = {}
    BY <1>1 DEF Health
  <1>3. Silent(s.dates, s.end) = {}
    <2>1. CASE s.source = "gsc"
      <3>1. GscProblems(s) = {}
        BY <1>2, <2>1 DEF Problems
      <3> QED
        BY <1>1, <3>1 DEF GscProblems
    <2>2. CASE s.source = "ga4"
      <3>1. Ga4Problems(s) = {}
        BY <1>2, <2>2 DEF Problems
      <3> QED
        BY <3>1 DEF Ga4Problems
    <2> QED
      BY <1>1, <2>1, <2>2
  <1>4. s.dates # {}
    BY <1>1
  <1> QED
    BY <1>3, <1>4, NeverSilentForLong

-----------------------------------------------------------------------------
(* Sessions (ga4_session_reading.py).                                        *)

\* relative_percent rounds to the nearest hundredth of a percent, halves away from zero, and
\* the change has the sign of the difference.
THEOREM PercentsAreRounded ==
    ASSUME NEW before \in Nat, NEW after \in Nat, NEW change \in RelativePercent(before, after)
    PROVE  ChangeIsRounded(before, after, change)
  <1> DEFINE rise == after - before
             size == IF rise < 0 THEN -rise ELSE rise
             n == 2 * size * 10000 + before
             d == 2 * before
             rounded == n \div d
  <1>1. RelativePercent(before, after) = IF before = 0 THEN {} ELSE IF rise < 0 THEN {-rounded} ELSE {rounded}
    BY DEF RelativePercent
  <1>2. rise \in Int /\ size \in Nat /\ n \in Nat /\ d \in Nat /\ n = 20000 * size + before /\ d = before + before
    OBVIOUS
  <1>3. rise < 0 <=> after < before
    OBVIOUS
  <1>4. size = IF rise < 0 THEN -rise ELSE rise
    OBVIOUS
  <1> HIDE DEF size, n, d, rounded
  <1>5. before > 0 /\ change = IF rise < 0 THEN -rounded ELSE rounded
    <2>1. before # 0
      BY <1>1
    <2> QED
      BY <1>1, <2>1
  <1>6. d > 0
    BY <1>2, <1>5
  <1>7. rounded \in Int /\ d * rounded <= n /\ n < d * rounded + d
    BY <1>2, <1>6, Quotient DEF rounded
  <1>8. d * rounded \in Int /\ before * rounded \in Int /\ d * rounded = 2 * (before * rounded)
    <2>1. (before + before) * rounded = before * rounded + before * rounded
      BY <1>7
    <2> QED
      BY <1>2, <1>7, <2>1
  <1>9. -before <= 2 * (before * rounded - 10000 * size) /\ 2 * (before * rounded - 10000 * size) <= before
    BY <1>2, <1>7, <1>8
  <1>10. rounded >= 0
    <2>1. ASSUME rounded < 0 PROVE FALSE
      <3>1. d * rounded + d <= d * 0
        BY <1>2, <1>6, <1>7, <2>1, ProductGrows
      <3>2. d * 0 = 0
        BY <1>2
      <3> QED
        BY <1>2, <1>7, <1>8, <3>1, <3>2
    <2> QED
      BY <1>7, <2>1
  <1>11. size = 0 => rounded = 0
    <2>1. ASSUME size = 0, rounded > 0 PROVE FALSE
      <3>1. d * 0 + d <= d * rounded
        BY <1>2, <1>6, <1>7, <2>1, ProductGrows
      <3>2. d * 0 = 0
        BY <1>2
      <3> QED
        BY <1>2, <1>5, <1>7, <1>8, <2>1, <3>1, <3>2
    <2> QED
      BY <1>7, <1>10, <2>1
  <1> HIDE DEF rise
  <1>12. rise \in Int /\ rise = after - before
    BY <1>2 DEF rise
  <1>13. change \in Int /\ change * before = IF rise < 0 THEN -(before * rounded) ELSE before * rounded
    <2>1. CASE rise < 0
      <3>1. change = -rounded
        BY <1>5, <2>1
      <3>2. (-rounded) * before = -(before * rounded)
        BY <1>7
      <3> QED
        BY <1>7, <2>1, <3>1, <3>2
    <2>2. CASE ~(rise < 0)
      <3>1. change = rounded
        BY <1>5, <2>2
      <3>2. rounded * before = before * rounded
        BY <1>7
      <3> QED
        BY <1>7, <2>2, <3>1, <3>2
    <2> QED
      BY <2>1, <2>2
  <1>14. LET off == change * before - 10000 * (after - before)
         IN  -before <= 2 * off /\ 2 * off <= before
    <2> DEFINE product == before * rounded  q == change * before
    <2>1. product \in Int /\ q \in Int /\ q = IF rise < 0 THEN -product ELSE product
      BY <1>8, <1>13
    <2>2. -before <= 2 * (product - 10000 * size) /\ 2 * (product - 10000 * size) <= before
      BY <1>9
    <2> HIDE DEF product, q
    <2>3. -before <= 2 * (q - 10000 * (after - before)) /\ 2 * (q - 10000 * (after - before)) <= before
      BY <1>2, <1>4, <1>12, <2>1, <2>2
    <2> QED
      BY <2>3 DEF q
  <1>15. (change > 0 => after > before) /\ (change < 0 => after < before)
    <2>1. CASE rise < 0
      BY <1>5, <1>7, <1>10, <1>12, <2>1
    <2>2. CASE rise = 0
      BY <1>4, <1>5, <1>7, <1>11, <2>2
    <2>3. CASE rise > 0
      BY <1>5, <1>7, <1>10, <1>12, <2>3
    <2> QED
      BY <1>12, <2>1, <2>2, <2>3
  <1> QED
    BY <1>5, <1>14, <1>15 DEF ChangeIsRounded

\* Sessions are shown once their window is over in the zone of the property, and with them a
\* change that is rounded (read_sessions).
THEOREM SessionsAreRounded ==
    ASSUME NEW s, s.started \in Int, s.zone \in Int, s.after.end \in Int,
           s.previous.sessions \in Nat, s.current.sessions \in Nat,
           ReadSessions(s).state = "available"
    PROVE  /\ DateOf(s.started, s.zone) > s.after.end
           /\ \A change \in ReadSessions(s).change : ChangeIsRounded(ReadSessions(s).before, ReadSessions(s).after, change)
  <1> DEFINE early == DateOf(s.started, s.zone) <= s.after.end
             rest == (IF \E p \in {s.previous, s.current} : p.totals # 1 THEN {"TOTAL_NOT_RETURNED"} ELSE {})
                        \cup (IF \E p \in {s.previous, s.current} : p.dates # p.expected THEN {"DATES_NOT_RETURNED"} ELSE {})
                        \cup s.previous.flags \cup s.current.flags
             reasons == (IF early THEN {"WINDOW_NOT_ELAPSED"} ELSE {}) \cup rest
             shown == [state |-> "available", before |-> s.previous.sessions, after |-> s.current.sessions,
                       change |-> RelativePercent(s.previous.sessions, s.current.sessions)]
  <1>1. ReadSessions(s) = IF reasons # {} THEN [state |-> "withheld", reasons |-> reasons] ELSE shown
    BY DEF ReadSessions
  <1> HIDE DEF rest, shown
  <1>2. reasons = {} /\ ReadSessions(s) = shown
    <2> HIDE DEF reasons
    <2> QED
      BY <1>1
  <1>3. ~early
    <2> HIDE DEF early
    <2> QED
      BY <1>2
  <1>4. DateOf(s.started, s.zone) \in Int
    <2>1. s.started <= s.started
      OBVIOUS
    <2> QED
      BY <2>1, DatesFollowInstants
  <1>5. DateOf(s.started, s.zone) > s.after.end
    BY <1>3, <1>4
  <1>6. /\ shown.before = s.previous.sessions /\ shown.after = s.current.sessions
        /\ shown.change = RelativePercent(s.previous.sessions, s.current.sessions)
    BY DEF shown
  <1>7. \A change \in shown.change : ChangeIsRounded(shown.before, shown.after, change)
    BY <1>6, PercentsAreRounded
  <1> QED
    BY <1>2, <1>5, <1>7

-----------------------------------------------------------------------------
(* The runs of the algorithms on small inputs.                               *)

\* The inputs that TLC tries are snapshots, sources and counts of the kind that the theorems
\* above speak of.
LEMMA ComparisonInputsAreTyped ==
    ASSUME NEW r \in ComparisonInputs
    PROVE  /\ r.day \in Int /\ r.own \in Int /\ r.source \in Int /\ r.days \in Nat /\ r.evaluated \in Int
           /\ r.kind \in {"gsc", "ga4"} /\ IsSnapshot(r.before) /\ IsSnapshot(r.after)
  <1>1. ASSUME NEW start \in Int, NEW fetched \in Int, NEW missing, NEW healthy, NEW view
        PROVE  IsStored(Snapshot(start, fetched, missing, healthy, view))
    <2> DEFINE s == Snapshot(start, fetched, missing, healthy, view)
    <2>1. /\ s.dates = (start..(start + 3)) \ {missing} /\ s.fetched = fetched /\ s.present = TRUE
      BY DEF Snapshot
    <2>2. IsFiniteSet(start..(start + 3))
      BY FS_Interval
    <2>3. IsFiniteSet(s.dates)
      <3>1. s.dates \in SUBSET (start..(start + 3))
        BY <2>1
      <3> QED
        BY <2>2, <3>1, FS_Subset
    <2>4. NoSnapshot.present = FALSE
      BY DEF NoSnapshot
    <2> HIDE DEF s
    <2>5. s # NoSnapshot
      BY <2>1, <2>4
    <2>6. s.dates \in SUBSET Int
      BY <2>1
    <2>7. IsStored(s)
      BY <2>1, <2>3, <2>5, <2>6 DEF IsStored
    <2> QED
      BY <2>7 DEF s
  <1>2. /\ r.day \in {6} /\ r.own \in -1..1 /\ r.source \in -1..1 /\ r.days \in 1..2
        /\ r.kind \in {"gsc", "ga4"} /\ r.evaluated \in {21, 27, 33}
        /\ r.before \in EarlySnapshots /\ r.after \in LateSnapshots
    <2>1. ASSUME NEW kind, NEW channels, NEW filtered, NEW flaws, NEW dimensions, NEW evaluated,
                 r \in Comparisons(kind, channels, filtered, flaws, dimensions, evaluated)
          PROVE  /\ r.day \in {6} /\ r.own \in -1..1 /\ r.source \in -1..1 /\ r.days \in 1..2
                 /\ r.kind = kind /\ r.evaluated \in evaluated
                 /\ r.before \in EarlySnapshots /\ r.after \in LateSnapshots
      BY <2>1 DEF Comparisons
    <2> DEFINE flaws == {{}, {"hosts", "events"}, {"zones"}, {"restricted"}, {"events"}}
    <2>2. \/ r \in Comparisons("gsc", {"organic_search"}, {FALSE}, {{}}, {"property", "page"}, {21, 27, 33})
          \/ r \in Comparisons("gsc", {"organic_search"}, BOOLEAN, {{}}, {"property", "landing_page"}, {33})
          \/ r \in Comparisons("ga4", {"organic_search", "all"}, {FALSE}, flaws, {"property"}, {33})
      BY DEF ComparisonInputs
    <2> HIDE DEF flaws
    <2>3. r.kind \in {"gsc", "ga4"} /\ r.evaluated \in {21, 27, 33}
      BY <2>1, <2>2
    <2> QED
      BY <2>1, <2>2, <2>3
  <1>3. ASSUME NEW s \in EarlySnapshots PROVE IsSnapshot(s)
    <2>1. CASE s = NoSnapshot
      BY <2>1 DEF IsSnapshot
    <2>2. ASSUME NEW st \in 2..4, NEW miss \in {0, 4}, s = Snapshot(st, 21, miss, TRUE, "by_page") PROVE IsSnapshot(s)
      <3>1. st \in Int /\ 21 \in Int
        OBVIOUS
      <3> QED
        BY <1>1, <2>2, <3>1 DEF IsSnapshot
    <2>3. s = NoSnapshot \/ \E st \in 2..4, miss \in {0, 4} : s = Snapshot(st, 21, miss, TRUE, "by_page")
      BY DEF EarlySnapshots, Snapshot
    <2> QED
      BY <2>1, <2>2, <2>3
  <1>4. ASSUME NEW s \in LateSnapshots PROVE IsSnapshot(s)
    <2>1. CASE s = NoSnapshot
      BY <2>1 DEF IsSnapshot
    <2>2. ASSUME NEW st \in 5..7, NEW hour \in {24, 26, 27, 33}, NEW miss \in {0, 8},
                 s = Snapshot(st, hour, miss, TRUE, "by_page")
          PROVE  IsSnapshot(s)
      <3>1. st \in Int /\ hour \in Int
        OBVIOUS
      <3> QED
        BY <1>1, <2>2, <3>1 DEF IsSnapshot
    <2>3. ASSUME NEW st \in 5..7, s = Snapshot(st, 27, 0, FALSE, "by_page") PROVE IsSnapshot(s)
      <3>1. st \in Int /\ 27 \in Int
        OBVIOUS
      <3> QED
        BY <1>1, <2>3, <3>1 DEF IsSnapshot
    <2>4. \/ s = NoSnapshot
          \/ \E st \in 5..7, hour \in {24, 26, 27, 33}, miss \in {0, 8} : s = Snapshot(st, hour, miss, TRUE, "by_page")
          \/ \E st \in 5..7 : s = Snapshot(st, 27, 0, FALSE, "by_page")
      BY DEF LateSnapshots, Snapshot
    <2> QED
      BY <2>1, <2>2, <2>3, <2>4
  <1>5. r.before \in EarlySnapshots /\ r.after \in LateSnapshots
    BY <1>2
  <1>6. r.day \in Int /\ r.own \in Int /\ r.source \in Int /\ r.days \in Nat /\ r.evaluated \in Int
    BY <1>2
  <1>7. r.kind \in {"gsc", "ga4"}
    BY <1>2
  <1> QED
    BY <1>3, <1>4, <1>5, <1>6, <1>7

LEMMA HealthInputsAreTyped ==
    ASSUME NEW s \in HealthInputs
    PROVE  /\ s.source \in {"gsc", "ga4", "gbp"} /\ s.dates \in SUBSET Int /\ IsFiniteSet(s.dates)
           /\ s.end \in Int
  <1>1. s.source \in {"gsc", "ga4", "gbp"} /\ s.dates \in SUBSET (1..7) /\ s.end \in {7}
    BY DEF HealthInputs
  <1>2. IsFiniteSet(1..7)
    <2> DEFINE n == 7
    <2>1. n \in Int
      OBVIOUS
    <2> HIDE DEF n
    <2>2. IsFiniteSet(1..n)
      BY <2>1, FS_Interval
    <2> QED
      BY <2>2 DEF n
  <1>3. IsFiniteSet(s.dates)
    BY <1>1, <1>2, FS_Subset
  <1> QED
    BY <1>1, <1>3

LEMMA SessionInputsAreTyped ==
    ASSUME NEW s \in SessionInputs
    PROVE  /\ s.started \in Int /\ s.zone \in Int /\ s.after.end \in Int
           /\ s.previous.sessions \in Nat /\ s.current.sessions \in Nat
  <1> DEFINE period == [totals : {0, 1}, dates : {1..2}, expected : {1..2, 1..3}, flags : {{}, {"SAMPLED"}}, sessions : {0, 3, 8}]
  <1>1. s \in [zone : {0}, started : {9, 12}, after : {[end |-> 3]}, previous : period, current : period]
    BY DEF SessionInputs
  <1>2. \A p \in period : p.sessions \in Nat
    OBVIOUS
  <1> HIDE DEF period
  <1>3. s.zone \in Int /\ s.started \in Int /\ s.after = [end |-> 3] /\ s.previous \in period /\ s.current \in period
    BY <1>1
  <1> QED
    BY <1>2, <1>3

\* An algorithm has its input, and once it has run its output.
MeasuredInv ==
    /\ algorithm = "compare" => input \in ComparisonInputs /\ (done => output = Compare(input))
    /\ algorithm = "health" => input \in HealthInputs
    /\ algorithm = "sessions" => input \in SessionInputs /\ (done => output = ReadSessions(input))

\* The invariant that the run checks holds whatever the length of a day and the limits of a
\* silent stretch: it is what the theorems above say of the inputs (plan_windows,
\* compare_implementation, evaluate_health, read_sessions).
THEOREM MeasurementStaysSound == Spec => []MeasurementIsSound
  <1>1. Init => MeasuredInv
    <2> SUFFICES ASSUME Init PROVE MeasuredInv
      OBVIOUS
    <2>1. ~done
      BY DEF Init
    <2>2. algorithm = "compare" => input \in ComparisonInputs
      BY DEF Init, Given
    <2>3. algorithm = "health" => input \in HealthInputs
      BY DEF Init, Given
    <2>4. algorithm = "sessions" => input \in SessionInputs
      BY DEF Init, Given
    <2> QED
      BY <2>1, <2>2, <2>3, <2>4 DEF MeasuredInv
  <1>2. MeasuredInv /\ [Next]_algVars => MeasuredInv'
    <2> SUFFICES ASSUME MeasuredInv, [Next]_algVars PROVE MeasuredInv'
      OBVIOUS
    <2>1. CASE UNCHANGED algVars
      BY <2>1 DEF MeasuredInv, algVars
    <2>2. CASE ~done /\ done' = TRUE /\ Run /\ UNCHANGED <<algorithm, input>>
      <3>1. algorithm = "compare" => output' = Compare(input)
        BY <2>2 DEF Run, Yields
      <3>2. algorithm = "sessions" => output' = ReadSessions(input)
        BY <2>2 DEF Run, Yields
      <3> QED
        BY <2>2, <3>1, <3>2 DEF MeasuredInv
    <2> QED
      BY <2>1, <2>2 DEF Next
  <1>3. MeasuredInv => MeasurementIsSound
    <2> SUFFICES ASSUME MeasuredInv PROVE MeasurementIsSound
      OBVIOUS
    <2>1. ASSUME Ran("compare")
          PROVE  /\ WindowsAccepted(PlanWindows(input.day, input.own, input.source, input.days), input.days)
                 /\ ImplementationIsExcluded(input, PlanWindows(input.day, input.own, input.source, input.days))
                 /\ ComparableIsCovered(input, output)
      <3>1. input \in ComparisonInputs /\ output = Compare(input)
        BY <2>1 DEF Ran, MeasuredInv
      <3>2. /\ input.day \in Int /\ input.own \in Int /\ input.source \in Int /\ input.days \in Nat /\ input.evaluated \in Int
            /\ input.kind \in {"gsc", "ga4"} /\ IsSnapshot(input.before) /\ IsSnapshot(input.after)
        BY <3>1, ComparisonInputsAreTyped
      <3>3. WindowsAccepted(PlanWindows(input.day, input.own, input.source, input.days), input.days)
        BY <3>2, WindowsAreAccepted
      <3>4. ImplementationIsExcluded(input, PlanWindows(input.day, input.own, input.source, input.days))
        BY <3>2, ImplementationStaysOut
      <3>5. ComparableIsCovered(input, output)
        BY <3>1, <3>2, ComparisonsAreCovered
      <3> QED
        BY <3>3, <3>4, <3>5
    <2>2. ASSUME Ran("health") PROVE ActivityIsSteady(input)
      <3>1. input \in HealthInputs
        BY <2>2 DEF Ran, MeasuredInv
      <3> QED
        BY <3>1, HealthInputsAreTyped, ActivityStaysSteady
    <2>3. ASSUME Ran("sessions"), output.state = "available"
          PROVE  /\ DateOf(input.started, input.zone) > input.after.end
                 /\ \A change \in output.change : ChangeIsRounded(output.before, output.after, change)
      <3>1. input \in SessionInputs /\ output = ReadSessions(input)
        BY <2>3 DEF Ran, MeasuredInv
      <3>2. ReadSessions(input).state = "available"
        BY <2>3, <3>1
      <3>3. /\ input.started \in Int /\ input.zone \in Int /\ input.after.end \in Int
            /\ input.previous.sessions \in Nat /\ input.current.sessions \in Nat
        BY <3>1, SessionInputsAreTyped
      <3>4. /\ DateOf(input.started, input.zone) > input.after.end
            /\ \A change \in ReadSessions(input).change :
                   ChangeIsRounded(ReadSessions(input).before, ReadSessions(input).after, change)
        BY <3>2, <3>3, SessionsAreRounded
      <3> QED
        BY <3>1, <3>4
    <2> QED
      BY <2>1, <2>2, <2>3 DEF MeasurementIsSound
  <1> QED
    BY <1>1, <1>2, <1>3, PTL DEF Spec

-----------------------------------------------------------------------------
(* The inputs of the inventory, and its invariant.                           *)

\* A list of bounded length is a list.
LEMMA BoundedIsSeq == ASSUME NEW S, NEW n \in Nat, NEW s \in BoundedSeq(S, n) PROVE s \in Seq(S)
  <1>1. PICK m \in 0..n : s \in [1..m -> S]
    BY DEF BoundedSeq, SeqOf
  <1> QED
    BY <1>1

\* The links, requests, sitemaps and pages that the run takes are what the theorems on the
\* inventory ask for: links with their parts, servers that answer in the end, files that
\* name files, pages with an address each (SiteInventoryCollector's inputs).
LEMMA LinkInputsAreTyped ==
    ASSUME NEW s \in LinkInputs
    PROVE  s \in LinksOf({"a", "..", "cart", "index.html", "map.pdf"}, {"utm", "sort", "id"}, {"site", "www.site", "other"})
  <1> DEFINE P == {"a", "..", "cart", "index.html", "map.pdf"}
             H == {"site", "www.site", "other"}
             K == {"utm", "sort", "id"}
             ports == {0, 443, 8080}
             web == {TRUE}
             three == 3
  <1>1. LinkInputs = [web : web, login : BOOLEAN, host : H, port : ports, path : BoundedSeq(P, three), query : SUBSET K]
    BY DEF LinkInputs
  <1>2. ports \in SUBSET Int /\ web \in SUBSET BOOLEAN /\ three \in Nat
    OBVIOUS
  <1> HIDE DEF P, H, K, ports, web, three
  <1>3. s.path \in BoundedSeq(P, three)
    BY <1>1
  <1>4. s.path \in Seq(P)
    BY <1>2, <1>3, BoundedIsSeq
  <1> QED
    BY <1>1, <1>2, <1>4 DEF LinksOf, P, H, K

LEMMA RequestInputsAreTyped ==
    ASSUME NEW s \in RequestInputs
    PROVE  /\ s.html \in BOOLEAN /\ s.prefix \in BOOLEAN
           /\ Hops(s.hops, {"site", "other", "hidden"}, {"redirect", "page", "nowhere", "timeout", "broken"})
  <1> DEFINE H == {"site", "other", "hidden"}
             K == {"redirect", "page", "nowhere", "timeout", "broken"}
             R == [host : H, public : BOOLEAN, kind : K, html : BOOLEAN, declared : Nat, size : Nat]
             ways == BoundedSeq(Redirects, 2) \X Endings
  <1>1. s.hops \in {Append(p[1], p[2]) : p \in ways} /\ s.html \in BOOLEAN /\ s.prefix \in BOOLEAN
    BY DEF RequestInputs
  <1>2. \A host \in H, kind \in K, size \in Nat : Hop(host, kind, size) \in R /\ Hop(host, kind, size).kind = kind
    BY DEF Hop
  <1>3. Redirects \in SUBSET R /\ Endings \in SUBSET R /\ \A hop \in Endings : hop.kind # "redirect"
    <2> HIDE DEF R
    <2>1. Redirects \in SUBSET R
      BY <1>2 DEF Redirects
    <2>2. ASSUME NEW e \in {"site", "other"} \X {"page", "nowhere", "timeout", "broken"} \X {1, 4, 3}
          PROVE  Hop(e[1], e[2], e[3]) \in R /\ Hop(e[1], e[2], e[3]).kind # "redirect"
      <3>1. e[1] \in H /\ e[2] \in K /\ e[2] # "redirect" /\ e[3] \in Nat
        OBVIOUS
      <3> QED
        BY <1>2, <3>1
    <2> QED
      BY <2>1, <2>2 DEF Endings
  <1> HIDE DEF R
  <1>4. PICK h \in BoundedSeq(Redirects, 2), last \in Endings : s.hops = Append(h, last)
    <2>1. PICK p \in ways : s.hops = Append(p[1], p[2])
      BY <1>1
    <2> QED
      BY <2>1
  <1>5. h \in Seq(R)
    <2>1. h \in Seq(Redirects)
      BY BoundedIsSeq
    <2> QED
      BY <1>3, <2>1
  <1>6. /\ s.hops \in Seq(R) /\ Len(h) \in Nat /\ Len(s.hops) = Len(h) + 1 /\ s.hops[Len(h) + 1] = last
    <2>1. last \in R
      BY <1>3
    <2> QED
      BY <1>4, <1>5, <2>1
  <1>7. \E i \in 1..Len(s.hops) : LeavesSite(s.hops, i) \/ s.hops[i].kind # "redirect" \/ i > MaxRedirects
    <2>1. Len(h) + 1 \in 1..Len(s.hops) /\ s.hops[Len(h) + 1].kind # "redirect"
      BY <1>3, <1>6
    <2> QED
      BY <2>1
  <1>8. s.html \in BOOLEAN /\ s.prefix \in BOOLEAN
    BY <1>1
  <1> QED
    BY <1>6, <1>7, <1>8 DEF Hops, R

\* The links that a file of the run has.
FileLinks == {SiteLink(name) : name \in {"a", "b", "c", "cart", "x", "y", "z"}}

LEMMA SitemapInputsAreTyped ==
    ASSUME NEW s \in SitemapInputs
    PROVE  SitemapFiles(s.files, FileLinks) /\ s.starts \in Seq(DOMAIN s.files)
  <1> DEFINE F == {FileUrl(f) : f \in {"x", "y", "z"}}
             starts == {<<FileUrl("x")>>, <<FileUrl("x"), FileUrl("y")>>}
             pages == {<<>>, <<SiteLink("a"), SiteLink("b")>>, <<SiteLink("cart"), SiteLink("c"), SiteLink("a")>>}
             children == {<<SiteLink("x"), SiteLink("y")>>, <<SiteLink("z"), SiteLink("x")>>}
  <1>1. s.files \in [F -> SitemapFile] /\ s.starts \in starts
    BY DEF SitemapInputs
  <1>2. IsFiniteSet(F)
    <2>1. F = {FileUrl("x"), FileUrl("y"), FileUrl("z")}
      OBVIOUS
    <2> DEFINE a == {FileUrl("x")}
               b == a \cup {FileUrl("y")}
    <2>2. IsFiniteSet(a)
      BY FS_Singleton
    <2> HIDE DEF a
    <2>3. IsFiniteSet(b)
      BY <2>2, FS_AddElement
    <2> HIDE DEF b
    <2>4. IsFiniteSet(b \cup {FileUrl("z")})
      BY <2>3, FS_AddElement
    <2>5. F = b \cup {FileUrl("z")}
      BY <2>1 DEF a, b
    <2> QED
      BY <2>4, <2>5
  <1>3. FileUrl("x") \in F /\ FileUrl("y") \in F /\ FileUrl("z") \in F
    OBVIOUS
  <1>4. s.starts \in Seq(F)
    <2> HIDE DEF F
    <2>1. <<FileUrl("x")>> \in Seq(F) /\ <<FileUrl("x"), FileUrl("y")>> \in Seq(F)
      BY <1>3
    <2> QED
      BY <1>1, <2>1
  <1>5. \A name \in {"a", "b", "c", "cart", "x", "y", "z"} : SiteLink(name) \in FileLinks
    BY DEF FileLinks
  <1>6. pages \in SUBSET Seq(FileLinks) /\ children \in SUBSET Seq(FileLinks)
    BY <1>5
  <1>7. \A l \in children : \A i \in DOMAIN l : l[i] \in {SiteLink("x"), SiteLink("y"), SiteLink("z")}
    OBVIOUS
  <1>8. \A l \in {SiteLink("x"), SiteLink("y"), SiteLink("z")} : ResourceUrl(l) \in F \cup {NoUrl}
    <2>1. ASSUME NEW name \in {"x", "y", "z"} PROVE ResourceUrl(SiteLink(name)) \in {FileUrl(name), NoUrl}
      <3> DEFINE P == {name}
                 path == <<name>>
      <3>1. "." \notin P /\ ".." \notin P /\ path \in Seq(P) /\ path # <<>> /\ Last(path) = name /\ name \notin DefaultDocuments
        BY DEF Last, DefaultDocuments
      <3> HIDE DEF P, path
      <3>2. ResolvedPath(path) = path
        BY <3>1, CleanResolves
      <3>3. NormalizedPath(path) = path
        BY <3>1, <3>2 DEF NormalizedPath
      <3>4. SiteLink(name).path = path /\ SiteLink(name).query = {} /\ FileUrl(name) = [path |-> path, query |-> {}]
        BY DEF SiteLink, FileUrl, path
      <3> QED
        BY <3>3, <3>4 DEF ResourceUrl
    <2> QED
      BY <1>3, <2>1
  <1>9. \A file \in SitemapFile : /\ file.locs \in Seq(FileLinks)
                                  /\ file.kind = "index" => file.locs \in children
    <2> HIDE DEF children
    <2>1. SitemapFile = [kind : {"urlset"}, locs : pages] \cup [kind : {"index"}, locs : children] \cup [kind : {"bad"}, locs : {<<>>}]
      BY DEF SitemapFile, children
    <2>2. <<>> \in Seq(FileLinks)
      OBVIOUS
    <2> HIDE DEF pages
    <2> QED
      BY <1>6, <2>1, <2>2
  <1> HIDE DEF F, pages, children
  <1>10. DOMAIN s.files = F /\ \A u \in F : s.files[u] \in SitemapFile
    BY <1>1
  <1>11. \A u \in F : s.files[u].kind = "index" =>
             \A i \in DOMAIN s.files[u].locs : ResourceUrl(s.files[u].locs[i]) \in F \cup {NoUrl}
    BY <1>7, <1>8, <1>9, <1>10
  <1> QED
    BY <1>2, <1>4, <1>9, <1>10, <1>11 DEF SitemapFiles

LEMMA SelectionInputsAreTyped ==
    ASSUME NEW s \in SelectionInputs
    PROVE  Rankable(SelectionPages(s)) /\ s.limit \in Nat /\ Counted(<<>>)
  <1> DEFINE page(i) == [url |-> MCUrlOrder[i], type |-> IF i = 1 THEN "home" ELSE s.types[i], depth |-> i - 1,
                         matches |-> IF i = 4 THEN s.matches ELSE 0, checked |-> TRUE,
                         status |-> IF i = 1 THEN s.home ELSE 200, noindex |-> i = s.hidden]
             four == 4
  <1>1. SelectionPages(s) = {page(i) : i \in 1..four}
    BY DEF SelectionPages
  <1>2. s.limit \in 1..5 /\ s.matches \in {0, 5}
    BY DEF SelectionInputs
  <1>3. four \in Nat
    OBVIOUS
  <1>4. \A i \in 1..four : MCUrlOrder[i] \in Range(UrlOrder)
    <2>1. 1..four \subseteq DOMAIN MCUrlOrder
      BY DEF MCUrlOrder
    <2> QED
      BY <2>1, UrlOrderAssumption DEF Range
  <1>5. \A i, j \in 1..four : MCUrlOrder[i] = MCUrlOrder[j] => i = j
    BY DEF MCUrlOrder, Root, FileUrl
  <1> HIDE DEF four
  <1>6. IsFiniteSet(SelectionPages(s))
    <2>1. IsFiniteSet(1..four)
      BY <1>3, FS_Interval
    <2> DEFINE place == [i \in 1..four |-> page(i)]
    <2>2. place \in Surjection(1..four, SelectionPages(s))
      <3> HIDE DEF page
      <3> QED
        BY <1>1 DEF Surjection
    <2> HIDE DEF place
    <2> QED
      BY <2>1, <2>2, FS_Surjection
  <1>7. \A i \in 1..four : page(i).url = MCUrlOrder[i] /\ page(i).depth \in Nat /\ page(i).matches \in Nat
    BY <1>2, <1>3
  <1> HIDE DEF page
  <1>8. \A p \in SelectionPages(s) : p.url \in Range(UrlOrder) /\ p.depth \in Nat /\ p.matches \in Nat
    BY <1>1, <1>4, <1>7
  <1>9. \A p, q \in SelectionPages(s) : p.url = q.url => p = q
    BY <1>1, <1>5, <1>7
  <1>10. s.limit \in Nat
    BY <1>2, <1>3
  <1>11. Counted(<<>>)
    BY DEF Counted
  <1> QED
    BY <1>6, <1>8, <1>9, <1>10, <1>11 DEF Rankable

\* Each algorithm of the inventory has one of its inputs.
InventoriedInv ==
    /\ algorithm = "link" => input \in LinkInputs
    /\ algorithm = "request" => input \in RequestInputs
    /\ algorithm = "sitemap" => input \in SitemapInputs
    /\ algorithm = "selection" => input \in SelectionInputs

\* The invariant that the run checks of addresses, requests, sitemaps and key pages holds
\* whatever the limits are: it is what the theorems on the inventory say of the run's inputs
\* (canonicalize_inventory_url, _fetch_redirects, discover_sitemap_urls, select_key_pages).
THEOREM InventoryStaysSound == Spec => []InventoryIsSound
  <1>1. Init => InventoriedInv
    <2> SUFFICES ASSUME Init PROVE InventoriedInv
      OBVIOUS
    <2>1. algorithm = "link" => input \in LinkInputs
      BY DEF Init, Given
    <2>2. algorithm = "request" => input \in RequestInputs
      BY DEF Init, Given
    <2>3. algorithm = "sitemap" => input \in SitemapInputs
      BY DEF Init, Given
    <2>4. algorithm = "selection" => input \in SelectionInputs
      BY DEF Init, Given
    <2> QED
      BY <2>1, <2>2, <2>3, <2>4 DEF InventoriedInv
  <1>2. InventoriedInv /\ [Next]_algVars => InventoriedInv'
    BY DEF InventoriedInv, Next, algVars
  <1>3. InventoriedInv => InventoryIsSound
    <2> SUFFICES ASSUME InventoriedInv PROVE InventoryIsSound
      OBVIOUS
    <2>1. ASSUME Ran("link") PROVE AddressesAreStable(input)
      <3>1. input \in LinkInputs
        BY <2>1 DEF Ran, InventoriedInv
      <3> QED
        BY <3>1, LinkInputsAreTyped, AddressesStayStable
    <2>2. ASSUME Ran("request") PROVE RequestsAreBounded(input.hops, input.html, input.prefix)
      <3>1. input \in RequestInputs
        BY <2>2 DEF Ran, InventoriedInv
      <3> QED
        BY <3>1, RequestInputsAreTyped, RequestsStayBounded
    <2>3. ASSUME Ran("sitemap") PROVE SitemapsAreRead(input.files, [disallowed |-> input.disallowed], input.starts)
      <3>1. input \in SitemapInputs
        BY <2>3 DEF Ran, InventoriedInv
      <3> QED
        BY <3>1, SitemapInputsAreTyped, SitemapsAreAllRead
    <2>4. ASSUME Ran("selection") PROVE SelectionIsBalanced(SelectionPages(input), input.limit, <<>>)
      <3>1. input \in SelectionInputs
        BY <2>4 DEF Ran, InventoriedInv
      <3> QED
        BY <3>1, SelectionInputsAreTyped, SelectionStaysBalanced
    <2> QED
      BY <2>1, <2>2, <2>3, <2>4 DEF InventoryIsSound
  <1> QED
    BY <1>1, <1>2, <1>3, PTL DEF Spec
=============================================================================
