---------------------------- MODULE OrderingProofs ----------------------------
(***************************************************************************)
(* Lemmas about loops over lists: what a fold goes through, and what       *)
(* sorting and filtering return.                                           *)
(***************************************************************************)
EXTENDS Ordering, SequencesExt, FiniteSetsExt, FiniteSetTheorems, WellFoundedInduction, TLAPS

-----------------------------------------------------------------------------
(* Folds.  A lemma cannot be about every operation of a fold, but it can be
   about every function: step[n] is what the operation makes of the n-th item. *)

\* A set of numbers that has 0 and with each number the next one has them all.
LEMMA CountUp ==
    ASSUME NEW A, 0 \in A, \A n \in Nat : n \in A => n + 1 \in A
    PROVE  Nat \subseteq A
  <1> DEFINE R == {ss \in Nat \X Nat : ss[1] < ss[2]}
             T == Nat \ A
  <1>1. IsWellFoundedOn(R, Nat)
    BY NatLessThanWellFounded DEF OpToRel
  <1> SUFFICES ASSUME T # {} PROVE FALSE
    OBVIOUS
  <1>2. \E x \in T : \A y \in T : <<y, x>> \notin R
    <2> HIDE DEF R
    <2> QED
      BY <1>1, WFMin
  <1>3. PICK x \in T : \A y \in T : <<y, x>> \notin R
    BY <1>2
  <1>4. x # 0 /\ x \in Nat /\ x \notin A
    BY <1>3
  <1>5. x - 1 \in Nat /\ <<x - 1, x>> \in R
    BY <1>4
  <1>6. x - 1 \in A
    BY <1>3, <1>5
  <1>7. (x - 1) + 1 = x
    BY <1>4
  <1> QED
    BY <1>4, <1>5, <1>6, <1>7

\* A set of numbers up to a bound has its greatest one.
LEMMA MaxIn ==
    ASSUME NEW m \in Nat, NEW s \in SUBSET (1..m), s # {}
    PROVE  Max(s) \in s /\ \A k \in s : k <= Max(s)
  <1> DEFINE A == {n \in Nat : \A t \in SUBSET (1..n) : t # {} => \E x \in t : \A y \in t : x >= y}
  <1>1. 0 \in A
    <2>1. 1..0 = {}
      OBVIOUS
    <2> QED
      BY <2>1
  <1>2. ASSUME NEW n \in Nat, n \in A PROVE n + 1 \in A
    <2> SUFFICES ASSUME NEW t \in SUBSET (1..(n + 1)), t # {}
                 PROVE  \E x \in t : \A y \in t : x >= y
      OBVIOUS
    <2>1. CASE n + 1 \in t
      BY <2>1
    <2>2. CASE n + 1 \notin t
      <3>1. t \in SUBSET (1..n)
        BY <2>2
      <3> QED
        BY <1>2, <3>1
    <2> QED
      BY <2>1, <2>2
  <1> HIDE DEF A
  <1>3. m \in A
    BY <1>1, <1>2, CountUp
  <1>4. \E x \in s : \A y \in s : x >= y
    BY <1>3 DEF A
  <1> QED
    BY <1>4 DEF Max

\* The greatest number of an initial segment, and of a set that has the bound.
LEMMA MaxIs == ASSUME NEW m \in Nat, NEW s \in SUBSET (1..m), m \in s PROVE Max(s) = m
  <1>1. Max(s) \in s /\ m <= Max(s)
    BY MaxIn
  <1>2. Max(s) \in 1..m
    BY <1>1
  <1> QED
    BY <1>1, <1>2

\* What the iteration behind a fold gives for every set of positions, and for 1..n.
Iterates(it, b, L, step) ==
    \A s \in SUBSET (1..L) : it[s] = IF s = {} THEN b ELSE step[Max(s)][it[s \ {Max(s)}]]
IteratesIn(it, b, L, step, S) ==
    /\ it[{}] = b
    /\ \A s \in SUBSET (1..L) : s # {} /\ it[s \ {Max(s)}] \in S => it[s] = step[Max(s)][it[s \ {Max(s)}]]
Steps(g, b, L, step) == g[0] = b /\ \A n \in 1..L : g[n] = step[n][g[n - 1]]
StepsTo(b, L, step, S, end) == \E g \in [0..L -> S] : Steps(g, b, L, step) /\ g[L] = end

\* A fold over the positions of a sequence has a value for every set of them.
LEMMA IterationExists ==
    ASSUME NEW S, NEW b \in S, NEW L \in Nat, NEW step \in [1..L -> [S -> S]]
    PROVE  \E it \in [SUBSET (1..L) -> S] : Iterates(it, b, L, step)
  <1> DEFINE Has(m) == \E it \in [SUBSET (1..m) -> S] :
                          \A s \in SUBSET (1..m) : it[s] = IF s = {} THEN b ELSE step[Max(s)][it[s \ {Max(s)}]]
             A == {m \in Nat : m <= L => Has(m)}
  <1>1. Has(0)
    <2> DEFINE it == [s \in SUBSET (1..0) |-> b]
    <2>1. \A s \in SUBSET (1..0) : s = {}
      OBVIOUS
    <2>2. it \in [SUBSET (1..0) -> S]
          /\ \A s \in SUBSET (1..0) : it[s] = IF s = {} THEN b ELSE step[Max(s)][it[s \ {Max(s)}]]
      BY <2>1
    <2> HIDE DEF it
    <2> QED
      BY <2>2
  <1>2. ASSUME NEW m \in Nat, m + 1 <= L, Has(m) PROVE Has(m + 1)
    <2> PICK f \in [SUBSET (1..m) -> S] :
                \A s \in SUBSET (1..m) : f[s] = IF s = {} THEN b ELSE step[Max(s)][f[s \ {Max(s)}]]
      BY <1>2
    <2> DEFINE it == [s \in SUBSET (1..(m + 1)) |-> IF m + 1 \in s THEN step[m + 1][f[s \ {m + 1}]] ELSE f[s]]
    <2>1. \A s \in SUBSET (1..(m + 1)) : /\ m + 1 \notin s => s \in SUBSET (1..m)
                                         /\ s \ {m + 1} \in SUBSET (1..m)
      OBVIOUS
    <2>2. step[m + 1] \in [S -> S]
      BY <1>2
    <2>3. it \in [SUBSET (1..(m + 1)) -> S]
      BY <2>1, <2>2
    <2>4. ASSUME NEW s \in SUBSET (1..(m + 1))
          PROVE  it[s] = IF s = {} THEN b ELSE step[Max(s)][it[s \ {Max(s)}]]
      <3>1. CASE m + 1 \in s
        <4>1. Max(s) = m + 1
          BY <3>1, MaxIs
        <4>2. it[s \ {m + 1}] = f[s \ {m + 1}]
          BY <2>1
        <4> QED
          BY <3>1, <4>1, <4>2
      <3>2. CASE m + 1 \notin s /\ s # {}
        <4>1. s \in SUBSET (1..m)
          BY <2>1, <3>2
        <4>2. Max(s) \in s
          BY <3>2, <4>1, MaxIn
        <4>3. f[s] = step[Max(s)][f[s \ {Max(s)}]]
          BY <3>2, <4>1
        <4>4. it[s] = f[s] /\ it[s \ {Max(s)}] = f[s \ {Max(s)}]
          BY <3>2, <4>1, <4>2
        <4> QED
          BY <3>2, <4>3, <4>4
      <3>3. CASE s = {}
        <4>1. f[{}] = b /\ it[{}] = f[{}]
          OBVIOUS
        <4> QED
          BY <3>3, <4>1
      <3> QED
        BY <3>1, <3>2, <3>3
    <2> HIDE DEF it
    <2> QED
      BY <2>3, <2>4
  <1> HIDE DEF Has
  <1>3. 0 \in A /\ \A m \in Nat : m \in A => m + 1 \in A
    BY <1>1, <1>2
  <1> HIDE DEF A
  <1>4. L \in A
    BY <1>3, CountUp
  <1>5. Has(L)
    BY <1>4 DEF A
  <1> QED
    BY <1>5 DEF Has, Iterates

\* A fold that has its equation goes over the positions in their order.
LEMMA IterationSteps ==
    ASSUME NEW S, NEW b \in S, NEW L \in Nat, NEW step \in [1..L -> [S -> S]], NEW it,
           IteratesIn(it, b, L, step, S)
    PROVE  StepsTo(b, L, step, S, it[1..L])
  <1> USE DEF IteratesIn
  <1> DEFINE g == [n \in 0..L |-> it[1..n]]
             A == {n \in Nat : n <= L => it[1..n] \in S}
  <1>1. ASSUME NEW n \in 1..L PROVE (1..n) \in SUBSET (1..L) /\ 1..n # {} /\ Max(1..n) = n /\ (1..n) \ {n} = 1..(n - 1)
    <2>1. n \in Nat /\ (1..n) \in SUBSET (1..n) /\ n \in 1..n
      OBVIOUS
    <2>2. Max(1..n) = n
      BY <2>1, MaxIs
    <2> QED
      BY <2>2
  <1>2. 0 \in A
    <2>1. 1..0 = {}
      OBVIOUS
    <2> QED
      BY <2>1
  <1>3. ASSUME NEW n \in Nat, n \in A PROVE n + 1 \in A
    <2> SUFFICES ASSUME n + 1 <= L PROVE it[1..(n + 1)] \in S
      OBVIOUS
    <2>1. n + 1 \in 1..L /\ (n + 1) - 1 = n /\ it[1..n] \in S
      BY <1>3
    <2>2. it[1..(n + 1)] = step[n + 1][it[1..n]]
      BY <1>1, <2>1
    <2> QED
      BY <2>1, <2>2
  <1> HIDE DEF A
  <1>4. ASSUME NEW n \in 0..L PROVE it[1..n] \in S
    <2>1. n \in A
      BY <1>2, <1>3, CountUp
    <2> QED
      BY <2>1 DEF A
  <1>5. g \in [0..L -> S]
    BY <1>4
  <1>6. g[0] = b
    <2>1. 1..0 = {}
      OBVIOUS
    <2> QED
      BY <2>1
  <1>7. ASSUME NEW n \in 1..L PROVE g[n] = step[n][g[n - 1]]
    <2>1. n - 1 \in 0..L /\ n \in 0..L
      OBVIOUS
    <2>2. it[1..(n - 1)] \in S
      BY <1>4, <2>1
    <2>3. it[1..n] = step[n][it[1..(n - 1)]]
      BY <1>1, <2>2
    <2> QED
      BY <2>1, <2>3
  <1>8. g[L] = it[1..L]
    OBVIOUS
  <1> HIDE DEF g
  <1> QED
    BY <1>5, <1>6, <1>7, <1>8 DEF Steps, StepsTo

\* Whatever is done for one number after the other has its way through them.
LEMMA StepsExist ==
    ASSUME NEW S, NEW b \in S, NEW L \in Nat, NEW step \in [1..L -> [S -> S]]
    PROVE  \E g \in [0..L -> S] : Steps(g, b, L, step)
  <1>1. PICK it \in [SUBSET (1..L) -> S] : Iterates(it, b, L, step)
    BY IterationExists
  <1>2. IteratesIn(it, b, L, step, S)
    <2>1. {} \in SUBSET (1..L)
      OBVIOUS
    <2> QED
      BY <1>1, <2>1 DEF Iterates, IteratesIn
  <1>3. StepsTo(b, L, step, S, it[1..L])
    BY <1>2, IterationSteps
  <1> QED
    BY <1>3 DEF StepsTo

\* A set of natural numbers that is not empty has its least member.
LEMMA MinIn == ASSUME NEW s \in SUBSET Nat, s # {} PROVE Min(s) \in s /\ \A k \in s : Min(s) <= k
  <1> DEFINE R == {ss \in Nat \X Nat : ss[1] < ss[2]}
  <1>1. IsWellFoundedOn(R, Nat)
    BY NatLessThanWellFounded DEF OpToRel
  <1>2. \E x \in s : \A y \in s : <<y, x>> \notin R
    <2> HIDE DEF R
    <2> QED
      BY <1>1, WFMin
  <1>3. PICK x \in s : \A y \in s : <<y, x>> \notin R
    BY <1>2
  <1>4. ASSUME NEW y \in s PROVE x <= y
    <2>1. <<y, x>> \notin R /\ x \in Nat /\ y \in Nat
      BY <1>3
    <2> QED
      BY <2>1
  <1> QED
    BY <1>4 DEF Min

-----------------------------------------------------------------------------
(* Sorting and filtering.                                                    *)

\* An order in which every two members of a set differ.
TotalOn(before, s) ==
    /\ \A x \in s : <<x, x>> \notin before
    /\ \A x, y \in s : x # y => <<x, y>> \in before \/ <<y, x>> \in before
    /\ \A x, y, z \in s : <<x, y>> \in before /\ <<y, z>> \in before => <<x, z>> \in before

\* A list that has every member of a set once, in an order.
Lists(list, s, before) ==
    /\ list \in [1..Cardinality(s) -> s]
    /\ \A x \in s : \E i \in 1..Cardinality(s) : list[i] = x
    /\ \A i, j \in 1..Cardinality(s) : i < j => <<list[i], list[j]>> \in before
    /\ \A i, j \in 1..Cardinality(s) : list[i] = list[j] => i = j

\* sorted() gives each member of a finite set its place.
LEMMA ArrangedLists ==
    ASSUME NEW s, IsFiniteSet(s), NEW before, TotalOn(before, s)
    PROVE  Lists(Arranged(s, before), s, before)
  <1> DEFINE n == Cardinality(s)
             Below(x) == {y \in s : <<y, x>> \in before}
             rank == [x \in s |-> Cardinality(Below(x))]
             a == Arranged(s, before)
  <1>1. n \in Nat
    BY FS_CardinalityType
  <1>2. ASSUME NEW x \in s PROVE IsFiniteSet(Below(x)) /\ Cardinality(Below(x)) \in 0..(n - 1)
    <2>1. IsFiniteSet(s \ {x}) /\ Cardinality(s \ {x}) = n - 1
      BY FS_RemoveElement
    <2>2. Below(x) \in SUBSET (s \ {x})
      BY DEF TotalOn
    <2>3. IsFiniteSet(Below(x)) /\ Cardinality(Below(x)) <= n - 1
      <3> HIDE DEF Below, n
      <3> QED
        BY <2>1, <2>2, FS_Subset
    <2>4. Cardinality(Below(x)) \in Nat
      BY <2>3, FS_CardinalityType
    <2> HIDE DEF Below, n
    <2> QED
      BY <1>1, <2>3, <2>4
  <1>3. ASSUME NEW x \in s, NEW y \in s, <<x, y>> \in before PROVE rank[x] < rank[y]
    <2>1. Below(x) \cup {x} \in SUBSET Below(y) /\ x \notin Below(x)
      BY <1>3 DEF TotalOn
    <2>2. IsFiniteSet(Below(x)) /\ IsFiniteSet(Below(y)) /\ Cardinality(Below(x)) \in Nat /\ Cardinality(Below(y)) \in Nat
      BY <1>2
    <2>3. Cardinality(Below(x) \cup {x}) = Cardinality(Below(x)) + 1
      BY <2>1, <2>2, FS_AddElement
    <2>4. Cardinality(Below(x) \cup {x}) <= Cardinality(Below(y))
      BY <2>1, <2>2, FS_Subset
    <2> QED
      BY <2>2, <2>3, <2>4
  <1>4. rank \in [s -> 0..(n - 1)]
    BY <1>2
  <1>5. \A x, y \in s : rank[x] = rank[y] => x = y
    <2> SUFFICES ASSUME NEW x \in s, NEW y \in s, rank[x] = rank[y], x # y PROVE FALSE
      OBVIOUS
    <2>1. <<x, y>> \in before \/ <<y, x>> \in before
      BY DEF TotalOn
    <2>2. rank[x] < rank[y] \/ rank[y] < rank[x]
      BY <1>3, <2>1
    <2>3. rank[x] \in Int /\ rank[y] \in Int
      BY <1>4
    <2> HIDE DEF rank
    <2> QED
      BY <2>2, <2>3
  <1>6. IsFiniteSet(0..(n - 1)) /\ Cardinality(0..(n - 1)) = n
    <2> DEFINE top == n - 1
    <2>1. top \in Int /\ (0 > top => n = 0) /\ (~(0 > top) => top - 0 + 1 = n)
      BY <1>1
    <2> HIDE DEF top
    <2>2. IsFiniteSet(0..top) /\ Cardinality(0..top) = IF 0 > top THEN 0 ELSE top - 0 + 1
      BY <2>1, FS_Interval
    <2>3. IsFiniteSet(0..top) /\ Cardinality(0..top) = n
      BY <2>1, <2>2
    <2> QED
      BY <2>3 DEF top
  <1>7. rank \in Injection(s, 0..(n - 1))
    <2> HIDE DEF rank
    <2> QED
      BY <1>4, <1>5 DEF Injection, IsInjective
  <1>8. rank \in Surjection(s, 0..(n - 1))
    <2> HIDE DEF rank
    <2> QED
      BY <1>6, <1>7, FS_Injection
  <1>9. \A k \in 0..(n - 1) : \E x \in s : rank[x] = k
    <2> HIDE DEF rank
    <2> QED
      BY <1>8 DEF Surjection
  <1>10. ASSUME NEW i \in 1..n PROVE a[i] \in s /\ rank[a[i]] = i - 1
    <2>1. i - 1 \in 0..(n - 1)
      BY <1>1
    <2>2. \E x \in s : Cardinality(Below(x)) = i - 1
      BY <1>9, <2>1
    <2>3. a[i] = CHOOSE x \in s : Cardinality(Below(x)) = i - 1
      BY DEF Arranged
    <2> QED
      BY <2>2, <2>3
  <1>11. \A i \in 1..n : (CHOOSE x \in s : Cardinality(Below(x)) = i - 1) \in s
    BY <1>10 DEF Arranged
  <1>12. a \in [1..n -> s]
    BY <1>11 DEF Arranged
  <1>13. ASSUME NEW x \in s PROVE \E i \in 1..n : a[i] = x
    <2>1. rank[x] + 1 \in 1..n /\ rank[x] \in Int
      BY <1>1, <1>4
    <2>2. rank[a[rank[x] + 1]] = rank[x] /\ a[rank[x] + 1] \in s
      <3> HIDE DEF a, rank
      <3> QED
        BY <1>10, <2>1
    <2>3. a[rank[x] + 1] = x
      <3> HIDE DEF a, rank
      <3> QED
        BY <1>5, <2>2
    <2> QED
      BY <2>1, <2>3
  <1>14. ASSUME NEW i \in 1..n, NEW j \in 1..n, i < j PROVE <<a[i], a[j]>> \in before
    <2>1. a[i] \in s /\ a[j] \in s /\ rank[a[i]] = i - 1 /\ rank[a[j]] = j - 1
      <3> HIDE DEF a, rank
      <3> QED
        BY <1>10
    <2>2. a[i] # a[j]
      <3> HIDE DEF a, rank
      <3> QED
        BY <1>14, <2>1
    <2>3. ~(<<a[j], a[i]>> \in before)
      <3>1. <<a[j], a[i]>> \in before => rank[a[j]] < rank[a[i]]
        <4> HIDE DEF a, rank
        <4> QED
          BY <1>3, <2>1
      <3> HIDE DEF a, rank
      <3> QED
        BY <1>14, <2>1, <3>1
    <2> QED
      BY <2>1, <2>2, <2>3 DEF TotalOn
  <1>15. ASSUME NEW i \in 1..n, NEW j \in 1..n, a[i] = a[j] PROVE i = j
    <2> HIDE DEF a, rank
    <2> QED
      BY <1>10, <1>15
  <1> HIDE DEF a
  <1> QED
    BY <1>12, <1>13, <1>14, <1>15 DEF Lists, a

\* Numbers are sorted upwards.
LEMMA AscendingLists ==
    ASSUME NEW s \in SUBSET Int, IsFiniteSet(s)
    PROVE  /\ Ascending(s) \in [1..Cardinality(s) -> s]
           /\ \A x \in s : \E i \in 1..Cardinality(s) : Ascending(s)[i] = x
           /\ \A i, j \in 1..Cardinality(s) : i < j => Ascending(s)[i] < Ascending(s)[j]
  <1> DEFINE R == {p \in s \X s : p[1] < p[2]}
  <1>1. \A x, y \in s : <<x, y>> \in R <=> x < y
    OBVIOUS
  <1>2. TotalOn(R, s)
    <2> HIDE DEF R
    <2> QED
      BY <1>1 DEF TotalOn
  <1>3. Lists(Ascending(s), s, R)
    <2> HIDE DEF R
    <2> QED
      BY <1>2, ArrangedLists DEF Ascending, R
  <1> HIDE DEF R
  <1> QED
    BY <1>1, <1>3 DEF Lists

\* from says where each item of a comprehension was taken, in order.
PickedFrom(items, at, from) ==
    /\ from \in [1..Cardinality(at) -> at]
    /\ \A n \in 1..Cardinality(at) : Picked(items, at)[n] = items[from[n]]
    /\ \A i \in at : \E n \in 1..Cardinality(at) : from[n] = i
    /\ \A m, n \in 1..Cardinality(at) : m < n => from[m] < from[n]

\* A filter keeps the items at some positions of a list, once each and in their order.
LEMMA PickedInOrder ==
    ASSUME NEW S, NEW items \in Seq(S), NEW at \in SUBSET (1..Len(items))
    PROVE  /\ Picked(items, at) \in Seq(S) /\ Len(Picked(items, at)) = Cardinality(at)
           /\ Cardinality(at) \in Nat /\ IsFiniteSet(at)
           /\ PickedFrom(items, at, Ascending(at))
  <1> DEFINE k == Cardinality(at)
  <1>1. IsFiniteSet(at) /\ k \in Nat
    <2>1. IsFiniteSet(1..Len(items))
      BY FS_Interval
    <2> QED
      BY <2>1, FS_Subset, FS_CardinalityType
  <1>2. /\ Ascending(at) \in [1..k -> at]
        /\ \A x \in at : \E i \in 1..k : Ascending(at)[i] = x
        /\ \A i, j \in 1..k : i < j => Ascending(at)[i] < Ascending(at)[j]
    BY <1>1, AscendingLists
  <1>3. Picked(items, at) = [n \in 1..k |-> items[Ascending(at)[n]]]
    BY DEF Picked
  <1>4. ASSUME NEW n \in 1..k PROVE items[Ascending(at)[n]] \in S
    <2>1. Ascending(at)[n] \in 1..Len(items)
      BY <1>2
    <2> QED
      BY <2>1
  <1>6. PickedFrom(items, at, Ascending(at))
    <2>1. \A n \in 1..k : Picked(items, at)[n] = items[Ascending(at)[n]]
      BY <1>3
    <2> QED
      BY <1>2, <2>1 DEF PickedFrom
  <1> HIDE DEF k
  <1>5. Picked(items, at) \in Seq(S) /\ Len(Picked(items, at)) = k
    BY <1>1, <1>3, <1>4
  <1> QED
    BY <1>1, <1>5, <1>6 DEF k

\* The same, without the order.
LEMMA PickedItems ==
    ASSUME NEW S, NEW items \in Seq(S), NEW at \in SUBSET (1..Len(items))
    PROVE  /\ Picked(items, at) \in Seq(S) /\ Len(Picked(items, at)) = Cardinality(at)
           /\ Cardinality(at) \in Nat /\ IsFiniteSet(at)
  BY PickedInOrder

\* The same, without the length.
LEMMA PickedHasOrder ==
    ASSUME NEW S, NEW items \in Seq(S), NEW at \in SUBSET (1..Len(items))
    PROVE  \E from : PickedFrom(items, at, from)
  <1>1. PickedFrom(items, at, Ascending(at))
    BY PickedInOrder
  <1> QED
    BY <1>1

\* What a filter keeps was there, and everything that was there and is wanted is kept.
LEMMA PickedMembers ==
    ASSUME NEW S, NEW items \in Seq(S), NEW at \in SUBSET (1..Len(items))
    PROVE  /\ \A n \in 1..Len(Picked(items, at)) : \E i \in at : Picked(items, at)[n] = items[i]
           /\ \A i \in at : \E n \in 1..Len(Picked(items, at)) : Picked(items, at)[n] = items[i]
           /\ (\A i, j \in at : items[i] = items[j] => i = j) => IsInjective(Picked(items, at))
  <1>a. PICK from : PickedFrom(items, at, from)
    BY PickedHasOrder
  <1> /\ from \in [1..Cardinality(at) -> at]
      /\ \A n \in 1..Cardinality(at) : Picked(items, at)[n] = items[from[n]]
      /\ \A i \in at : \E n \in 1..Cardinality(at) : from[n] = i
      /\ \A m, n \in 1..Cardinality(at) : m < n => from[m] < from[n]
    BY <1>a DEF PickedFrom
  <1>1. Len(Picked(items, at)) = Cardinality(at) /\ Cardinality(at) \in Nat /\ Picked(items, at) \in Seq(S)
    BY PickedItems
  <1>2. DOMAIN Picked(items, at) = 1..Cardinality(at)
    BY <1>1
  <1>3. ASSUME \A i, j \in at : items[i] = items[j] => i = j,
               NEW m \in 1..Cardinality(at), NEW n \in 1..Cardinality(at), Picked(items, at)[m] = Picked(items, at)[n]
        PROVE  m = n
    <2>1. from[m] \in at /\ from[n] \in at /\ items[from[m]] = items[from[n]]
      BY <1>3
    <2>2. from[m] = from[n]
      BY <1>3, <2>1
    <2>4. from[m] \in Int
      <3>1. from[m] \in 1..Len(items)
        BY <2>1
      <3> QED
        BY <3>1
    <2>3. m \in Int /\ n \in Int /\ ~(m < n) /\ ~(n < m)
      BY <1>1, <2>2, <2>4
    <2> QED
      BY <2>3
  <1>4. \A n \in 1..Len(Picked(items, at)) : \E i \in at : Picked(items, at)[n] = items[i]
    BY <1>1
  <1>5. \A i \in at : \E n \in 1..Len(Picked(items, at)) : Picked(items, at)[n] = items[i]
    BY <1>1
  <1> QED
    BY <1>2, <1>3, <1>4, <1>5 DEF IsInjective
=============================================================================
