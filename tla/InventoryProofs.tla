---------------------------- MODULE InventoryProofs ----------------------------
(***************************************************************************)
(* Proofs about the algorithms of the inventory: addresses, requests,      *)
(* sitemaps and the choice of the key pages, for all that they are given.  *)
(***************************************************************************)
EXTENDS SiteInventory, OrderingProofs

-----------------------------------------------------------------------------
(* The loops, one step after the other.                                      *)

AddressesStay(S, L, items) == \A s \in S : \A n \in 1..L : AddAddress(s, items[n]) \in S
AddressesPath(S, L, items) ==
    \E g \in [0..L -> S] :
        /\ g[0] = <<>> /\ \A n \in 1..L : g[n] = AddAddress(g[n - 1], items[n])
        /\ g[L] = EachOnce(items)

\* The links of a page are brought to their form one after the other (_extract_links).
LEMMA AddressesOneByOne ==
    ASSUME NEW S, <<>> \in S, NEW L \in Nat, NEW items, DOMAIN items = 1..L,
           AddressesStay(S, L, items)
    PROVE  AddressesPath(S, L, items)
  <1> USE DEF AddressesStay
  <1> DEFINE step == [n \in 1..L |-> [s \in S |-> AddAddress(s, items[n])]]
             Is(it) == it = [s \in SUBSET (1..L) |->
                                IF s = {} THEN <<>> ELSE AddAddress(it[s \ {Max(s)}], items[Max(s)])]
             iter == CHOOSE it : Is(it)
  <1>1. step \in [1..L -> [S -> S]]
    OBVIOUS
  <1>2. PICK it \in [SUBSET (1..L) -> S] : Iterates(it, <<>>, L, step)
    <2> HIDE DEF step
    <2> QED
      BY <1>1, IterationExists
  <1>3. Is(it)
    <2>1. ASSUME NEW s \in SUBSET (1..L), s # {}
          PROVE  it[s] = AddAddress(it[s \ {Max(s)}], items[Max(s)])
      <3>1. Max(s) \in 1..L /\ it[s \ {Max(s)}] \in S
        BY <2>1, MaxIn
      <3> QED
        BY <1>2, <2>1, <3>1 DEF Iterates
    <2> QED
      BY <1>2, <2>1 DEF Iterates
  <1>4. Is(iter)
    <2> HIDE DEF Is
    <2> QED
      BY <1>3
  <1>5. iter[1..L] = EachOnce(items)
    BY DEF EachOnce, FoldLeft, MapThenFoldSet
  <1>6. iter[{}] = <<>>
    BY <1>4
  <1>7. IteratesIn(iter, <<>>, L, step, S)
    <2>1. ASSUME NEW s \in SUBSET (1..L), s # {}, iter[s \ {Max(s)}] \in S
          PROVE  iter[s] = step[Max(s)][iter[s \ {Max(s)}]]
      <3>1. Max(s) \in 1..L
        BY <2>1, MaxIn
      <3>2. iter[s] = AddAddress(iter[s \ {Max(s)}], items[Max(s)])
        <4> HIDE DEF iter
        <4> QED
          BY <1>4, <2>1
      <3>3. step[Max(s)][iter[s \ {Max(s)}]] = AddAddress(iter[s \ {Max(s)}], items[Max(s)])
        <4> HIDE DEF iter
        <4> QED
          BY <2>1, <3>1
      <3> QED
        BY <3>2, <3>3
    <2> HIDE DEF step, iter
    <2> QED
      BY <1>6, <2>1 DEF IteratesIn
  <1> HIDE DEF iter
  <1>8. StepsTo(<<>>, L, step, S, iter[1..L])
    <2> HIDE DEF step
    <2> QED
      BY <1>1, <1>7, IterationSteps
  <1> PICK g \in [0..L -> S] : Steps(g, <<>>, L, step) /\ g[L] = iter[1..L]
    <2> HIDE DEF step
    <2> QED
      BY <1>8 DEF StepsTo
  <1>9. ASSUME NEW n \in 1..L PROVE g[n] = AddAddress(g[n - 1], items[n])
    <2>1. n - 1 \in 0..L /\ g[n - 1] \in S
      OBVIOUS
    <2>2. g[n] = step[n][g[n - 1]]
      BY DEF Steps
    <2> QED
      BY <2>1, <2>2
  <1> QED
    BY <1>5, <1>9 DEF Steps, AddressesPath

TypesStay(S, L, items, ranked, limit) == \A s \in S : \A n \in 1..L : CoverType(s, items[n], ranked, limit) \in S
TypesPath(S, L, items, ranked, limit) ==
    \E g \in [0..L -> S] :
        /\ g[0] = <<>> /\ \A n \in 1..L : g[n] = CoverType(g[n - 1], items[n], ranked, limit)
        /\ g[L] = CoverTypes(items, ranked, limit)

\* Each type is covered in its turn (select_key_pages).
LEMMA TypesOneByOne ==
    ASSUME NEW ranked, NEW limit, NEW S, <<>> \in S, NEW L \in Nat, NEW items, DOMAIN items = 1..L,
           TypesStay(S, L, items, ranked, limit)
    PROVE  TypesPath(S, L, items, ranked, limit)
  <1> USE DEF TypesStay
  <1> DEFINE step == [n \in 1..L |-> [s \in S |-> CoverType(s, items[n], ranked, limit)]]
             Is(it) == it = [s \in SUBSET (1..L) |->
                                IF s = {} THEN <<>> ELSE CoverType(it[s \ {Max(s)}], items[Max(s)], ranked, limit)]
             iter == CHOOSE it : Is(it)
  <1>1. step \in [1..L -> [S -> S]]
    OBVIOUS
  <1>2. PICK it \in [SUBSET (1..L) -> S] : Iterates(it, <<>>, L, step)
    <2> HIDE DEF step
    <2> QED
      BY <1>1, IterationExists
  <1>3. Is(it)
    <2>1. ASSUME NEW s \in SUBSET (1..L), s # {}
          PROVE  it[s] = CoverType(it[s \ {Max(s)}], items[Max(s)], ranked, limit)
      <3>1. Max(s) \in 1..L /\ it[s \ {Max(s)}] \in S
        BY <2>1, MaxIn
      <3> QED
        BY <1>2, <2>1, <3>1 DEF Iterates
    <2> QED
      BY <1>2, <2>1 DEF Iterates
  <1>4. Is(iter)
    <2> HIDE DEF Is
    <2> QED
      BY <1>3
  <1>5. iter[1..L] = CoverTypes(items, ranked, limit)
    BY DEF CoverTypes, FoldLeft, MapThenFoldSet
  <1>6. iter[{}] = <<>>
    BY <1>4
  <1>7. IteratesIn(iter, <<>>, L, step, S)
    <2>1. ASSUME NEW s \in SUBSET (1..L), s # {}, iter[s \ {Max(s)}] \in S
          PROVE  iter[s] = step[Max(s)][iter[s \ {Max(s)}]]
      <3>1. Max(s) \in 1..L
        BY <2>1, MaxIn
      <3>2. iter[s] = CoverType(iter[s \ {Max(s)}], items[Max(s)], ranked, limit)
        <4> HIDE DEF iter
        <4> QED
          BY <1>4, <2>1
      <3>3. step[Max(s)][iter[s \ {Max(s)}]] = CoverType(iter[s \ {Max(s)}], items[Max(s)], ranked, limit)
        <4> HIDE DEF iter
        <4> QED
          BY <2>1, <3>1
      <3> QED
        BY <3>2, <3>3
    <2> HIDE DEF step, iter
    <2> QED
      BY <1>6, <2>1 DEF IteratesIn
  <1> HIDE DEF iter
  <1>8. StepsTo(<<>>, L, step, S, iter[1..L])
    <2> HIDE DEF step
    <2> QED
      BY <1>1, <1>7, IterationSteps
  <1> PICK g \in [0..L -> S] : Steps(g, <<>>, L, step) /\ g[L] = iter[1..L]
    <2> HIDE DEF step
    <2> QED
      BY <1>8 DEF StepsTo
  <1>9. ASSUME NEW n \in 1..L PROVE g[n] = CoverType(g[n - 1], items[n], ranked, limit)
    <2>1. n - 1 \in 0..L /\ g[n - 1] \in S
      OBVIOUS
    <2>2. g[n] = step[n][g[n - 1]]
      BY DEF Steps
    <2> QED
      BY <2>1, <2>2
  <1> QED
    BY <1>5, <1>9 DEF Steps, TypesPath

RoomStay(S, L, items, limit) == \A s \in S : \A n \in 1..L : FillRoom(s, items[n], limit) \in S
RoomPath(S, b, L, items, limit) ==
    \E g \in [0..L -> S] :
        /\ g[0] = b /\ \A n \in 1..L : g[n] = FillRoom(g[n - 1], items[n], limit)
        /\ g[L] = FillUp(b, items, limit)

\* Each page is tried in its turn (select_key_pages).
LEMMA RoomOneByOne ==
    ASSUME NEW limit, NEW S, NEW b \in S, NEW L \in Nat, NEW items, DOMAIN items = 1..L,
           RoomStay(S, L, items, limit)
    PROVE  RoomPath(S, b, L, items, limit)
  <1> USE DEF RoomStay
  <1> DEFINE step == [n \in 1..L |-> [s \in S |-> FillRoom(s, items[n], limit)]]
             Is(it) == it = [s \in SUBSET (1..L) |->
                                IF s = {} THEN b ELSE FillRoom(it[s \ {Max(s)}], items[Max(s)], limit)]
             iter == CHOOSE it : Is(it)
  <1>1. step \in [1..L -> [S -> S]]
    OBVIOUS
  <1>2. PICK it \in [SUBSET (1..L) -> S] : Iterates(it, b, L, step)
    <2> HIDE DEF step
    <2> QED
      BY <1>1, IterationExists
  <1>3. Is(it)
    <2>1. ASSUME NEW s \in SUBSET (1..L), s # {}
          PROVE  it[s] = FillRoom(it[s \ {Max(s)}], items[Max(s)], limit)
      <3>1. Max(s) \in 1..L /\ it[s \ {Max(s)}] \in S
        BY <2>1, MaxIn
      <3> QED
        BY <1>2, <2>1, <3>1 DEF Iterates
    <2> QED
      BY <1>2, <2>1 DEF Iterates
  <1>4. Is(iter)
    <2> HIDE DEF Is
    <2> QED
      BY <1>3
  <1>5. iter[1..L] = FillUp(b, items, limit)
    BY DEF FillUp, FoldLeft, MapThenFoldSet
  <1>6. iter[{}] = b
    BY <1>4
  <1>7. IteratesIn(iter, b, L, step, S)
    <2>1. ASSUME NEW s \in SUBSET (1..L), s # {}, iter[s \ {Max(s)}] \in S
          PROVE  iter[s] = step[Max(s)][iter[s \ {Max(s)}]]
      <3>1. Max(s) \in 1..L
        BY <2>1, MaxIn
      <3>2. iter[s] = FillRoom(iter[s \ {Max(s)}], items[Max(s)], limit)
        <4> HIDE DEF iter
        <4> QED
          BY <1>4, <2>1
      <3>3. step[Max(s)][iter[s \ {Max(s)}]] = FillRoom(iter[s \ {Max(s)}], items[Max(s)], limit)
        <4> HIDE DEF iter
        <4> QED
          BY <2>1, <3>1
      <3> QED
        BY <3>2, <3>3
    <2> HIDE DEF step, iter
    <2> QED
      BY <1>6, <2>1 DEF IteratesIn
  <1> HIDE DEF iter
  <1>8. StepsTo(b, L, step, S, iter[1..L])
    <2> HIDE DEF step
    <2> QED
      BY <1>1, <1>7, IterationSteps
  <1> PICK g \in [0..L -> S] : Steps(g, b, L, step) /\ g[L] = iter[1..L]
    <2> HIDE DEF step
    <2> QED
      BY <1>8 DEF StepsTo
  <1>9. ASSUME NEW n \in 1..L PROVE g[n] = FillRoom(g[n - 1], items[n], limit)
    <2>1. n - 1 \in 0..L /\ g[n - 1] \in S
      OBVIOUS
    <2>2. g[n] = step[n][g[n - 1]]
      BY DEF Steps
    <2> QED
      BY <2>1, <2>2
  <1> QED
    BY <1>5, <1>9 DEF Steps, RoomPath

SegmentsStay(S, L, items) == \A s \in S : \A n \in 1..L : ResolveSegment(s, items[n]) \in S
SegmentsPath(S, L, items) ==
    \E g \in [0..L -> S] :
        /\ g[0] = <<>> /\ \A n \in 1..L : g[n] = ResolveSegment(g[n - 1], items[n])
        /\ g[L] = ResolvedPath(items)

\* The segments of a path are resolved one after the other (_normalized_path).
LEMMA SegmentsOneByOne ==
    ASSUME NEW S, <<>> \in S, NEW L \in Nat, NEW items, DOMAIN items = 1..L,
           SegmentsStay(S, L, items)
    PROVE  SegmentsPath(S, L, items)
  <1> USE DEF SegmentsStay
  <1> DEFINE step == [n \in 1..L |-> [s \in S |-> ResolveSegment(s, items[n])]]
             Is(it) == it = [s \in SUBSET (1..L) |->
                                IF s = {} THEN <<>> ELSE ResolveSegment(it[s \ {Max(s)}], items[Max(s)])]
             iter == CHOOSE it : Is(it)
  <1>1. step \in [1..L -> [S -> S]]
    OBVIOUS
  <1>2. PICK it \in [SUBSET (1..L) -> S] : Iterates(it, <<>>, L, step)
    <2> HIDE DEF step
    <2> QED
      BY <1>1, IterationExists
  <1>3. Is(it)
    <2>1. ASSUME NEW s \in SUBSET (1..L), s # {}
          PROVE  it[s] = ResolveSegment(it[s \ {Max(s)}], items[Max(s)])
      <3>1. Max(s) \in 1..L /\ it[s \ {Max(s)}] \in S
        BY <2>1, MaxIn
      <3> QED
        BY <1>2, <2>1, <3>1 DEF Iterates
    <2> QED
      BY <1>2, <2>1 DEF Iterates
  <1>4. Is(iter)
    <2> HIDE DEF Is
    <2> QED
      BY <1>3
  <1>5. iter[1..L] = ResolvedPath(items)
    BY DEF ResolvedPath, FoldLeft, MapThenFoldSet
  <1>6. iter[{}] = <<>>
    BY <1>4
  <1>7. IteratesIn(iter, <<>>, L, step, S)
    <2>1. ASSUME NEW s \in SUBSET (1..L), s # {}, iter[s \ {Max(s)}] \in S
          PROVE  iter[s] = step[Max(s)][iter[s \ {Max(s)}]]
      <3>1. Max(s) \in 1..L
        BY <2>1, MaxIn
      <3>2. iter[s] = ResolveSegment(iter[s \ {Max(s)}], items[Max(s)])
        <4> HIDE DEF iter
        <4> QED
          BY <1>4, <2>1
      <3>3. step[Max(s)][iter[s \ {Max(s)}]] = ResolveSegment(iter[s \ {Max(s)}], items[Max(s)])
        <4> HIDE DEF iter
        <4> QED
          BY <2>1, <3>1
      <3> QED
        BY <3>2, <3>3
    <2> HIDE DEF step, iter
    <2> QED
      BY <1>6, <2>1 DEF IteratesIn
  <1> HIDE DEF iter
  <1>8. StepsTo(<<>>, L, step, S, iter[1..L])
    <2> HIDE DEF step
    <2> QED
      BY <1>1, <1>7, IterationSteps
  <1> PICK g \in [0..L -> S] : Steps(g, <<>>, L, step) /\ g[L] = iter[1..L]
    <2> HIDE DEF step
    <2> QED
      BY <1>8 DEF StepsTo
  <1>9. ASSUME NEW n \in 1..L PROVE g[n] = ResolveSegment(g[n - 1], items[n])
    <2>1. n - 1 \in 0..L /\ g[n - 1] \in S
      OBVIOUS
    <2>2. g[n] = step[n][g[n - 1]]
      BY DEF Steps
    <2> QED
      BY <2>1, <2>2
  <1> QED
    BY <1>5, <1>9 DEF Steps, SegmentsPath

TakingStay(S, L, items, robots) == \A s \in S : \A n \in 1..L : TakePage(s, items[n], robots) \in S
TakingPath(S, b, L, items, robots) ==
    \E g \in [0..L -> S] :
        /\ g[0] = b /\ \A n \in 1..L : g[n] = TakePage(g[n - 1], items[n], robots)
        /\ g[L] = TakePages(b, items, robots)

\* A sitemap's pages are taken one after the other (discover_sitemap_urls).
LEMMA TakingOneByOne ==
    ASSUME NEW robots, NEW S, NEW b \in S, NEW L \in Nat, NEW items, DOMAIN items = 1..L,
           TakingStay(S, L, items, robots)
    PROVE  TakingPath(S, b, L, items, robots)
  <1> USE DEF TakingStay
  <1> DEFINE step == [n \in 1..L |-> [s \in S |-> TakePage(s, items[n], robots)]]
             Is(it) == it = [s \in SUBSET (1..L) |->
                                IF s = {} THEN b ELSE TakePage(it[s \ {Max(s)}], items[Max(s)], robots)]
             iter == CHOOSE it : Is(it)
  <1>1. step \in [1..L -> [S -> S]]
    OBVIOUS
  <1>2. PICK it \in [SUBSET (1..L) -> S] : Iterates(it, b, L, step)
    <2> HIDE DEF step
    <2> QED
      BY <1>1, IterationExists
  <1>3. Is(it)
    <2>1. ASSUME NEW s \in SUBSET (1..L), s # {}
          PROVE  it[s] = TakePage(it[s \ {Max(s)}], items[Max(s)], robots)
      <3>1. Max(s) \in 1..L /\ it[s \ {Max(s)}] \in S
        BY <2>1, MaxIn
      <3> QED
        BY <1>2, <2>1, <3>1 DEF Iterates
    <2> QED
      BY <1>2, <2>1 DEF Iterates
  <1>4. Is(iter)
    <2> HIDE DEF Is
    <2> QED
      BY <1>3
  <1>5. iter[1..L] = TakePages(b, items, robots)
    BY DEF TakePages, FoldLeft, MapThenFoldSet
  <1>6. iter[{}] = b
    BY <1>4
  <1>7. IteratesIn(iter, b, L, step, S)
    <2>1. ASSUME NEW s \in SUBSET (1..L), s # {}, iter[s \ {Max(s)}] \in S
          PROVE  iter[s] = step[Max(s)][iter[s \ {Max(s)}]]
      <3>1. Max(s) \in 1..L
        BY <2>1, MaxIn
      <3>2. iter[s] = TakePage(iter[s \ {Max(s)}], items[Max(s)], robots)
        <4> HIDE DEF iter
        <4> QED
          BY <1>4, <2>1
      <3>3. step[Max(s)][iter[s \ {Max(s)}]] = TakePage(iter[s \ {Max(s)}], items[Max(s)], robots)
        <4> HIDE DEF iter
        <4> QED
          BY <2>1, <3>1
      <3> QED
        BY <3>2, <3>3
    <2> HIDE DEF step, iter
    <2> QED
      BY <1>6, <2>1 DEF IteratesIn
  <1> HIDE DEF iter
  <1>8. StepsTo(b, L, step, S, iter[1..L])
    <2> HIDE DEF step
    <2> QED
      BY <1>1, <1>7, IterationSteps
  <1> PICK g \in [0..L -> S] : Steps(g, b, L, step) /\ g[L] = iter[1..L]
    <2> HIDE DEF step
    <2> QED
      BY <1>8 DEF StepsTo
  <1>9. ASSUME NEW n \in 1..L PROVE g[n] = TakePage(g[n - 1], items[n], robots)
    <2>1. n - 1 \in 0..L /\ g[n - 1] \in S
      OBVIOUS
    <2>2. g[n] = step[n][g[n - 1]]
      BY DEF Steps
    <2> QED
      BY <2>1, <2>2
  <1> QED
    BY <1>5, <1>9 DEF Steps, TakingPath

NamingStay(S, L, items, file, entry, st) == \A s \in S : \A n \in 1..L : NewSitemap(s, items[n], entry, st) \in S
NamingPath(S, L, items, file, entry, st) ==
    \E g \in [0..L -> S] :
        /\ g[0] = <<>> /\ \A n \in 1..L : g[n] = NewSitemap(g[n - 1], items[n], entry, st)
        /\ g[L] = NewSitemaps(file, entry, st)

\* The sitemaps that a file names are queued one after the other (discover_sitemap_urls).
LEMMA NamingOneByOne ==
    ASSUME NEW file, NEW entry, NEW st, NEW S, <<>> \in S, NEW L \in Nat, NEW items, items = ParseSitemap(file).children, DOMAIN items = 1..L,
           NamingStay(S, L, items, file, entry, st)
    PROVE  NamingPath(S, L, items, file, entry, st)
  <1> USE DEF NamingStay
  <1> DEFINE step == [n \in 1..L |-> [s \in S |-> NewSitemap(s, items[n], entry, st)]]
             Is(it) == it = [s \in SUBSET (1..L) |->
                                IF s = {} THEN <<>> ELSE NewSitemap(it[s \ {Max(s)}], items[Max(s)], entry, st)]
             iter == CHOOSE it : Is(it)
  <1>1. step \in [1..L -> [S -> S]]
    OBVIOUS
  <1>2. PICK it \in [SUBSET (1..L) -> S] : Iterates(it, <<>>, L, step)
    <2> HIDE DEF step
    <2> QED
      BY <1>1, IterationExists
  <1>3. Is(it)
    <2>1. ASSUME NEW s \in SUBSET (1..L), s # {}
          PROVE  it[s] = NewSitemap(it[s \ {Max(s)}], items[Max(s)], entry, st)
      <3>1. Max(s) \in 1..L /\ it[s \ {Max(s)}] \in S
        BY <2>1, MaxIn
      <3> QED
        BY <1>2, <2>1, <3>1 DEF Iterates
    <2> QED
      BY <1>2, <2>1 DEF Iterates
  <1>4. Is(iter)
    <2> HIDE DEF Is
    <2> QED
      BY <1>3
  <1>5. iter[1..L] = NewSitemaps(file, entry, st)
    BY DEF NewSitemaps, FoldLeft, MapThenFoldSet
  <1>6. iter[{}] = <<>>
    BY <1>4
  <1>7. IteratesIn(iter, <<>>, L, step, S)
    <2>1. ASSUME NEW s \in SUBSET (1..L), s # {}, iter[s \ {Max(s)}] \in S
          PROVE  iter[s] = step[Max(s)][iter[s \ {Max(s)}]]
      <3>1. Max(s) \in 1..L
        BY <2>1, MaxIn
      <3>2. iter[s] = NewSitemap(iter[s \ {Max(s)}], items[Max(s)], entry, st)
        <4> HIDE DEF iter
        <4> QED
          BY <1>4, <2>1
      <3>3. step[Max(s)][iter[s \ {Max(s)}]] = NewSitemap(iter[s \ {Max(s)}], items[Max(s)], entry, st)
        <4> HIDE DEF iter
        <4> QED
          BY <2>1, <3>1
      <3> QED
        BY <3>2, <3>3
    <2> HIDE DEF step, iter
    <2> QED
      BY <1>6, <2>1 DEF IteratesIn
  <1> HIDE DEF iter
  <1>8. StepsTo(<<>>, L, step, S, iter[1..L])
    <2> HIDE DEF step
    <2> QED
      BY <1>1, <1>7, IterationSteps
  <1> PICK g \in [0..L -> S] : Steps(g, <<>>, L, step) /\ g[L] = iter[1..L]
    <2> HIDE DEF step
    <2> QED
      BY <1>8 DEF StepsTo
  <1>9. ASSUME NEW n \in 1..L PROVE g[n] = NewSitemap(g[n - 1], items[n], entry, st)
    <2>1. n - 1 \in 0..L /\ g[n - 1] \in S
      OBVIOUS
    <2>2. g[n] = step[n][g[n - 1]]
      BY DEF Steps
    <2> QED
      BY <2>1, <2>2
  <1> QED
    BY <1>5, <1>9 DEF Steps, NamingPath

-----------------------------------------------------------------------------
(* The lesser and the greater of two numbers.                                *)

\* The smaller of a length and a limit.
LEMMA MinOfTwo ==
    ASSUME NEW a \in Nat, NEW b \in Nat
    PROVE  Min({a, b}) \in 0..a /\ Min({a, b}) <= b /\ Min({a, b}) \in {a, b}
  <1>1. {a, b} \in SUBSET Nat /\ {a, b} # {}
    OBVIOUS
  <1>2. Min({a, b}) \in {a, b} /\ \A k \in {a, b} : Min({a, b}) <= k
    BY <1>1, MinIn
  <1> DEFINE m == Min({a, b})
  <1> HIDE DEF m
  <1>3. m \in {a, b} /\ m <= a /\ m <= b
    BY <1>2 DEF m
  <1>4. m \in 0..a /\ m <= b /\ m \in {a, b}
    BY <1>3
  <1> QED
    BY <1>4 DEF m

-----------------------------------------------------------------------------
(* Addresses.                                                                *)

\* A path that is resolved has no segment that stands for another one (_normalized_path).
LEMMA ResolvedIsClean ==
    ASSUME NEW P, NEW path \in Seq(P)
    PROVE  ResolvedPath(path) \in Seq(P \ {".", ".."})
  <1> DEFINE S == Seq(P \ {".", ".."})
             L == Len(path)
  <1>1. L \in Nat /\ DOMAIN path = 1..L /\ \A n \in 1..L : path[n] \in P
    OBVIOUS
  <1>2. ASSUME NEW s \in S, NEW n \in 1..L PROVE ResolveSegment(s, path[n]) \in S
    <2>1. s # <<>> => Front(s) \in S
      BY DEF Front
    <2>2. path[n] \notin {".", ".."} => Append(s, path[n]) \in S
      BY <1>1
    <2> HIDE DEF S
    <2> QED
      BY <2>1, <2>2 DEF ResolveSegment
  <1>3. SegmentsStay(S, L, path) /\ <<>> \in S
    <2>1. <<>> \in S
      OBVIOUS
    <2> HIDE DEF S, L
    <2> QED
      BY <1>2, <2>1 DEF SegmentsStay
  <1> HIDE DEF S, L
  <1>4. SegmentsPath(S, L, path)
    BY <1>1, <1>3, SegmentsOneByOne
  <1>5. ResolvedPath(path) \in S
    BY <1>1, <1>4 DEF SegmentsPath
  <1> QED
    BY <1>5 DEF S

\* A path of plain segments stays what it is.
LEMMA CleanResolves ==
    ASSUME NEW P, "." \notin P, ".." \notin P, NEW path \in Seq(P)
    PROVE  ResolvedPath(path) = path
  <1> DEFINE S == Seq(P)
             L == Len(path)
             part(n) == SubSeq(path, 1, n)
  <1>1. L \in Nat /\ DOMAIN path = 1..L /\ \A n \in 1..L : path[n] \in P /\ path[n] # "." /\ path[n] # ".."
    OBVIOUS
  <1>2. ASSUME NEW s \in S, NEW n \in 1..L
        PROVE  ResolveSegment(s, path[n]) = Append(s, path[n]) /\ Append(s, path[n]) \in S
    BY <1>1 DEF ResolveSegment
  <1>3. SegmentsStay(S, L, path) /\ <<>> \in S
    <2>1. \A s \in S : \A n \in 1..L : ResolveSegment(s, path[n]) \in S
      BY <1>2
    <2>2. <<>> \in S
      OBVIOUS
    <2> HIDE DEF S, L
    <2> QED
      BY <2>1, <2>2 DEF SegmentsStay
  <1>4. \A n \in Nat : n + 1 <= L => part(n + 1) = Append(part(n), path[n + 1])
    OBVIOUS
  <1>5. part(0) = <<>> /\ part(L) = path
    OBVIOUS
  <1> HIDE DEF S, L, part
  <1>6. SegmentsPath(S, L, path)
    BY <1>1, <1>3, SegmentsOneByOne
  <1>7. PICK g \in [0..L -> S] :
          /\ g[0] = <<>> /\ \A n \in 1..L : g[n] = ResolveSegment(g[n - 1], path[n])
          /\ g[L] = ResolvedPath(path)
    BY <1>6 DEF SegmentsPath
  <1> DEFINE A == {n \in Nat : n <= L => g[n] = part(n)}
  <1>8. 0 \in A
    BY <1>5, <1>7
  <1>9. ASSUME NEW n \in Nat, n \in A PROVE n + 1 \in A
    <2> SUFFICES ASSUME n + 1 <= L PROVE g[n + 1] = part(n + 1)
      OBVIOUS
    <2>1. n \in 0..L /\ n + 1 \in 1..L /\ (n + 1) - 1 = n /\ g[n] = part(n) /\ g[n] \in S
      BY <1>1, <1>9
    <2>2. g[n + 1] = ResolveSegment(g[(n + 1) - 1], path[n + 1])
      BY <1>7, <2>1
    <2>3. g[n + 1] = Append(g[n], path[n + 1])
      BY <1>2, <2>1, <2>2
    <2> QED
      BY <1>4, <2>1, <2>3
  <1> HIDE DEF A
  <1>10. L \in A
    BY <1>1, <1>8, <1>9, CountUp
  <1>11. g[L] = part(L)
    BY <1>1, <1>10 DEF A
  <1> QED
    BY <1>5, <1>7, <1>11

\* A normalized path is clean, and stays what it is unless it ends in a default document.
LEMMA NormalizedIsClean ==
    ASSUME NEW P, NEW path \in Seq(P)
    PROVE  /\ NormalizedPath(path) \in Seq(P \ {".", ".."})
           /\ NormalizedPath(path) = <<>> \/ Last(NormalizedPath(path)) \notin DefaultDocuments
                => NormalizedPath(NormalizedPath(path)) = NormalizedPath(path)
  <1> DEFINE S == P \ {".", ".."}
             resolved == ResolvedPath(path)
             normal == NormalizedPath(path)
  <1>1. resolved \in Seq(S)
    BY ResolvedIsClean
  <1>2. normal \in Seq(S)
    <2>1. resolved # <<>> => Front(resolved) \in Seq(S)
      <3> HIDE DEF resolved, S
      <3> QED
        BY <1>1 DEF Front
    <2> HIDE DEF S
    <2> QED
      BY <1>1, <2>1 DEF NormalizedPath
  <1>3. "." \notin S /\ ".." \notin S
    OBVIOUS
  <1> HIDE DEF S, normal
  <1>4. ResolvedPath(normal) = normal
    BY <1>2, <1>3, CleanResolves
  <1>5. normal = <<>> \/ Last(normal) \notin DefaultDocuments => NormalizedPath(normal) = normal
    BY <1>4 DEF NormalizedPath
  <1> QED
    BY <1>2, <1>5 DEF S, normal

\* What a link is: no more is known of it than its parts.
LinksOf(P, K, H) == [web : BOOLEAN, login : BOOLEAN, host : H, port : Int, path : Seq(P), query : SUBSET K]

\* An address that is in the inventory is in scope, and means the same when it is parsed again,
\* whatever the link was that named it (canonicalize_inventory_url).
THEOREM AddressesStayStable ==
    ASSUME NEW P, NEW K, NEW H, NEW link \in LinksOf(P, K, H)
    PROVE  AddressesAreStable(link)
  <1> DEFINE url == Canonicalize(link)
             normal == NormalizedPath(link.path)
             again == [link EXCEPT !.path = url.path, !.query = url.query]
  <1> SUFFICES ASSUME url # NoUrl, url.path = <<>> \/ Last(url.path) \notin DefaultDocuments
               PROVE  /\ ~PathIsExcluded(url.path) /\ link.host \in SiteHosts
                      /\ url.query \cap (TrackingKeys \cup RejectedKeys) = {}
                      /\ Range(url.path) \cap {".", ".."} = {}
                      /\ Canonicalize(again) = url
    BY DEF AddressesAreStable
  <1>1. link.path \in Seq(P)
    BY DEF LinksOf
  <1>2. /\ normal \in Seq(P \ {".", ".."})
        /\ normal = <<>> \/ Last(normal) \notin DefaultDocuments => NormalizedPath(normal) = normal
    BY <1>1, NormalizedIsClean
  <1> HIDE DEF normal
  <1>3. /\ InSite(link) /\ link.query \cap RejectedKeys = {} /\ ~PathIsExcluded(normal)
        /\ url = [path |-> normal, query |-> link.query \ TrackingKeys]
    BY DEF Canonicalize, normal
  <1>4. url.path = normal /\ url.query = link.query \ TrackingKeys
    BY <1>3
  <1>5. /\ again.path = normal /\ again.query = link.query \ TrackingKeys
        /\ again.web = link.web /\ again.login = link.login /\ again.host = link.host /\ again.port = link.port
    BY <1>4 DEF LinksOf
  <1> HIDE DEF again
  <1>6. InSite(again) /\ again.query \cap RejectedKeys = {} /\ again.query \ TrackingKeys = again.query
    BY <1>3, <1>5 DEF InSite
  <1>7. NormalizedPath(again.path) = normal
    BY <1>2, <1>4, <1>5
  <1>8. Canonicalize(again) = [path |-> normal, query |-> again.query]
    BY <1>3, <1>6, <1>7 DEF Canonicalize
  <1>9. Range(normal) \cap {".", ".."} = {}
    BY <1>2 DEF Range
  <1> HIDE DEF url
  <1> QED
    BY <1>3, <1>4, <1>5, <1>8, <1>9 DEF InSite

-----------------------------------------------------------------------------
(* Requests.                                                                 *)

\* What the servers answer: it ends somewhere, or there are more redirects than are followed.
Hops(hops, H, K) ==
    /\ hops \in Seq([host : H, public : BOOLEAN, kind : K, html : BOOLEAN, declared : Nat, size : Nat])
    /\ \E i \in 1..Len(hops) : LeavesSite(hops, i) \/ hops[i].kind # "redirect" \/ i > MaxRedirects

\* A request asks no server outside the site and keeps to its limits, whatever the servers
\* answer (_fetch_redirects, _read_bounded).
THEOREM RequestsStayBounded ==
    ASSUME NEW H, NEW K, NEW hops, Hops(hops, H, K), NEW html \in BOOLEAN, NEW prefix \in BOOLEAN
    PROVE  RequestsAreBounded(hops, html, prefix)
  <1> DEFINE ends == {i \in 1..Len(hops) : LeavesSite(hops, i) \/ hops[i].kind # "redirect" \/ i > MaxRedirects}
             n == LastHop(hops)
             hop == hops[n]
             answer == Fetch(hops, html, prefix)
             less == Min({hop.size, MaxBytes})
             failure(code) == [ok |-> FALSE, code |-> code, asked |-> n, size |-> 0, cut |-> FALSE]
  <1>0. MaxRedirects \in Nat /\ MaxBytes \in Nat
    BY SiteInventoryAssumption
  <1>1. ends \in SUBSET Nat /\ ends # {}
    BY DEF Hops
  <1>2. n = Min(ends)
    BY DEF LastHop
  <1>3. n \in ends /\ \A k \in ends : n <= k
    <2> HIDE DEF ends, n
    <2> QED
      BY <1>1, <1>2, MinIn
  <1> HIDE DEF n
  <1>4. n \in 1..Len(hops) /\ Len(hops) \in Nat
    BY <1>3 DEF Hops
  <1>5. ASSUME NEW i \in 1..(n - 1)
        PROVE  ~LeavesSite(hops, i) /\ hops[i].kind = "redirect" /\ i <= MaxRedirects
    <2>1. i \in 1..Len(hops) /\ ~(n <= i)
      BY <1>4
    <2>2. i \notin ends
      BY <1>3, <2>1
    <2> HIDE DEF n
    <2> QED
      BY <1>0, <2>1, <2>2
  <1>6. n <= MaxRedirects + 1
    <2>1. CASE n = 1
      BY <1>0, <2>1
    <2>2. CASE n # 1
      <3>1. n - 1 \in 1..(n - 1)
        BY <1>4, <2>2
      <3>2. n - 1 <= MaxRedirects
        BY <1>5, <3>1
      <3> QED
        BY <1>0, <1>4, <3>2
    <2> QED
      BY <2>1, <2>2
  <1>7. hop.declared \in Nat /\ hop.size \in Nat
    <2> DEFINE R == [host : H, public : BOOLEAN, kind : K, html : BOOLEAN, declared : Nat, size : Nat]
    <2>0. hops \in Seq(R)
      BY DEF Hops
    <2>1. hop \in R
      <3> HIDE DEF R
      <3> QED
        BY <1>4, <2>0
    <2> HIDE DEF hop
    <2> QED
      BY <2>1
  <1> HIDE DEF hop
  <1>8. less \in {hop.size, MaxBytes} /\ less <= hop.size /\ less <= MaxBytes
    BY <1>0, <1>7, MinOfTwo
  <1>9. less = hop.size \/ hop.size > MaxBytes
    BY <1>0, <1>7, <1>8
  <1> HIDE DEF less
  <1>10. CASE LeavesSite(hops, n)
    <2>1. answer.ok = FALSE /\ answer.asked = n - 1
      BY <1>10 DEF Fetch, n
    <2>2. \A i \in 1..(n - 1) : hops[i].host \in SiteHosts /\ hops[i].public
      BY <1>5 DEF LeavesSite
    <2> QED
      BY <1>0, <1>4, <1>6, <2>1, <2>2 DEF RequestsAreBounded
  <1>11. CASE ~LeavesSite(hops, n)
    <2>1. ASSUME NEW i \in 1..n PROVE hops[i].host \in SiteHosts /\ hops[i].public
      <3>1. i = n \/ i \in 1..(n - 1)
        BY <1>4
      <3> QED
        BY <1>5, <1>11, <3>1 DEF LeavesSite
    <2>2. \/ answer.ok = FALSE /\ answer.asked = n
          \/ /\ answer = [ok |-> TRUE, code |-> "none", asked |-> n, size |-> less, cut |-> hop.size > MaxBytes]
             /\ prefix \/ hop.size <= MaxBytes
      <3>1. \/ \E code \in {"page_timeout", "http_error", "content_unsupported", "response_too_large"} : answer = failure(code)
            \/ /\ answer = [ok |-> TRUE, code |-> "none", asked |-> n, size |-> less, cut |-> hop.size > MaxBytes]
               /\ prefix \/ ~(hop.size > MaxBytes)
        BY <1>11 DEF Fetch, n, hop, less
      <3> QED
        BY <1>0, <1>7, <3>1
    <2>3. CASE answer.ok = FALSE /\ answer.asked = n
      BY <1>6, <2>1, <2>3 DEF RequestsAreBounded
    <2>4. CASE /\ answer = [ok |-> TRUE, code |-> "none", asked |-> n, size |-> less, cut |-> hop.size > MaxBytes]
               /\ prefix \/ hop.size <= MaxBytes
      <3>1. answer.ok /\ answer.asked = n /\ answer.size = less /\ answer.cut = (hop.size > MaxBytes)
        BY <2>4
      <3>2. hop = hops[n]
        BY DEF hop
      <3>3. less <= MaxBytes /\ (hop.size > MaxBytes => prefix) /\ (hop.size > MaxBytes \/ less = hop.size)
        BY <1>0, <1>7, <1>8, <1>9, <2>4
      <3> HIDE DEF answer
      <3> QED
        BY <1>6, <2>1, <3>1, <3>2, <3>3 DEF RequestsAreBounded, answer
    <2> QED
      BY <2>2, <2>3, <2>4
  <1> QED
    BY <1>10, <1>11

-----------------------------------------------------------------------------
(* The choice of the key pages.                                              *)

\* A list of pages, each there once.
SomePages(list, pages) ==
    /\ list \in Seq(pages)
    /\ \A i, j \in 1..Len(list) : list[i] = list[j] => i = j

\* Two lists of pages that have none in common, one after the other.
LEMMA JoinedPages ==
    ASSUME NEW pages, NEW a, SomePages(a, pages), NEW b, SomePages(b, pages),
           \A i \in 1..Len(a) : \A j \in 1..Len(b) : a[i] # b[j]
    PROVE  SomePages(a \o b, pages)
  <1> DEFINE c == a \o b
  <1>1. a \in Seq(pages) /\ b \in Seq(pages)
    BY DEF SomePages
  <1>2. /\ c \in Seq(pages) /\ Len(c) = Len(a) + Len(b) /\ Len(a) \in Nat /\ Len(b) \in Nat
        /\ \A i \in 1..Len(c) : c[i] = IF i <= Len(a) THEN a[i] ELSE b[i - Len(a)]
    BY <1>1
  <1> HIDE DEF c
  <1>3. ASSUME NEW i \in 1..Len(c), NEW j \in 1..Len(c), c[i] = c[j] PROVE i = j
    <2>1. CASE i <= Len(a) /\ j <= Len(a)
      <3>1. i \in 1..Len(a) /\ j \in 1..Len(a) /\ a[i] = a[j]
        BY <1>2, <1>3, <2>1
      <3> QED
        BY <3>1 DEF SomePages
    <2>2. CASE i > Len(a) /\ j > Len(a)
      <3>1. i - Len(a) \in 1..Len(b) /\ j - Len(a) \in 1..Len(b) /\ b[i - Len(a)] = b[j - Len(a)]
        BY <1>2, <1>3, <2>2
      <3>2. i - Len(a) = j - Len(a)
        BY <3>1 DEF SomePages
      <3> QED
        BY <1>2, <3>2
    <2>3. CASE i <= Len(a) /\ j > Len(a)
      <3>1. i \in 1..Len(a) /\ j - Len(a) \in 1..Len(b) /\ a[i] = b[j - Len(a)]
        BY <1>2, <1>3, <2>3
      <3> QED
        BY <3>1
    <2>4. CASE i > Len(a) /\ j <= Len(a)
      <3>1. j \in 1..Len(a) /\ i - Len(a) \in 1..Len(b) /\ a[j] = b[i - Len(a)]
        BY <1>2, <1>3, <2>4
      <3> QED
        BY <3>1
    <2> QED
      BY <1>2, <2>1, <2>2, <2>3, <2>4
  <1> QED
    BY <1>2, <1>3 DEF SomePages, c

\* Some of the pages of a list.
LEMMA PickedPages ==
    ASSUME NEW pages, NEW list, SomePages(list, pages), NEW at \in SUBSET (1..Len(list))
    PROVE  /\ SomePages(Picked(list, at), pages)
           /\ \A n \in 1..Len(Picked(list, at)) : \E i \in at : Picked(list, at)[n] = list[i]
  <1>1. list \in Seq(pages) /\ \A i, j \in at : list[i] = list[j] => i = j
    BY DEF SomePages
  <1>2. Picked(list, at) \in Seq(pages)
    BY <1>1, PickedItems
  <1>3. IsInjective(Picked(list, at))
    BY <1>1, PickedMembers
  <1>4. \A n \in 1..Len(Picked(list, at)) : \E i \in at : Picked(list, at)[n] = list[i]
    BY <1>1, PickedMembers
  <1> DEFINE some == Picked(list, at)
  <1> HIDE DEF some
  <1>5. SomePages(some, pages)
    BY <1>2, <1>3 DEF SomePages, IsInjective, some
  <1> QED
    BY <1>4, <1>5 DEF some

\* A page more that was not in the list.
LEMMA AppendedPage ==
    ASSUME NEW pages, NEW list, SomePages(list, pages), NEW page \in pages, \A i \in 1..Len(list) : list[i] # page
    PROVE  SomePages(Append(list, page), pages)
  <1> DEFINE more == Append(list, page)
  <1>1. list \in Seq(pages)
    BY DEF SomePages
  <1>2. /\ more \in Seq(pages) /\ Len(more) = Len(list) + 1 /\ Len(list) \in Nat /\ more[Len(list) + 1] = page
        /\ \A i \in 1..Len(list) : more[i] = list[i]
        /\ \A i \in 1..Len(more) : i \in 1..Len(list) \/ i = Len(list) + 1
    BY <1>1
  <1> HIDE DEF more
  <1>3. \A i, j \in 1..Len(more) : more[i] = more[j] => i = j
    BY <1>2 DEF SomePages
  <1> QED
    BY <1>2, <1>3 DEF SomePages, more

\* One list after the other.
JoinedIsSo(a, b, S) ==
    /\ a \o b \in Seq(S) /\ Len(a \o b) = Len(a) + Len(b)
    /\ \A n \in 1..(Len(a) + Len(b)) : (a \o b)[n] = IF n <= Len(a) THEN a[n] ELSE b[n - Len(a)]
LEMMA JoinedLists == ASSUME NEW S, NEW a \in Seq(S), NEW b \in Seq(S) PROVE JoinedIsSo(a, b, S)
  BY DEF JoinedIsSo

\* A list of one item.
LEMMA ListOfOne == ASSUME NEW S, NEW a \in S PROVE <<a>> \in Seq(S) /\ Len(<<a>>) = 1 /\ <<a>>[1] = a
  OBVIOUS

\* The types to cover are each there once, and the home page's is not among them.
LEMMA CoverageOrderIsSo ==
    /\ CoverageOrder \in Seq(Range(CoverageOrder)) /\ Len(CoverageOrder) = 12
    /\ \A n \in 1..12 : CoverageOrder[n] # "home"
    /\ \A m, n \in 1..12 : CoverageOrder[m] = CoverageOrder[n] => m = n
  <1>1. CoverageOrder \in Seq(Range(CoverageOrder))
    BY DEF CoverageOrder, Range
  <1>2. Len(CoverageOrder) = 12
    BY DEF CoverageOrder
  <1>3. \A n \in 1..12 : CoverageOrder[n] # "home"
    BY Z3 DEF CoverageOrder
  <1>4. \A m, n \in 1..12 : CoverageOrder[m] = CoverageOrder[n] => m = n
    BY DEF CoverageOrder
  <1> QED
    BY <1>1, <1>2, <1>3, <1>4

\* What a ranking is made from: pages that have an address of their own, and counts.
Rankable(pages) ==
    /\ IsFiniteSet(pages)
    /\ \A p \in pages : p.url \in Range(UrlOrder) /\ p.depth \in Nat /\ p.matches \in Nat
    /\ \A p, q \in pages : p.url = q.url => p = q
Counted(priorities) ==
    \A url \in DOMAIN priorities : priorities[url].impressions \in Nat /\ priorities[url].clicks \in Nat

\* A score is a number: what a page's type is worth, less its depth, and more for what
\* the profile and the search data say of it (_page_score).
LEMMA ScoreIsANumber ==
    ASSUME NEW page, page.depth \in Nat, page.matches \in Nat, NEW priorities, Counted(priorities)
    PROVE  PageScore(page, priorities) \in Int
  <1>1. TypeScore(page.type) \in Int
    BY DEF TypeScore
  <1> DEFINE depth == Min({page.depth, 20})
             matches == Min({page.matches, 5})
             seen == IF page.url \in DOMAIN priorities
                     THEN Min({250, 12 * priorities[page.url].impressions + 24 * priorities[page.url].clicks}) ELSE 0
  <1>2. depth \in Nat /\ matches \in Nat
    BY MinOfTwo
  <1>3. seen \in Nat
    <2>1. ASSUME page.url \in DOMAIN priorities
          PROVE  Min({250, 12 * priorities[page.url].impressions + 24 * priorities[page.url].clicks}) \in Nat
      <3> DEFINE more == 12 * priorities[page.url].impressions + 24 * priorities[page.url].clicks
      <3>1. more \in Nat
        BY <2>1 DEF Counted
      <3> HIDE DEF more
      <3>2. Min({250, more}) \in 0..250
        <4> DEFINE most == 250
        <4>1. most \in Nat
          OBVIOUS
        <4> HIDE DEF most
        <4>2. Min({most, more}) \in 0..most
          BY <3>1, <4>1, MinOfTwo
        <4> QED
          BY <4>2 DEF most
      <3> QED
        BY <3>2 DEF more
    <2> QED
      BY <2>1
  <1>4. PageScore(page, priorities) = TypeScore(page.type) - 2 * depth + 50 * matches + seen
    BY DEF PageScore
  <1> HIDE DEF depth, matches, seen
  <1> QED
    BY <1>1, <1>2, <1>3, <1>4

\* The addresses of the site are in the order of their text.
LEMMA PlaceIsItsOwn ==
    ASSUME NEW u \in Range(UrlOrder), NEW v \in Range(UrlOrder)
    PROVE  Place(u) \in Nat /\ (Place(u) = Place(v) => u = v)
  <1>1. UrlOrder \in Seq(Range(UrlOrder))
    BY SiteInventoryAssumption
  <1>2. ASSUME NEW w \in Range(UrlOrder) PROVE Place(w) \in DOMAIN UrlOrder /\ UrlOrder[Place(w)] = w
    BY DEF Place, Range
  <1>3. DOMAIN UrlOrder \subseteq Nat
    BY <1>1
  <1> QED
    BY <1>2, <1>3

\* The ranking has a place for each page that may be read (rank_pages).
LEMMA RankingIsSo ==
    ASSUME NEW pages, Rankable(pages), NEW priorities, Counted(priorities)
    PROVE  SomePages(RankPages(pages, priorities), pages)
  <1> DEFINE eligible == {p \in pages : p.checked /\ p.status < 400 /\ ~p.noindex}
             before(p, q) == LET a == PageScore(p, priorities)
                                 b == PageScore(q, priorities)
                             IN  a > b \/ (a = b /\ Place(p.url) < Place(q.url))
             order == {p \in eligible \X eligible : before(p[1], p[2])}
             n == Cardinality(eligible)
             list == Arranged(eligible, order)
  <1>a. eligible \subseteq pages
    OBVIOUS
  <1>1. IsFiniteSet(eligible) /\ n \in Nat
    <2>0. IsFiniteSet(pages)
      BY DEF Rankable
    <2>1. IsFiniteSet(eligible)
      BY <2>0, FS_Subset
    <2> HIDE DEF eligible
    <2> QED
      BY <2>1, FS_CardinalityType
  <1>4. list = RankPages(pages, priorities)
    BY DEF RankPages
  <1>5. \A p, q \in eligible : <<p, q>> \in order <=> PageScore(p, priorities) > PageScore(q, priorities)
                                   \/ (PageScore(p, priorities) = PageScore(q, priorities) /\ Place(p.url) < Place(q.url))
    <2> HIDE DEF eligible
    <2> QED
      OBVIOUS
  <1> HIDE DEF eligible, order
  <1>2. \A p \in eligible : PageScore(p, priorities) \in Int /\ Place(p.url) \in Nat
    <2> SUFFICES ASSUME NEW p \in eligible PROVE PageScore(p, priorities) \in Int /\ Place(p.url) \in Nat
      OBVIOUS
    <2>1. p.url \in Range(UrlOrder) /\ p.depth \in Nat /\ p.matches \in Nat
      BY <1>a DEF Rankable
    <2> QED
      BY <2>1, ScoreIsANumber, PlaceIsItsOwn
  <1>3. \A p, q \in eligible : Place(p.url) = Place(q.url) => p = q
    <2> SUFFICES ASSUME NEW p \in eligible, NEW q \in eligible, Place(p.url) = Place(q.url) PROVE p = q
      OBVIOUS
    <2>1. p.url \in Range(UrlOrder) /\ q.url \in Range(UrlOrder)
      BY <1>a DEF Rankable
    <2>2. p.url = q.url
      BY <2>1, PlaceIsItsOwn
    <2> QED
      BY <1>a, <2>2 DEF Rankable
  <1>6. TotalOn(order, eligible)
    BY <1>2, <1>3, <1>5 DEF TotalOn
  <1>7. Lists(list, eligible, order)
    BY <1>1, <1>6, ArrangedLists
  <1> HIDE DEF list, n
  <1>9. list \in Seq(pages) /\ Len(list) = n
    <2>1. list \in [1..n -> pages]
      BY <1>7, <1>a DEF Lists, n
    <2> QED
      BY <1>1, <2>1
  <1>10. \A i, j \in 1..n : list[i] = list[j] => i = j
    BY <1>7 DEF Lists, n
  <1> QED
    BY <1>4, <1>9, <1>10 DEF SomePages

\* The types that the pages of a ranking have, the home page's first.
AllTypes == <<"home">> \o CoverageOrder
TypesOf(ranked) == Picked(AllTypes, {n \in DOMAIN AllTypes : \E i \in DOMAIN ranked : ranked[i].type = AllTypes[n]})
TypesWanted(types, ranked) ==
    /\ Len(types) \in Nat /\ DOMAIN types = 1..Len(types)
    /\ \A m, n \in 1..Len(types) : types[m] = types[n] => m = n
    /\ \A n \in 1..Len(types) : types[n] \in {"home"} \cup Range(CoverageOrder) /\ \E i \in DOMAIN ranked : ranked[i].type = types[n]
    /\ \A i \in DOMAIN ranked : ranked[i].type \in {"home"} \cup Range(CoverageOrder) => \E n \in 1..Len(types) : types[n] = ranked[i].type
    /\ (\E i \in DOMAIN ranked : ranked[i].type = "home") => Len(types) >= 1 /\ types[1] = "home"

\* All the types, one after the other.
LEMMA AllTypesAreSo ==
    /\ AllTypes \in Seq({"home"} \cup Range(CoverageOrder)) /\ Len(AllTypes) = 13 /\ DOMAIN AllTypes = 1..13
    /\ AllTypes[1] = "home" /\ \A n \in 2..13 : AllTypes[n] = CoverageOrder[n - 1]
    /\ \A m, n \in 1..13 : AllTypes[m] = AllTypes[n] => m = n
  <1> DEFINE home == <<"home">>
             T == {"home"} \cup Range(CoverageOrder)
             all == home \o CoverageOrder
  <1>1. /\ CoverageOrder \in Seq(T) /\ Len(CoverageOrder) = 12
        /\ \A n \in 1..12 : CoverageOrder[n] # "home"
        /\ \A m, n \in 1..12 : CoverageOrder[m] = CoverageOrder[n] => m = n
    BY CoverageOrderIsSo
  <1>2. home \in Seq(T) /\ Len(home) = 1 /\ home[1] = "home"
    BY ListOfOne
  <1>3. all = AllTypes
    BY DEF AllTypes
  <1> HIDE DEF home, T
  <1>4. JoinedIsSo(home, CoverageOrder, T)
    BY <1>1, <1>2, JoinedLists
  <1>5. all \in Seq(T) /\ Len(all) = Len(home) + Len(CoverageOrder)
    BY <1>4 DEF JoinedIsSo
  <1>6. \A n \in 1..(Len(home) + Len(CoverageOrder)) :
          all[n] = IF n <= Len(home) THEN home[n] ELSE CoverageOrder[n - Len(home)]
    BY <1>4 DEF JoinedIsSo
  <1> HIDE DEF all
  <1>7. Len(all) = 13 /\ DOMAIN all = 1..13
    BY <1>1, <1>2, <1>5
  <1>8. ASSUME NEW n \in 1..13 PROVE all[n] = IF n = 1 THEN "home" ELSE CoverageOrder[n - 1]
    <2>1. all[n] = IF n <= 1 THEN home[n] ELSE CoverageOrder[n - 1]
      BY <1>1, <1>2, <1>6
    <2> QED
      BY <1>2, <2>1
  <1>9. ASSUME NEW m \in 1..13, NEW n \in 1..13, all[m] = all[n] PROVE m = n
    <2>1. CASE m = 1 /\ n # 1
      <3>1. n - 1 \in 1..12 /\ all[n] = CoverageOrder[n - 1]
        BY <1>8, <2>1
      <3> QED
        BY <1>1, <1>8, <1>9, <2>1, <3>1
    <2>2. CASE m # 1 /\ n = 1
      <3>1. m - 1 \in 1..12 /\ all[m] = CoverageOrder[m - 1]
        BY <1>8, <2>2
      <3> QED
        BY <1>1, <1>8, <1>9, <2>2, <3>1
    <2>3. CASE m # 1 /\ n # 1
      <3>1. m - 1 \in 1..12 /\ n - 1 \in 1..12 /\ CoverageOrder[m - 1] = CoverageOrder[n - 1]
        <4>1. all[m] = CoverageOrder[m - 1] /\ all[n] = CoverageOrder[n - 1]
          BY <1>8, <2>3
        <4>2. m - 1 \in 1..12 /\ n - 1 \in 1..12
          BY <2>3
        <4> QED
          BY <1>9, <4>1, <4>2
      <3>2. m - 1 = n - 1
        BY <1>1, <3>1
      <3> QED
        BY <3>2
    <2> QED
      BY <2>1, <2>2, <2>3
  <1>10. all[1] = "home" /\ \A n \in 2..13 : all[n] = CoverageOrder[n - 1]
    BY <1>8
  <1> QED
    BY <1>3, <1>5, <1>7, <1>9, <1>10 DEF T

\* Each type that is to be covered and has a page is among them once, the home page's first.
LEMMA TypesAreWanted ==
    ASSUME NEW pages, NEW ranked, SomePages(ranked, pages)
    PROVE  TypesWanted(TypesOf(ranked), ranked)
  <1> DEFINE at == {n \in DOMAIN AllTypes : \E i \in DOMAIN ranked : ranked[i].type = AllTypes[n]}
             T == {"home"} \cup Range(CoverageOrder)
             types == Picked(AllTypes, at)
             k == Cardinality(at)
  <1>1. /\ AllTypes \in Seq(T) /\ Len(AllTypes) = 13 /\ DOMAIN AllTypes = 1..13
        /\ AllTypes[1] = "home"
        /\ \A n \in 2..13 : AllTypes[n] = CoverageOrder[n - 1]
        /\ \A m, n \in 1..13 : AllTypes[m] = AllTypes[n] => m = n
    BY AllTypesAreSo
  <1>2. types = TypesOf(ranked)
    BY DEF TypesOf
  <1>3. /\ at \in SUBSET (1..13)
        /\ \A n \in at : \E i \in DOMAIN ranked : ranked[i].type = AllTypes[n]
        /\ \A n \in 1..13 : (\E i \in DOMAIN ranked : ranked[i].type = AllTypes[n]) => n \in at
    BY <1>1
  <1> HIDE DEF at, T
  <1>a. AllTypes \in Seq(T) /\ at \in SUBSET (1..Len(AllTypes))
    BY <1>1, <1>3 DEF T
  <1>4. types \in Seq(T) /\ Len(types) = k /\ k \in Nat
    BY <1>a, PickedItems
  <1>5. IsInjective(types)
    <2>1. \A m, n \in at : AllTypes[m] = AllTypes[n] => m = n
      BY <1>1, <1>3
    <2> QED
      BY <1>a, <2>1, PickedMembers
  <1>6. /\ \A n \in 1..Len(types) : \E i \in at : types[n] = AllTypes[i]
        /\ \A i \in at : \E n \in 1..Len(types) : types[n] = AllTypes[i]
    BY <1>a, PickedMembers
  <1>7. PICK from : PickedFrom(AllTypes, at, from)
    BY <1>a, PickedHasOrder
  <1>8. /\ from \in [1..k -> at]
        /\ \A n \in 1..k : types[n] = AllTypes[from[n]]
        /\ \A i \in at : \E n \in 1..k : from[n] = i
        /\ \A m, n \in 1..k : m < n => from[m] < from[n]
    BY <1>7 DEF PickedFrom
  <1> HIDE DEF types, k
  <1>9. DOMAIN types = 1..Len(types) /\ \A m, n \in 1..Len(types) : types[m] = types[n] => m = n
    BY <1>4, <1>5 DEF IsInjective
  <1>10. ASSUME NEW n \in 1..Len(types) PROVE types[n] \in T /\ \E i \in DOMAIN ranked : ranked[i].type = types[n]
    <2>1. types[n] \in T
      BY <1>4
    <2>2. PICK i \in at : types[n] = AllTypes[i]
      BY <1>6
    <2> QED
      BY <1>3, <2>1, <2>2
  <1>11. ASSUME NEW i \in DOMAIN ranked, ranked[i].type \in T PROVE \E n \in 1..Len(types) : types[n] = ranked[i].type
    <2>1. PICK m \in 1..13 : AllTypes[m] = ranked[i].type
      <3>1. CASE ranked[i].type = "home"
        <4>1. 1 \in 1..13
          OBVIOUS
        <4> QED
          BY <1>1, <3>1, <4>1
      <3>2. CASE ranked[i].type \in Range(CoverageOrder)
        <4>1. DOMAIN CoverageOrder = 1..12
          BY CoverageOrderIsSo
        <4>2. PICK j \in 1..12 : CoverageOrder[j] = ranked[i].type
          BY <3>2, <4>1 DEF Range
        <4>3. j + 1 \in 2..13 /\ (j + 1) - 1 = j /\ j + 1 \in 1..13
          OBVIOUS
        <4>4. AllTypes[j + 1] = CoverageOrder[(j + 1) - 1]
          BY <1>1, <4>3
        <4> QED
          BY <4>2, <4>3, <4>4
      <3> QED
        BY <1>11, <3>1, <3>2 DEF T
    <2>2. m \in at
      BY <1>3, <2>1
    <2> QED
      BY <1>6, <2>1, <2>2
  <1>12. ASSUME \E i \in DOMAIN ranked : ranked[i].type = "home" PROVE Len(types) >= 1 /\ types[1] = "home"
    <2>1. 1 \in at
      <3>1. 1 \in 1..13
        OBVIOUS
      <3> QED
        BY <1>1, <1>3, <1>12, <3>1
    <2>2. PICK n \in 1..k : from[n] = 1
      BY <1>8, <2>1
    <2>3. n = 1
      <3>1. SUFFICES ASSUME 1 < n PROVE FALSE
        BY <1>4
      <3>2. 1 \in 1..k /\ from[1] < from[n]
        BY <1>4, <1>8, <3>1
      <3>3. from[1] \in 1..13
        BY <1>3, <1>8, <3>2
      <3> QED
        BY <2>2, <3>2, <3>3
    <2>4. k >= 1 /\ types[1] = AllTypes[1]
      BY <1>4, <1>8, <2>2, <2>3
    <2> QED
      BY <1>1, <1>4, <2>4
  <1>13. TypesWanted(types, ranked)
    BY <1>4, <1>9, <1>10, <1>11, <1>12 DEF TypesWanted, T
  <1> QED
    BY <1>2, <1>13

\* How many pages of a list have a type.
Number(list, type) == Cardinality({i \in DOMAIN list : list[i].type = type})

\* No list has more pages of a type than it has pages, and a page more is one more of its type.
LEMMA NumberIsSo ==
    ASSUME NEW pages, NEW list \in Seq(pages), NEW type
    PROVE  /\ Number(list, type) \in Nat /\ Number(list, type) <= Len(list)
           /\ \A page \in pages :
                 Number(Append(list, page), type) = Number(list, type) + (IF page.type = type THEN 1 ELSE 0)
  <1> DEFINE at == {i \in DOMAIN list : list[i].type = type}
             k == Len(list)
  <1>1. k \in Nat /\ at \subseteq 1..k /\ DOMAIN list = 1..k
    OBVIOUS
  <1>2. IsFiniteSet(at) /\ Cardinality(at) \in Nat /\ Cardinality(at) <= k
    <2> HIDE DEF at, k
    <2>1. IsFiniteSet(1..k) /\ Cardinality(1..k) = k
      BY <1>1, FS_Interval
    <2>2. IsFiniteSet(at) /\ Cardinality(at) <= Cardinality(1..k)
      BY <1>1, <2>1, FS_Subset
    <2> QED
      BY <2>1, <2>2, FS_CardinalityType
  <1>3. ASSUME NEW page \in pages
        PROVE  Number(Append(list, page), type) = Number(list, type) + (IF page.type = type THEN 1 ELSE 0)
    <2> DEFINE more == Append(list, page)
               there == {i \in DOMAIN more : more[i].type = type}
    <2>1. /\ DOMAIN more = 1..(k + 1) /\ more[k + 1] = page
          /\ \A i \in 1..k : more[i] = list[i]
          /\ \A i \in 1..(k + 1) : i \in 1..k \/ i = k + 1
      OBVIOUS
    <2>2. k + 1 \notin at
      BY <1>1
    <2> HIDE DEF more
    <2>3. there = IF page.type = type THEN at \cup {k + 1} ELSE at
      <3>1. \A i \in 1..k : i \in there <=> i \in at
        BY <1>1, <2>1
      <3>2. k + 1 \in there <=> page.type = type
        BY <1>1, <2>1
      <3>3. there \subseteq 1..(k + 1)
        BY <2>1
      <3>4. k + 1 \notin at /\ at \subseteq 1..k /\ \A i \in 1..(k + 1) : i \in 1..k \/ i = k + 1
        BY <1>1, <2>1, <2>2
      <3> HIDE DEF there, at, k
      <3>5. CASE page.type = type
        BY <3>1, <3>2, <3>3, <3>4, <3>5
      <3>6. CASE page.type # type
        <4>1. there \subseteq 1..k
          BY <3>2, <3>3, <3>4, <3>6
        <4>2. there = at
          BY <3>1, <3>4, <4>1
        <4> QED
          BY <3>6, <4>2
      <3> QED
        BY <3>5, <3>6
    <2>4. Number(more, type) = Cardinality(there)
      BY DEF Number
    <2> HIDE DEF there
    <2>5. CASE page.type = type
      <3>1. there = at \cup {k + 1}
        BY <2>3, <2>5
      <3> HIDE DEF at, k
      <3>2. Cardinality(there) = Cardinality(at) + 1
        BY <1>2, <2>2, <3>1, FS_AddElement
      <3> QED
        BY <2>4, <2>5, <3>2 DEF at, more, Number
    <2>6. CASE page.type # type
      <3>1. there = at
        BY <2>3, <2>6
      <3>2. Number(list, type) = Cardinality(at)
        BY DEF Number
      <3> HIDE DEF at, k
      <3>3. Number(more, type) = Number(list, type)
        BY <2>4, <3>1, <3>2
      <3>4. Number(list, type) \in Nat
        BY <1>2, <3>2
      <3> QED
        BY <2>6, <3>3, <3>4 DEF more
    <2> QED
      BY <2>5, <2>6
  <1> QED
    BY <1>2, <1>3 DEF Number

\* A page for each type as long as there is room: as the types are, so are the pages.
Covered(chosen, n, types, ranked, pages, limit) ==
    /\ SomePages(chosen, pages) /\ Len(chosen) <= n /\ Len(chosen) <= limit
    /\ Len(chosen) = n \/ Len(chosen) = limit
    /\ \A i \in 1..Len(chosen) : chosen[i].type = types[i] /\ chosen[i] \in Range(ranked)

\* A page of one more type (select_key_pages).
LEMMA CoverTypeKeeps ==
    ASSUME NEW pages, NEW ranked, SomePages(ranked, pages), NEW limit \in Nat, NEW types, TypesWanted(types, ranked),
           NEW n \in Nat, n + 1 \in 1..Len(types), NEW chosen, Covered(chosen, n, types, ranked, pages, limit)
    PROVE  Covered(CoverType(chosen, types[n + 1], ranked, limit), n + 1, types, ranked, pages, limit)
  <1> DEFINE type == types[n + 1]
             at == {i \in DOMAIN ranked : ranked[i].type = type}
             first == Min(at)
             page == ranked[first]
             more == Append(chosen, page)
  <1>1. ranked \in Seq(pages) /\ chosen \in Seq(pages) /\ Len(chosen) \in Nat
    BY DEF SomePages, Covered
  <1>2. page \in pages /\ page.type = type /\ page \in Range(ranked)
    <2>1. at \in SUBSET Nat /\ at # {}
      BY <1>1 DEF TypesWanted
    <2>2. first \in at
      <3> HIDE DEF at
      <3> QED
        BY <2>1, MinIn
    <2> HIDE DEF first
    <2>3. first \in 1..Len(ranked) /\ ranked[first].type = type
      BY <1>1, <2>2
    <2> QED
      BY <1>1, <2>3 DEF Range
  <1>3. CoverType(chosen, type, ranked, limit) = IF Len(chosen) >= limit THEN chosen ELSE more
    BY DEF CoverType
  <1> HIDE DEF page
  <1>4. CASE Len(chosen) >= limit
    BY <1>1, <1>3, <1>4 DEF Covered
  <1>5. CASE Len(chosen) < limit
    <2>1. Len(chosen) = n /\ n < limit
      BY <1>1, <1>5 DEF Covered
    <2>2. \A i \in 1..Len(chosen) : chosen[i] # page
      <3> SUFFICES ASSUME NEW i \in 1..Len(chosen), chosen[i] = page PROVE FALSE
        OBVIOUS
      <3>1. types[i] = types[n + 1]
        BY <1>2 DEF Covered
      <3>2. i \in 1..Len(types) /\ i # n + 1
        BY <2>1 DEF TypesWanted
      <3> QED
        BY <3>1, <3>2 DEF TypesWanted
    <2>3. SomePages(more, pages)
      <3>1. SomePages(chosen, pages)
        BY DEF Covered
      <3> QED
        BY <1>2, <2>2, <3>1, AppendedPage
    <2>4. /\ Len(more) = n + 1 /\ more[n + 1] = page
          /\ \A i \in 1..n : more[i] = chosen[i]
          /\ \A i \in 1..Len(more) : i \in 1..n \/ i = n + 1
      BY <1>1, <1>2, <2>1
    <2> HIDE DEF more
    <2>5. ASSUME NEW i \in 1..Len(more) PROVE more[i].type = types[i] /\ more[i] \in Range(ranked)
      BY <1>2, <2>1, <2>4 DEF Covered
    <2>6. Covered(more, n + 1, types, ranked, pages, limit)
      BY <2>1, <2>3, <2>4, <2>5 DEF Covered
    <2>7. CoverType(chosen, type, ranked, limit) = more
      BY <1>1, <1>3, <1>5
    <2> QED
      BY <2>6, <2>7
  <1> QED
    BY <1>1, <1>4, <1>5

\* The types are covered, as many as there is room for.
LEMMA CoverTypesIsSo ==
    ASSUME NEW pages, NEW ranked, SomePages(ranked, pages), NEW limit \in Nat, NEW types, TypesWanted(types, ranked)
    PROVE  Covered(CoverTypes(types, ranked, limit), Len(types), types, ranked, pages, limit)
  <1> DEFINE L == Len(types)
             T == Seq(pages)
  <1>1. L \in Nat /\ DOMAIN types = 1..L
    BY DEF TypesWanted
  <1>2. ASSUME NEW s \in T, NEW n \in 1..L PROVE CoverType(s, types[n], ranked, limit) \in T
    <2> DEFINE at == {i \in DOMAIN ranked : ranked[i].type = types[n]}
               first == Min(at)
    <2>1. ranked \in Seq(pages)
      BY DEF SomePages
    <2>2. at \in SUBSET Nat /\ at # {} /\ at \subseteq 1..Len(ranked)
      <3>1. \E i \in DOMAIN ranked : ranked[i].type = types[n]
        BY DEF TypesWanted
      <3>2. DOMAIN ranked = 1..Len(ranked)
        BY <2>1
      <3> QED
        BY <3>1, <3>2
    <2>3. first \in at
      <3> HIDE DEF at
      <3> QED
        BY <2>2, MinIn
    <2>4. ranked[first] \in pages
      <3> HIDE DEF first, at
      <3> QED
        BY <2>1, <2>2, <2>3
    <2>5. CoverType(s, types[n], ranked, limit) = IF Len(s) >= limit THEN s ELSE Append(s, ranked[first])
      BY DEF CoverType
    <2> HIDE DEF first
    <2> QED
      BY <2>4, <2>5
  <1>3. TypesPath(T, L, types, ranked, limit)
    <2>1. TypesStay(T, L, types, ranked, limit)
      BY <1>2 DEF TypesStay
    <2>2. <<>> \in T
      OBVIOUS
    <2> HIDE DEF T, L
    <2> QED
      BY <1>1, <2>1, <2>2, TypesOneByOne
  <1>4. PICK g \in [0..L -> T] :
          /\ g[0] = <<>> /\ \A n \in 1..L : g[n] = CoverType(g[n - 1], types[n], ranked, limit)
          /\ g[L] = CoverTypes(types, ranked, limit)
    BY <1>3 DEF TypesPath
  <1> DEFINE A == {n \in Nat : n <= L => Covered(g[n], n, types, ranked, pages, limit)}
  <1>5. 0 \in A
    BY <1>4 DEF Covered, SomePages
  <1>6. ASSUME NEW n \in Nat, n \in A PROVE n + 1 \in A
    <2> SUFFICES ASSUME n + 1 <= L PROVE Covered(g[n + 1], n + 1, types, ranked, pages, limit)
      OBVIOUS
    <2>1. n + 1 \in 1..L /\ (n + 1) - 1 = n
      BY <1>1
    <2>2. Covered(g[n], n, types, ranked, pages, limit)
      BY <1>1, <1>6
    <2>3. g[n + 1] = CoverType(g[n], types[n + 1], ranked, limit)
      <3>1. g[n + 1] = CoverType(g[(n + 1) - 1], types[n + 1], ranked, limit)
        BY <1>4, <2>1
      <3> QED
        BY <2>1, <3>1
    <2> QED
      BY <2>1, <2>2, <2>3, CoverTypeKeeps
  <1> HIDE DEF A
  <1>7. L \in A
    BY <1>1, <1>5, <1>6, CountUp
  <1> QED
    BY <1>1, <1>4, <1>7 DEF A

\* The greater of a number and none.
LEMMA MaxOfRest == ASSUME NEW d \in Nat PROVE Max({0, d}) = d
  <1>1. d \in {0, d} /\ \A y \in {0, d} : d >= y
    OBVIOUS
  <1>2. \A x \in {0, d} : (\A y \in {0, d} : x >= y) => x = d
    OBVIOUS
  <1> QED
    BY <1>1, <1>2 DEF Max

\* The share of a type: everything, or a fifth and at least two (_type_limit).
LEMMA CapIsSo ==
    ASSUME NEW type, NEW limit \in Nat
    PROVE  /\ TypeCap(type, limit) \in Nat
           /\ type \notin {"blog_post", "product_detail"} => TypeCap(type, limit) = limit
  <1> DEFINE share == limit \div 5
             s == {2, share}
  <1>1. share \in Nat
    OBVIOUS
  <1> HIDE DEF share
  <1>2. \E x \in s : \A y \in s : x >= y
    BY <1>1
  <1>3. Max(s) \in s
    BY <1>2 DEF Max
  <1>4. Max(s) \in Nat
    BY <1>1, <1>3
  <1>5. TypeCap(type, limit) = IF type \in {"blog_post", "product_detail"} THEN Max(s) ELSE limit
    BY DEF TypeCap, share
  <1> HIDE DEF s
  <1> QED
    BY <1>4, <1>5

\* The room is filled: what was chosen stays, articles and products have their share, and
\* a page that was looked at is in, or there was no room, or its type has its share.
Filled(some, n, chosen, ranked, pages, limit) ==
    /\ SomePages(some, pages) /\ Len(some) <= limit /\ Len(chosen) <= Len(some)
    /\ \A i \in 1..Len(chosen) : some[i] = chosen[i]
    /\ \A i \in 1..Len(some) : some[i] \in Range(ranked)
    /\ \A t \in {"blog_post", "product_detail"} : Number(some, t) <= TypeCap(t, limit)
    /\ \A m \in 1..n : \/ ranked[m] \in Range(some) \/ Len(some) = limit
                       \/ Number(some, ranked[m].type) = TypeCap(ranked[m].type, limit)

\* One more page of the ranking (select_key_pages).
LEMMA FillRoomKeeps ==
    ASSUME NEW pages, NEW ranked, SomePages(ranked, pages), NEW limit \in Nat,
           NEW chosen, SomePages(chosen, pages),
           NEW n \in Nat, n + 1 \in 1..Len(ranked), NEW some, Filled(some, n, chosen, ranked, pages, limit)
    PROVE  Filled(FillRoom(some, ranked[n + 1], limit), n + 1, chosen, ranked, pages, limit)
  <1> DEFINE page == ranked[n + 1]
             cap(t) == TypeCap(t, limit)
             full == Len(some) >= limit \/ page \in Range(some) \/ Number(some, page.type) >= cap(page.type)
             more == Append(some, page)
  <1>1. /\ ranked \in Seq(pages) /\ some \in Seq(pages) /\ Len(some) \in Nat /\ Len(chosen) \in Nat
        /\ page \in pages /\ page \in Range(ranked)
    BY DEF SomePages, Filled, Range
  <1>2. FillRoom(some, page, limit) = IF full THEN some ELSE more
    BY DEF FillRoom, Number
  <1>3. \A t : cap(t) \in Nat /\ (t \notin {"blog_post", "product_detail"} => cap(t) = limit)
    BY CapIsSo
  <1>4. \A t : Number(some, t) \in Nat /\ Number(some, t) <= Len(some)
    BY <1>1, NumberIsSo
  <1>5. \A m \in 1..(n + 1) : m \in 1..n \/ m = n + 1
    OBVIOUS
  <1> HIDE DEF page, cap, more
  <1>6. CASE full
    <2>1. page \in Range(some) \/ Len(some) = limit \/ Number(some, page.type) = cap(page.type)
      <3>1. SUFFICES ASSUME Len(some) < limit, Number(some, page.type) >= cap(page.type)
                     PROVE  Number(some, page.type) = cap(page.type)
        BY <1>1, <1>6 DEF Filled
      <3>2. page.type \in {"blog_post", "product_detail"}
        BY <1>1, <1>3, <1>4, <3>1
      <3>3. Number(some, page.type) <= cap(page.type)
        BY <3>2 DEF Filled, cap
      <3> QED
        BY <1>3, <1>4, <3>1, <3>3
    <2>2. \A m \in 1..(n + 1) : \/ ranked[m] \in Range(some) \/ Len(some) = limit
                                \/ Number(some, ranked[m].type) = cap(ranked[m].type)
      BY <1>5, <2>1 DEF Filled, page, cap
    <2>3. Filled(some, n + 1, chosen, ranked, pages, limit)
      BY <2>2 DEF Filled, cap
    <2> QED
      BY <1>2, <1>6, <2>3 DEF page
  <1>7. CASE ~full
    <2>1. Len(some) < limit /\ page \notin Range(some) /\ Number(some, page.type) < cap(page.type)
      BY <1>1, <1>3, <1>4, <1>7
    <2>2. SomePages(more, pages)
      <3>1. \A i \in 1..Len(some) : some[i] # page
        BY <1>1, <2>1 DEF Range
      <3>2. SomePages(some, pages)
        BY DEF Filled
      <3> QED
        BY <1>1, <3>1, <3>2, AppendedPage DEF more
    <2>3. /\ Len(more) = Len(some) + 1 /\ more[Len(some) + 1] = page
          /\ \A i \in 1..Len(some) : more[i] = some[i]
          /\ \A i \in 1..Len(more) : i \in 1..Len(some) \/ i = Len(some) + 1
          /\ Range(more) = Range(some) \cup {page}
      <3>1. /\ Len(more) = Len(some) + 1 /\ more[Len(some) + 1] = page /\ DOMAIN more = 1..Len(more)
            /\ \A i \in 1..Len(some) : more[i] = some[i]
            /\ \A i \in 1..Len(more) : i \in 1..Len(some) \/ i = Len(some) + 1
        BY <1>1 DEF more
      <3>2. \A i \in 1..Len(some) : i \in 1..Len(more)
        BY <1>1, <3>1
      <3>3. Len(some) + 1 \in 1..Len(more) /\ DOMAIN some = 1..Len(some)
        BY <1>1, <3>1
      <3>4. Range(more) = Range(some) \cup {page}
        BY <3>1, <3>2, <3>3 DEF Range
      <3> QED
        BY <3>1, <3>4
    <2>4. \A t : Number(more, t) = Number(some, t) + (IF page.type = t THEN 1 ELSE 0)
      BY <1>1, NumberIsSo DEF more
    <2>5. Len(more) <= limit /\ Len(chosen) <= Len(more)
      BY <1>1, <2>1, <2>3 DEF Filled
    <2>6. \A i \in 1..Len(chosen) : more[i] = chosen[i]
      BY <1>1, <2>3 DEF Filled
    <2>7. \A i \in 1..Len(more) : more[i] \in Range(ranked)
      BY <1>1, <2>3 DEF Filled
    <2>8. ASSUME NEW t \in {"blog_post", "product_detail"} PROVE Number(more, t) <= cap(t)
      <3>1. Number(some, t) <= cap(t)
        BY DEF Filled, cap
      <3> QED
        BY <1>3, <1>4, <2>1, <2>4, <3>1
    <2>9. ASSUME NEW m \in 1..(n + 1)
          PROVE  \/ ranked[m] \in Range(more) \/ Len(more) = limit
                 \/ Number(more, ranked[m].type) = cap(ranked[m].type)
      <3>1. CASE m = n + 1
        BY <2>3, <3>1 DEF page
      <3>2. CASE m \in 1..n
        <4>1. ranked[m] \in Range(some) \/ Number(some, ranked[m].type) = cap(ranked[m].type)
          BY <1>1, <2>1, <3>2 DEF Filled, cap
        <4>2. CASE ranked[m] \in Range(some)
          BY <2>3, <4>2
        <4>3. CASE Number(some, ranked[m].type) = cap(ranked[m].type)
          <5>1. ranked[m].type # page.type
            BY <1>3, <1>4, <2>1, <4>3
          <5> QED
            BY <1>4, <2>4, <4>3, <5>1
        <4> QED
          BY <4>1, <4>2, <4>3
      <3> QED
        BY <1>5, <3>1, <3>2
    <2>10. Filled(more, n + 1, chosen, ranked, pages, limit)
      BY <2>2, <2>5, <2>6, <2>7, <2>8, <2>9 DEF Filled, cap
    <2> QED
      BY <1>2, <1>7, <2>10 DEF page
  <1> QED
    BY <1>6, <1>7

\* The best of the rest fill the room that is left.
LEMMA FillUpIsSo ==
    ASSUME NEW pages, NEW ranked, SomePages(ranked, pages), NEW limit \in Nat, NEW chosen,
           Filled(chosen, 0, chosen, ranked, pages, limit)
    PROVE  Filled(FillUp(chosen, ranked, limit), Len(ranked), chosen, ranked, pages, limit)
  <1> DEFINE S == Seq(pages)
             L == Len(ranked)
  <1>1. L \in Nat /\ DOMAIN ranked = 1..L /\ \A n \in 1..L : ranked[n] \in pages
    BY DEF SomePages
  <1>2. chosen \in S /\ SomePages(chosen, pages)
    BY DEF Filled, SomePages
  <1>3. ASSUME NEW s \in S, NEW n \in 1..L PROVE FillRoom(s, ranked[n], limit) \in S
    BY <1>1 DEF FillRoom
  <1>4. RoomPath(S, chosen, L, ranked, limit)
    <2>1. RoomStay(S, L, ranked, limit)
      BY <1>3 DEF RoomStay
    <2> HIDE DEF S, L
    <2> QED
      BY <1>1, <1>2, <2>1, RoomOneByOne
  <1>5. PICK g \in [0..L -> S] :
          /\ g[0] = chosen /\ \A n \in 1..L : g[n] = FillRoom(g[n - 1], ranked[n], limit)
          /\ g[L] = FillUp(chosen, ranked, limit)
    BY <1>4 DEF RoomPath
  <1> DEFINE A == {n \in Nat : n <= L => Filled(g[n], n, chosen, ranked, pages, limit)}
  <1>6. 0 \in A
    BY <1>5
  <1>7. ASSUME NEW n \in Nat, n \in A PROVE n + 1 \in A
    <2> SUFFICES ASSUME n + 1 <= L PROVE Filled(g[n + 1], n + 1, chosen, ranked, pages, limit)
      OBVIOUS
    <2>1. n + 1 \in 1..L /\ (n + 1) - 1 = n
      BY <1>1
    <2>2. Filled(g[n], n, chosen, ranked, pages, limit)
      BY <1>1, <1>7
    <2>3. g[n + 1] = FillRoom(g[n], ranked[n + 1], limit)
      <3>1. g[n + 1] = FillRoom(g[(n + 1) - 1], ranked[n + 1], limit)
        BY <1>5, <2>1
      <3> QED
        BY <2>1, <3>1
    <2> QED
      BY <1>2, <2>1, <2>2, <2>3, FillRoomKeeps
  <1> HIDE DEF A
  <1>8. L \in A
    BY <1>1, <1>6, <1>7, CountUp
  <1> QED
    BY <1>1, <1>5, <1>8 DEF A

\* The types first, then the best of the rest (select_key_pages).
LEMMA KeyPagesAreChosen ==
    ASSUME NEW pages, NEW ranked, SomePages(ranked, pages), NEW limit \in Nat
    PROVE  LET types == TypesOf(ranked)
               covered == CoverTypes(types, ranked, limit)
           IN  /\ TypesWanted(types, ranked) /\ Covered(covered, Len(types), types, ranked, pages, limit)
               /\ Filled(KeyPages(ranked, limit), Len(ranked), covered, ranked, pages, limit)
  <1> DEFINE types == TypesOf(ranked)
             covered == CoverTypes(types, ranked, limit)
  <1>1. KeyPages(ranked, limit) = FillUp(covered, ranked, limit)
    BY DEF KeyPages, Filtered, TypesOf, AllTypes
  <1> HIDE DEF types
  <1>2. TypesWanted(types, ranked)
    BY TypesAreWanted DEF types
  <1>3. Covered(covered, Len(types), types, ranked, pages, limit)
    BY <1>2, CoverTypesIsSo
  <1> HIDE DEF covered
  <1>4. Filled(covered, 0, covered, ranked, pages, limit)
    <2>1. covered \in Seq(pages) /\ Len(covered) \in Nat
      BY <1>3 DEF Covered, SomePages
    <2>2. ASSUME NEW t \in {"blog_post", "product_detail"} PROVE Number(covered, t) <= TypeCap(t, limit)
      <3>1. t # "home" /\ t \notin Range(CoverageOrder)
        <4>1. \A n \in 1..12 : CoverageOrder[n] # "blog_post" /\ CoverageOrder[n] # "product_detail"
          BY Z3 DEF CoverageOrder
        <4>2. DOMAIN CoverageOrder = 1..12
          BY CoverageOrderIsSo
        <4>3. \A type \in Range(CoverageOrder) : type # "blog_post" /\ type # "product_detail"
          BY <4>1, <4>2 DEF Range
        <4> QED
          BY <4>3
      <3>2. \A i \in 1..Len(covered) : covered[i].type # t
        <4> SUFFICES ASSUME NEW i \in 1..Len(covered) PROVE covered[i].type # t
          OBVIOUS
        <4>1. covered[i].type = types[i] /\ i \in 1..Len(types)
          BY <1>3, <2>1 DEF Covered, TypesWanted
        <4> QED
          BY <1>2, <3>1, <4>1 DEF TypesWanted
      <3>3. {i \in DOMAIN covered : covered[i].type = t} = {}
        BY <2>1, <3>2
      <3>4. Number(covered, t) = 0
        BY <3>3, FS_EmptySet DEF Number
      <3>5. TypeCap(t, limit) \in Nat
        BY CapIsSo
      <3> QED
        BY <3>4, <3>5
    <2>3. SomePages(covered, pages) /\ Len(covered) <= limit /\ \A i \in 1..Len(covered) : covered[i] \in Range(ranked)
      BY <1>3 DEF Covered
    <2>4. \A m \in 1..0 : FALSE
      OBVIOUS
    <2> QED
      BY <2>1, <2>2, <2>3, <2>4 DEF Filled
  <1>5. Filled(KeyPages(ranked, limit), Len(ranked), covered, ranked, pages, limit)
    BY <1>1, <1>4, FillUpIsSo
  <1> QED
    BY <1>2, <1>3, <1>5 DEF types, covered

\* The key pages are pages of the ranking, each once.
LEMMA KeyPagesAreSo ==
    ASSUME NEW pages, NEW ranked, SomePages(ranked, pages), NEW limit \in Nat
    PROVE  SomePages(KeyPages(ranked, limit), pages)
  BY KeyPagesAreChosen DEF Filled

\* Whatever pages a site has and however many may be kept, the home page is first, a type
\* gives up no place to a second page of another one, articles and products stay within
\* their share, and no room is left that a page could have (select_key_pages).
THEOREM SelectionStaysBalanced ==
    ASSUME NEW pages, Rankable(pages), NEW limit \in Nat, NEW priorities, Counted(priorities)
    PROVE  SelectionIsBalanced(pages, limit, priorities)
  <1> DEFINE ranked == RankPages(pages, priorities)
             chosen == SelectKeyPages(pages, limit, priorities)
             types == TypesOf(ranked)
             covered == CoverTypes(types, ranked, limit)
             has == {p.type : p \in Range(chosen)}
  <1>1. SomePages(ranked, pages)
    BY RankingIsSo
  <1>2. chosen = KeyPages(ranked, limit)
    BY DEF SelectKeyPages
  <1> HIDE DEF ranked, chosen
  <1>3. /\ TypesWanted(types, ranked) /\ Covered(covered, Len(types), types, ranked, pages, limit)
        /\ Filled(chosen, Len(ranked), covered, ranked, pages, limit)
    BY <1>1, <1>2, KeyPagesAreChosen
  <1> HIDE DEF types, covered
  <1>4. /\ SomePages(chosen, pages) /\ Len(chosen) <= limit /\ Len(covered) <= Len(chosen)
        /\ \A i \in 1..Len(covered) : chosen[i] = covered[i]
        /\ \A i \in 1..Len(chosen) : chosen[i] \in Range(ranked)
    BY <1>3 DEF Filled
  <1>5. /\ chosen \in Seq(pages) /\ Len(chosen) \in Nat /\ Len(covered) \in Nat /\ DOMAIN chosen = 1..Len(chosen)
        /\ ranked \in Seq(pages) /\ DOMAIN ranked = 1..Len(ranked) /\ Len(types) \in Nat
    BY <1>1, <1>3, <1>4 DEF SomePages, Covered, TypesWanted
  <1>6. IsInjective(chosen) /\ Range(chosen) \subseteq Range(ranked)
    BY <1>4, <1>5 DEF SomePages, IsInjective, Range
  <1>7. ASSUME NEW p \in Range(ranked), p.type = "home", limit > 0 PROVE chosen[1].type = "home"
    <2>1. \E i \in DOMAIN ranked : ranked[i].type = "home"
      BY <1>7 DEF Range
    <2>2. Len(types) >= 1 /\ types[1] = "home"
      BY <1>3, <2>1 DEF TypesWanted
    <2>3. Len(covered) = Len(types) \/ Len(covered) = limit
      BY <1>3 DEF Covered
    <2>4. 1 \in 1..Len(covered)
      BY <1>5, <1>7, <2>2, <2>3
    <2> QED
      BY <1>3, <1>4, <2>2, <2>4 DEF Covered
  <1>8. ASSUME NEW p \in Range(ranked), p.type \in Range(CoverageOrder), p.type \notin has
        PROVE  Len(chosen) = limit /\ \A t \in has : Number(chosen, t) = 1
    <2>1. PICK n \in 1..Len(types) : types[n] = p.type
      <3>1. \E i \in DOMAIN ranked : ranked[i] = p
        BY DEF Range
      <3> QED
        BY <1>3, <1>8, <3>1 DEF TypesWanted
    <2>2. n \notin 1..Len(covered)
      <3> SUFFICES ASSUME n \in 1..Len(covered) PROVE FALSE
        OBVIOUS
      <3>1. chosen[n].type = types[n]
        BY <1>3, <1>4 DEF Covered
      <3>2. chosen[n] \in Range(chosen)
        BY <1>4, <1>5 DEF Range
      <3> QED
        BY <1>8, <2>1, <3>1, <3>2
    <2>3. Len(covered) = limit
      <3>1. Len(covered) = Len(types) \/ Len(covered) = limit
        BY <1>3 DEF Covered
      <3>2. n \in 1..Len(types)
        OBVIOUS
      <3> QED
        BY <1>5, <2>2, <3>1, <3>2
    <2>4. Len(chosen) = limit
      <3>1. Len(chosen) <= limit /\ Len(covered) <= Len(chosen)
        BY <1>4
      <3>2. Len(chosen) \in Nat
        BY <1>5
      <3> HIDE DEF chosen, covered
      <3> QED
        BY <2>3, <3>1, <3>2
    <2>5. ASSUME NEW t \in has PROVE Number(chosen, t) = 1
      <3> DEFINE at == {i \in DOMAIN chosen : chosen[i].type = t}
      <3>1. PICK i \in 1..Len(chosen) : chosen[i].type = t
        BY <1>5 DEF Range
      <3>2. at = {i}
        <4>1. ASSUME NEW j \in 1..Len(chosen), chosen[j].type = t PROVE j = i
          <5>1. i \in 1..Len(covered) /\ j \in 1..Len(covered)
            BY <2>3, <2>4
          <5>2. types[i] = types[j]
            BY <1>3, <1>4, <3>1, <4>1, <5>1 DEF Covered
          <5>3. i \in 1..Len(types) /\ j \in 1..Len(types)
            BY <1>3, <1>5, <5>1 DEF Covered
          <5> QED
            BY <1>3, <5>2, <5>3 DEF TypesWanted
        <4> QED
          BY <1>5, <3>1, <4>1
      <3> HIDE DEF at
      <3>3. Cardinality(at) = 1
        BY <3>2, FS_Singleton
      <3> QED
        BY <3>3 DEF Number, at
    <2> QED
      BY <2>4, <2>5
  <1>9. \A t \in {"blog_post", "product_detail"} : Number(chosen, t) <= TypeCap(t, limit)
    BY <1>3 DEF Filled
  <1>10. ASSUME NEW p \in Range(ranked) \ Range(chosen)
         PROVE  Len(chosen) = limit \/ Number(chosen, p.type) = TypeCap(p.type, limit)
    <2>1. PICK m \in 1..Len(ranked) : ranked[m] = p
      BY <1>5 DEF Range
    <2> QED
      BY <1>3, <2>1 DEF Filled
  <1> HIDE DEF has
  <1>11. SelectionIsBalanced(pages, limit, priorities)
    <2> DEFINE all == Range(ranked)
               balanced(some, rest) ==
                   LET kinds == {p.type : p \in Range(some)}
                   IN  /\ IsInjective(some) /\ Range(some) \subseteq rest /\ Len(some) <= limit
                       /\ (\E p \in rest : p.type = "home") /\ limit > 0 => some[1].type = "home"
                       /\ \A p \in rest : p.type \in Range(CoverageOrder) /\ p.type \notin kinds =>
                             Len(some) = limit /\ \A t \in kinds : Number(some, t) = 1
                       /\ \A t \in {"blog_post", "product_detail"} : Number(some, t) <= TypeCap(t, limit)
                       /\ \A p \in rest \ Range(some) : Len(some) = limit \/ Number(some, p.type) = TypeCap(p.type, limit)
    <2>0. (\E p \in all : p.type = "home") /\ limit > 0 => chosen[1].type = "home"
      BY <1>7
    <2>1. /\ IsInjective(chosen) /\ Range(chosen) \subseteq all /\ Len(chosen) <= limit
          /\ (\E p \in all : p.type = "home") /\ limit > 0 => chosen[1].type = "home"
          /\ \A p \in all : p.type \in Range(CoverageOrder) /\ p.type \notin has =>
                Len(chosen) = limit /\ \A t \in has : Number(chosen, t) = 1
          /\ \A t \in {"blog_post", "product_detail"} : Number(chosen, t) <= TypeCap(t, limit)
          /\ \A p \in all \ Range(chosen) : Len(chosen) = limit \/ Number(chosen, p.type) = TypeCap(p.type, limit)
      BY <1>4, <1>6, <1>8, <1>9, <1>10, <2>0
    <2> HIDE DEF all
    <2>2. SelectionIsBalanced(pages, limit, priorities) <=>
              \A some \in {chosen}, rest \in {Range(ranked)} : balanced(some, rest)
      BY DEF SelectionIsBalanced, Number, chosen, ranked
    <2>3. balanced(chosen, Range(ranked))
      BY <2>1 DEF has, all
    <2> HIDE DEF balanced
    <2> QED
      BY <2>2, <2>3
  <1> QED
    BY <1>11

-----------------------------------------------------------------------------
(* Sitemaps.                                                                 *)

\* The addresses of a list of links are each there once.
LEMMA EachOnceIsSo ==
    ASSUME NEW U, NEW L \in Nat, NEW urls, DOMAIN urls = 1..L, \A n \in 1..L : urls[n] \in U \cup {NoUrl}
    PROVE  EachOnce(urls) \in Seq(U) /\ IsInjective(EachOnce(urls))
  <1> DEFINE S == {s \in Seq(U) : IsInjective(s)}
  <1>1. <<>> \in S
    BY DEF IsInjective
  <1>2. ASSUME NEW s \in S, NEW n \in 1..L PROVE AddAddress(s, urls[n]) \in S
    <2>1. CASE urls[n] = NoUrl \/ urls[n] \in Range(s)
      BY <2>1 DEF AddAddress
    <2>2. CASE ~(urls[n] = NoUrl \/ urls[n] \in Range(s))
      <3> DEFINE r == Append(s, urls[n])
      <3>1. r \in Seq(U) /\ Len(r) = Len(s) + 1 /\ s \in Seq(U)
        BY <2>2
      <3>2. ASSUME NEW i \in 1..Len(r), NEW j \in 1..Len(r), r[i] = r[j] PROVE i = j
        <4>1. \A k \in 1..Len(s) : s[k] # urls[n]
          BY <2>2, <3>1 DEF Range
        <4>2. \A k \in 1..Len(s) : r[k] = s[k]
          BY <3>1
        <4>3. r[Len(s) + 1] = urls[n]
          BY <3>1
        <4>4. \A k \in 1..Len(r) : k \in 1..Len(s) \/ k = Len(s) + 1
          BY <3>1
        <4>5. \A k, l \in 1..Len(s) : s[k] = s[l] => k = l
          BY <3>1 DEF IsInjective
        <4> HIDE DEF r
        <4> QED
          BY <3>2, <4>1, <4>2, <4>3, <4>4, <4>5
      <3>3. IsInjective(r)
        BY <3>1, <3>2 DEF IsInjective
      <3> QED
        BY <2>2, <3>1, <3>3 DEF AddAddress
    <2> QED
      BY <2>1, <2>2
  <1>3. EachOnce(urls) \in S
    <2>1. AddressesStay(S, L, urls)
      BY <1>2 DEF AddressesStay
    <2> HIDE DEF S
    <2>2. AddressesPath(S, L, urls)
      BY <1>1, <2>1, AddressesOneByOne
    <2> QED
      BY <2>2 DEF AddressesPath
  <1> QED
    BY <1>3

\* The sitemap files of a site: a finite number, that name each other and pages.
SitemapFiles(files, links) ==
    /\ IsFiniteSet(DOMAIN files)
    /\ \A u \in DOMAIN files : files[u].locs \in Seq(links)
    /\ \A u \in DOMAIN files : files[u].kind = "index" =>
           \A i \in DOMAIN files[u].locs : ResourceUrl(files[u].locs[i]) \in DOMAIN files \cup {NoUrl}
PageUrls(links) == {Canonicalize(link) : link \in links}

\* What a file names is a list, each address there once (_parse_sitemap).
LEMMA ParsedIsSo ==
    ASSUME NEW files, NEW links, SitemapFiles(files, links), NEW u \in DOMAIN files
    PROVE  LET parsed == ParseSitemap(files[u])
           IN  /\ parsed.pages \in Seq(PageUrls(links))
               /\ parsed.children \in Seq(DOMAIN files) /\ IsInjective(parsed.children)
  <1> DEFINE locs == files[u].locs
             pages == [i \in DOMAIN locs |-> Canonicalize(locs[i])]
             names == [i \in DOMAIN locs |-> ResourceUrl(locs[i])]
             F == DOMAIN files
             U == PageUrls(links)
  <1>1. locs \in Seq(links) /\ Len(locs) \in Nat /\ DOMAIN locs = 1..Len(locs)
    BY DEF SitemapFiles
  <1>2. Addresses(locs, TRUE) = EachOnce(pages) /\ Addresses(locs, FALSE) = EachOnce(names)
    BY DEF Addresses
  <1>3. \A n \in 1..Len(locs) : pages[n] \in U \cup {NoUrl}
    BY <1>1 DEF PageUrls
  <1>4. files[u].kind = "index" => \A n \in 1..Len(locs) : names[n] \in F \cup {NoUrl}
    BY <1>1 DEF SitemapFiles
  <1>5. DOMAIN pages = 1..Len(locs) /\ DOMAIN names = 1..Len(locs)
    BY <1>1
  <1>6. /\ ParseSitemap(files[u]).pages = IF files[u].kind = "urlset" THEN EachOnce(pages) ELSE <<>>
        /\ ParseSitemap(files[u]).children = IF files[u].kind = "index" THEN EachOnce(names) ELSE <<>>
    BY <1>2 DEF ParseSitemap
  <1> HIDE DEF pages, names, locs, F, U
  <1>7. EachOnce(pages) \in Seq(U)
    BY <1>1, <1>3, <1>5, EachOnceIsSo
  <1>8. files[u].kind = "index" => EachOnce(names) \in Seq(F) /\ IsInjective(EachOnce(names))
    BY <1>1, <1>4, <1>5, EachOnceIsSo
  <1>9. <<>> \in Seq(U) /\ <<>> \in Seq(F) /\ IsInjective(<<>>)
    BY DEF IsInjective
  <1> QED
    BY <1>6, <1>7, <1>8, <1>9 DEF F, U

\* Pages are taken while there is room: none twice, none that is not allowed, and if room
\* is left all that are allowed.
Taken(some, before, named, robots, U) ==
    /\ some \in Seq(U) /\ IsInjective(some) /\ Len(some) <= SitemapPages
    /\ Len(before) <= Len(some) /\ Range(before) \subseteq Range(some)
    /\ Range(some) \subseteq Range(before) \cup (named \ robots.disallowed)
    /\ Len(some) < SitemapPages => named \ robots.disallowed \subseteq Range(some)

\* One more page (discover_sitemap_urls).
LEMMA TakePageKeeps ==
    ASSUME NEW U, NEW before, Len(before) \in Nat, NEW robots, NEW some, NEW named, NEW url \in U, Taken(some, before, named, robots, U)
    PROVE  Taken(TakePage(some, url, robots), before, named \cup {url}, robots, U)
  <1> DEFINE more == Append(some, url)
  <1>1. some \in Seq(U) /\ Len(some) \in Nat /\ SitemapPages \in Nat
    BY SiteInventoryAssumption DEF Taken
  <1>2. CASE Len(some) >= SitemapPages
    BY <1>1, <1>2 DEF Taken, TakePage
  <1>3. CASE Len(some) < SitemapPages /\ url \in Range(some) \cup robots.disallowed
    BY <1>1, <1>3 DEF Taken, TakePage
  <1>4. CASE Len(some) < SitemapPages /\ url \notin Range(some) \cup robots.disallowed
    <2>1. /\ more \in Seq(U) /\ Len(more) = Len(some) + 1 /\ more[Len(some) + 1] = url /\ DOMAIN more = 1..Len(more)
          /\ DOMAIN some = 1..Len(some)
          /\ \A i \in 1..Len(some) : more[i] = some[i] /\ i \in 1..Len(more)
          /\ \A i \in 1..Len(more) : i \in 1..Len(some) \/ i = Len(some) + 1
      BY <1>1
    <2>2. TakePage(some, url, robots) = more
      BY <1>1, <1>4 DEF TakePage
    <2> HIDE DEF more
    <2>3. Range(more) = Range(some) \cup {url}
      <3>1. Len(some) + 1 \in 1..Len(more)
        BY <1>1, <2>1
      <3> QED
        BY <2>1, <3>1 DEF Range
    <2>4. IsInjective(more)
      <3>1. \A i \in 1..Len(some) : some[i] # url
        BY <1>4, <2>1 DEF Range
      <3>2. \A i, j \in 1..Len(some) : some[i] = some[j] => i = j
        BY <2>1 DEF Taken, IsInjective
      <3> QED
        BY <2>1, <3>1, <3>2 DEF IsInjective
    <2>5. Taken(more, before, named \cup {url}, robots, U)
      BY <1>1, <1>4, <2>1, <2>3, <2>4 DEF Taken
    <2> QED
      BY <2>2, <2>5
  <1> QED
    BY <1>1, <1>2, <1>3, <1>4

\* The pages of a file are taken.
LEMMA TakenIsSo ==
    ASSUME NEW U, NEW before \in Seq(U), IsInjective(before), Len(before) <= SitemapPages,
           NEW pages \in Seq(U), NEW robots
    PROVE  Taken(TakePages(before, pages, robots), before, Range(pages), robots, U)
  <1> DEFINE L == Len(pages)
             S == Seq(U)
             Part(n) == {pages[m] : m \in 1..n}
  <1>1. L \in Nat /\ DOMAIN pages = 1..L /\ \A n \in 1..L : pages[n] \in U
    OBVIOUS
  <1>2. TakingStay(S, L, pages, robots)
    BY <1>1 DEF TakingStay, TakePage
  <1>3. TakingPath(S, before, L, pages, robots)
    <2> HIDE DEF S, L
    <2>1. before \in S
      BY DEF S
    <2> QED
      BY <1>1, <1>2, <2>1, TakingOneByOne
  <1>4. PICK g \in [0..L -> S] :
          /\ g[0] = before /\ \A n \in 1..L : g[n] = TakePage(g[n - 1], pages[n], robots)
          /\ g[L] = TakePages(before, pages, robots)
    BY <1>3 DEF TakingPath
  <1> DEFINE A == {n \in Nat : n <= L => Taken(g[n], before, Part(n), robots, U)}
  <1>5. 0 \in A
    <2>1. Part(0) = {}
      OBVIOUS
    <2> QED
      BY <1>4, <2>1 DEF Taken
  <1>6. ASSUME NEW n \in Nat, n \in A PROVE n + 1 \in A
    <2> SUFFICES ASSUME n + 1 <= L PROVE Taken(g[n + 1], before, Part(n + 1), robots, U)
      OBVIOUS
    <2>1. n + 1 \in 1..L /\ (n + 1) - 1 = n
      BY <1>1
    <2>2. Taken(g[n], before, Part(n), robots, U)
      BY <1>1, <1>6
    <2>3. g[n + 1] = TakePage(g[n], pages[n + 1], robots)
      <3>1. g[n + 1] = TakePage(g[(n + 1) - 1], pages[n + 1], robots)
        BY <1>4, <2>1
      <3> QED
        BY <2>1, <3>1
    <2>4. Part(n + 1) = Part(n) \cup {pages[n + 1]}
      <3>1. \A m \in 1..(n + 1) : m \in 1..n \/ m = n + 1
        OBVIOUS
      <3>2. n + 1 \in 1..(n + 1) /\ 1..n \subseteq 1..(n + 1)
        OBVIOUS
      <3> QED
        BY <3>1, <3>2
    <2>5. pages[n + 1] \in U /\ Len(before) \in Nat
      BY <1>1, <2>1
    <2> HIDE DEF Part
    <2> QED
      BY <2>2, <2>3, <2>4, <2>5, TakePageKeeps
  <1> HIDE DEF A
  <1>7. L \in A
    BY <1>1, <1>5, <1>6, CountUp
  <1>8. Part(L) = Range(pages)
    BY <1>1 DEF Range
  <1> HIDE DEF Part
  <1> QED
    BY <1>1, <1>4, <1>7, <1>8 DEF A

\* The addresses that wait, and what a file adds to them: all it names that were not read
\* and do not wait, each once, one level deeper.
QueueUrls(queue) == {queue[i].url : i \in 1..Len(queue)}
Entries(F) == [url : F, depth : Nat]
Added(new, named, entry, st, F) ==
    /\ new \in Seq(Entries(F))
    /\ \A i \in 1..Len(new) : new[i].depth = entry.depth + 1
    /\ \A i, j \in 1..Len(new) : new[i].url = new[j].url => i = j
    /\ QueueUrls(new) = named \ (st.visited \cup {entry.url} \cup QueueUrls(st.queue))

\* An entry more at the end of the queue.
LEMMA EntryIsAppended ==
    ASSUME NEW F, NEW queue \in Seq(Entries(F)), NEW entry \in Entries(F)
    PROVE  LET more == Append(queue, entry)
           IN  /\ more \in Seq(Entries(F)) /\ Len(more) = Len(queue) + 1 /\ more[Len(queue) + 1] = entry
               /\ \A i \in 1..Len(queue) : more[i] = queue[i]
               /\ \A i \in 1..Len(more) : i \in 1..Len(queue) \/ i = Len(queue) + 1
               /\ QueueUrls(more) = QueueUrls(queue) \cup {entry.url}
  <1> DEFINE more == Append(queue, entry)
  <1>1. /\ more \in Seq(Entries(F)) /\ Len(more) = Len(queue) + 1 /\ more[Len(queue) + 1] = entry
        /\ \A i \in 1..Len(queue) : more[i] = queue[i] /\ i \in 1..Len(more)
        /\ \A i \in 1..Len(more) : i \in 1..Len(queue) \/ i = Len(queue) + 1
        /\ Len(queue) + 1 \in 1..Len(more)
    OBVIOUS
  <1> HIDE DEF more
  <1>2. QueueUrls(more) = QueueUrls(queue) \cup {entry.url}
    BY <1>1 DEF QueueUrls
  <1> QED
    BY <1>1, <1>2 DEF more

\* One more sitemap that a file names.
LEMMA NewSitemapKeeps ==
    ASSUME NEW F, NEW entry \in Entries(F), NEW st, NEW named, NEW url \in F, url \notin named,
           NEW new, Added(new, named, entry, st, F)
    PROVE  Added(NewSitemap(new, url, entry, st), named \cup {url}, entry, st, F)
  <1> DEFINE known == st.visited \cup {entry.url} \cup QueueUrls(st.queue)
             one == [url |-> url, depth |-> entry.depth + 1]
             more == Append(new, one)
  <1>1. NewSitemap(new, url, entry, st) = IF url \in known THEN new ELSE more
    BY DEF NewSitemap, QueueUrls
  <1>2. /\ new \in Seq(Entries(F)) /\ QueueUrls(new) = named \ known
        /\ \A i \in 1..Len(new) : new[i].depth = entry.depth + 1
        /\ \A i, j \in 1..Len(new) : new[i].url = new[j].url => i = j
    BY DEF Added
  <1>3. one \in Entries(F) /\ one.url = url /\ one.depth = entry.depth + 1
    BY DEF Entries
  <1>4. /\ more \in Seq(Entries(F)) /\ Len(more) = Len(new) + 1 /\ more[Len(new) + 1] = one
        /\ \A i \in 1..Len(new) : more[i] = new[i]
        /\ \A i \in 1..Len(more) : i \in 1..Len(new) \/ i = Len(new) + 1
        /\ QueueUrls(more) = QueueUrls(new) \cup {one.url}
    <2> HIDE DEF one
    <2> QED
      BY <1>2, <1>3, EntryIsAppended
  <1>5. \A i \in 1..Len(new) : new[i].url # url
    BY <1>2 DEF QueueUrls
  <1> HIDE DEF known, one, more
  <1>6. CASE url \in known
    <2>1. (named \cup {url}) \ known = named \ known
      BY <1>6
    <2>2. Added(new, named \cup {url}, entry, st, F)
      BY <1>2, <2>1 DEF Added, known
    <2> QED
      BY <1>1, <1>6, <2>2
  <1>7. CASE url \notin known
    <2>1. (named \cup {url}) \ known = (named \ known) \cup {url}
      BY <1>7
    <2>2. QueueUrls(more) = (named \cup {url}) \ known
      BY <1>2, <1>3, <1>4, <2>1
    <2>3. \A i \in 1..Len(more) : more[i].depth = entry.depth + 1
      BY <1>2, <1>3, <1>4
    <2>4. \A i, j \in 1..Len(more) : more[i].url = more[j].url => i = j
      BY <1>2, <1>3, <1>4, <1>5
    <2>5. Added(more, named \cup {url}, entry, st, F)
      BY <1>4, <2>2, <2>3, <2>4 DEF Added, known
    <2> QED
      BY <1>1, <1>7, <2>5
  <1> QED
    BY <1>6, <1>7

\* What a file adds to the queue.
LEMMA AddedIsSo ==
    ASSUME NEW F, NEW file, NEW entry \in Entries(F), NEW st,
           ParseSitemap(file).children \in Seq(F), IsInjective(ParseSitemap(file).children)
    PROVE  Added(NewSitemaps(file, entry, st), Range(ParseSitemap(file).children), entry, st, F)
  <1> DEFINE children == ParseSitemap(file).children
             L == Len(children)
             S == Seq(Entries(F))
             Part(n) == {children[m] : m \in 1..n}
  <1> HIDE DEF children
  <1>a. children = ParseSitemap(file).children
    BY DEF children
  <1>0. children \in Seq(F) /\ \A m, n \in 1..Len(children) : children[m] = children[n] => m = n
    <2>1. children \in Seq(F) /\ IsInjective(children)
      BY DEF children
    <2> QED
      BY <2>1 DEF IsInjective
  <1>1. L \in Nat /\ DOMAIN children = 1..L /\ \A n \in 1..L : children[n] \in F
    BY <1>0
  <1>2. NamingStay(S, L, children, file, entry, st)
    <2> SUFFICES ASSUME NEW s \in S, NEW n \in 1..L PROVE NewSitemap(s, children[n], entry, st) \in S
      BY DEF NamingStay
    <2> DEFINE one == [url |-> children[n], depth |-> entry.depth + 1]
    <2>1. one \in Entries(F)
      BY <1>1 DEF Entries
    <2>2. NewSitemap(s, children[n], entry, st) \in {s, Append(s, one)}
      BY DEF NewSitemap
    <2> HIDE DEF one
    <2> QED
      BY <2>1, <2>2
  <1>3. NamingPath(S, L, children, file, entry, st)
    <2> HIDE DEF L
    <2>1. <<>> \in S
      OBVIOUS
    <2> HIDE DEF S
    <2> QED
      BY <1>a, <1>1, <1>2, <2>1, NamingOneByOne
  <1>4. PICK g \in [0..L -> S] :
          /\ g[0] = <<>> /\ \A n \in 1..L : g[n] = NewSitemap(g[n - 1], children[n], entry, st)
          /\ g[L] = NewSitemaps(file, entry, st)
    BY <1>3 DEF NamingPath
  <1> DEFINE A == {n \in Nat : n <= L => Added(g[n], Part(n), entry, st, F)}
  <1>5. 0 \in A
    <2>1. Part(0) = {} /\ QueueUrls(<<>>) = {}
      BY DEF QueueUrls
    <2> QED
      BY <1>4, <2>1 DEF Added
  <1>6. ASSUME NEW n \in Nat, n \in A PROVE n + 1 \in A
    <2> SUFFICES ASSUME n + 1 <= L PROVE Added(g[n + 1], Part(n + 1), entry, st, F)
      OBVIOUS
    <2>1. n + 1 \in 1..L /\ (n + 1) - 1 = n
      BY <1>1
    <2>2. Added(g[n], Part(n), entry, st, F)
      BY <1>1, <1>6
    <2>3. g[n + 1] = NewSitemap(g[n], children[n + 1], entry, st)
      <3>1. g[n + 1] = NewSitemap(g[(n + 1) - 1], children[n + 1], entry, st)
        BY <1>4, <2>1
      <3> QED
        BY <2>1, <3>1
    <2>4. Part(n + 1) = Part(n) \cup {children[n + 1]}
      <3>1. \A m \in 1..(n + 1) : m \in 1..n \/ m = n + 1
        OBVIOUS
      <3>2. n + 1 \in 1..(n + 1) /\ 1..n \subseteq 1..(n + 1)
        OBVIOUS
      <3> QED
        BY <3>1, <3>2
    <2>5. children[n + 1] \in F /\ children[n + 1] \notin Part(n)
      <3>1. \A m \in 1..n : m \in 1..L /\ m # n + 1
        BY <1>1, <2>1
      <3> QED
        BY <1>0, <1>1, <2>1, <3>1
    <2> HIDE DEF Part
    <2> QED
      BY <2>2, <2>3, <2>4, <2>5, NewSitemapKeeps
  <1> HIDE DEF A
  <1>7. L \in A
    BY <1>1, <1>5, <1>6, CountUp
  <1>8. Part(L) = Range(children)
    BY <1>1 DEF Range
  <1> HIDE DEF Part
  <1> QED
    BY <1>1, <1>4, <1>7, <1>8 DEF A, children

\* The queue without its first entry, and with more entries at its end.
Popped(rest, queue) ==
    /\ Len(rest) = Len(queue) - 1
    /\ \A i \in 1..Len(rest) : rest[i] = queue[i + 1] /\ i + 1 \in 1..Len(queue)
    /\ \A i \in 1..Len(queue) : i = 1 \/ i - 1 \in 1..Len(rest)
    /\ QueueUrls(queue) = QueueUrls(rest) \cup {queue[1].url}
Extended(more, queue, new) ==
    /\ Len(more) = Len(queue) + Len(new)
    /\ \A i \in 1..Len(queue) : more[i] = queue[i]
    /\ \A i \in 1..Len(more) : i \in 1..Len(queue) \/ (i - Len(queue) \in 1..Len(new) /\ more[i] = new[i - Len(queue)])
    /\ QueueUrls(more) = QueueUrls(queue) \cup QueueUrls(new)

\* An entry is taken from the front of the queue.
LEMMA QueueIsPopped ==
    ASSUME NEW F, NEW queue \in Seq(Entries(F)), queue # <<>>
    PROVE  /\ Head(queue) = queue[1] /\ queue[1] \in Entries(F) /\ Tail(queue) \in Seq(Entries(F))
           /\ Len(queue) \in Nat /\ Len(queue) >= 1 /\ Popped(Tail(queue), queue)
  <1> DEFINE rest == Tail(queue)
  <1>1. /\ Head(queue) = queue[1] /\ queue[1] \in Entries(F) /\ rest \in Seq(Entries(F))
        /\ Len(queue) \in Nat /\ Len(queue) >= 1 /\ Len(rest) = Len(queue) - 1
        /\ \A i \in 1..Len(rest) : rest[i] = queue[i + 1]
    OBVIOUS
  <1> HIDE DEF rest
  <1>2. \A i \in 1..Len(rest) : rest[i] = queue[i + 1] /\ i + 1 \in 1..Len(queue)
    BY <1>1
  <1>3. \A i \in 1..Len(queue) : i = 1 \/ i - 1 \in 1..Len(rest)
    BY <1>1
  <1>4. QueueUrls(queue) = QueueUrls(rest) \cup {queue[1].url}
    <2>1. ASSUME NEW i \in 1..Len(queue) PROVE queue[i].url \in QueueUrls(rest) \cup {queue[1].url}
      <3>1. CASE i = 1
        BY <3>1
      <3>2. CASE i - 1 \in 1..Len(rest)
        <4>1. rest[i - 1] = queue[(i - 1) + 1] /\ (i - 1) + 1 = i
          BY <1>2, <3>2
        <4> QED
          BY <3>2, <4>1 DEF QueueUrls
      <3> QED
        BY <1>3, <3>1, <3>2
    <2>2. ASSUME NEW i \in 1..Len(rest) PROVE rest[i].url \in QueueUrls(queue)
      BY <1>2 DEF QueueUrls
    <2>3. queue[1].url \in QueueUrls(queue)
      <3>1. 1 \in 1..Len(queue)
        BY <1>1
      <3> QED
        BY <3>1 DEF QueueUrls
    <2>4. QueueUrls(rest) \subseteq QueueUrls(queue)
      BY <2>2 DEF QueueUrls
    <2>5. QueueUrls(queue) \subseteq QueueUrls(rest) \cup {queue[1].url}
      BY <2>1 DEF QueueUrls
    <2> QED
      BY <2>3, <2>4, <2>5
  <1>5. Popped(rest, queue)
    BY <1>1, <1>2, <1>3, <1>4 DEF Popped
  <1> QED
    BY <1>1, <1>5 DEF rest

\* Entries are put at the end of the queue.
LEMMA QueueIsExtended ==
    ASSUME NEW F, NEW queue \in Seq(Entries(F)), NEW new \in Seq(Entries(F))
    PROVE  queue \o new \in Seq(Entries(F)) /\ Extended(queue \o new, queue, new)
  <1> DEFINE more == queue \o new
  <1>1. JoinedIsSo(queue, new, Entries(F))
    BY JoinedLists
  <1>2. /\ more \in Seq(Entries(F)) /\ Len(more) = Len(queue) + Len(new) /\ Len(queue) \in Nat /\ Len(new) \in Nat
        /\ \A n \in 1..Len(more) : more[n] = IF n <= Len(queue) THEN queue[n] ELSE new[n - Len(queue)]
    BY <1>1 DEF JoinedIsSo
  <1> HIDE DEF more
  <1>3. \A i \in 1..Len(queue) : more[i] = queue[i] /\ i \in 1..Len(more)
    BY <1>2
  <1>4. \A i \in 1..Len(new) : more[Len(queue) + i] = new[i] /\ Len(queue) + i \in 1..Len(more)
    <2> SUFFICES ASSUME NEW i \in 1..Len(new) PROVE more[Len(queue) + i] = new[i] /\ Len(queue) + i \in 1..Len(more)
      OBVIOUS
    <2>1. Len(queue) + i \in 1..Len(more) /\ ~(Len(queue) + i <= Len(queue)) /\ (Len(queue) + i) - Len(queue) = i
      BY <1>2
    <2> QED
      BY <1>2, <2>1
  <1>5. \A i \in 1..Len(more) : i \in 1..Len(queue) \/ (i - Len(queue) \in 1..Len(new) /\ more[i] = new[i - Len(queue)])
    BY <1>2
  <1>6. QueueUrls(more) = QueueUrls(queue) \cup QueueUrls(new)
    <2>1. QueueUrls(queue) \subseteq QueueUrls(more)
      BY <1>3 DEF QueueUrls
    <2>2. QueueUrls(new) \subseteq QueueUrls(more)
      <3> SUFFICES ASSUME NEW i \in 1..Len(new) PROVE new[i].url \in QueueUrls(more)
        BY DEF QueueUrls
      <3>1. more[Len(queue) + i] = new[i] /\ Len(queue) + i \in 1..Len(more)
        BY <1>4
      <3> QED
        BY <3>1 DEF QueueUrls
    <2>3. QueueUrls(more) \subseteq QueueUrls(queue) \cup QueueUrls(new)
      <3> SUFFICES ASSUME NEW i \in 1..Len(more) PROVE more[i].url \in QueueUrls(queue) \cup QueueUrls(new)
        BY DEF QueueUrls
      <3>1. CASE i \in 1..Len(queue)
        BY <1>3, <3>1 DEF QueueUrls
      <3>2. CASE i - Len(queue) \in 1..Len(new) /\ more[i] = new[i - Len(queue)]
        BY <3>2 DEF QueueUrls
      <3> QED
        BY <1>5, <3>1, <3>2
    <2> QED
      BY <2>1, <2>2, <2>3
  <1> QED
    BY <1>2, <1>3, <1>5, <1>6 DEF Extended, more

\* A queue in which no address is twice has as many addresses as entries.
LEMMA UrlsAreCounted ==
    ASSUME NEW F, NEW queue \in Seq(Entries(F)), \A i, j \in 1..Len(queue) : queue[i].url = queue[j].url => i = j
    PROVE  IsFiniteSet(QueueUrls(queue)) /\ Cardinality(QueueUrls(queue)) = Len(queue)
  <1> DEFINE k == Len(queue)
             at == 1..k
             f == [i \in at |-> queue[i].url]
             urls == QueueUrls(queue)
  <1>1. k \in Nat
    OBVIOUS
  <1>2. f \in Bijection(at, urls)
    <2>1. f \in [at -> urls]
      BY DEF QueueUrls
    <2>2. \A u \in urls : \E i \in at : f[i] = u
      BY DEF QueueUrls
    <2>3. \A i, j \in at : f[i] = f[j] => i = j
      OBVIOUS
    <2> HIDE DEF f, urls, at
    <2> QED
      BY <2>1, <2>2, <2>3 DEF Bijection, Injection, Surjection, IsInjective
  <1>3. IsFiniteSet(at) /\ Cardinality(at) = k
    <2> HIDE DEF k, f, urls
    <2>1. IsFiniteSet(1..k) /\ Cardinality(1..k) = IF 1 > k THEN 0 ELSE k - 1 + 1
      BY <1>1, FS_Interval
    <2> QED
      BY <1>1, <2>1
  <1> HIDE DEF f, urls, at, k
  <1>4. IsFiniteSet(urls) /\ Cardinality(urls) = Cardinality(at)
    <2>1. ExistsBijection(at, urls)
      BY <1>2 DEF ExistsBijection
    <2> QED
      BY <1>3, <2>1, FS_Bijection
  <1> QED
    BY <1>3, <1>4 DEF urls, k

\* What is left of F after all that was seen and the new ones is less by the new ones.
LeavesFewer(F, seen, new) ==
    /\ Cardinality(F \ (seen \cup new)) \in Nat
    /\ Cardinality(F \ seen) = Cardinality(F \ (seen \cup new)) + Cardinality(new)

\* What is left to be found is less by what a file adds.
LEMMA RestIsCounted ==
    ASSUME NEW F, IsFiniteSet(F), NEW seen, NEW new \in SUBSET F, new \cap seen = {}
    PROVE  LeavesFewer(F, seen, new)
  <1> DEFINE rest == F \ (seen \cup new)
             all == F \ seen
  <1>1. all = rest \cup new /\ rest \cap new = {} /\ rest \subseteq F
    OBVIOUS
  <1> HIDE DEF rest, all
  <1>2. IsFiniteSet(rest) /\ IsFiniteSet(new)
    BY <1>1, FS_Subset
  <1>3. Cardinality(rest \cup new) = Cardinality(rest) + Cardinality(new) - Cardinality(rest \cap new)
    BY <1>2, FS_Union
  <1>4. Cardinality(rest \cap new) = 0
    BY <1>1, FS_EmptySet
  <1>5. Cardinality(rest) \in Nat /\ Cardinality(new) \in Nat
    BY <1>2, FS_CardinalityType
  <1>6. Cardinality(all) = Cardinality(rest) + Cardinality(new)
    BY <1>1, <1>3, <1>4, <1>5
  <1> QED
    BY <1>5, <1>6 DEF rest, all, LeavesFewer

\* What the loop over the queue goes through.
SitemapStates(F, U) ==
    [queue : Seq(Entries(F)), visited : SUBSET F, pages : Seq(U), notes : SUBSET {"sitemap_unavailable"}]
Waiting(starts) == [i \in 1..Len(starts) |-> [url |-> starts[i], depth |-> 0]]
BeforeReading(starts) == [queue |-> Waiting(starts), visited |-> {}, pages |-> <<>>, notes |-> {}]
ReadPath(S, files, robots, starts, last) ==
    \E g \in [0..last -> S] :
        /\ g[0] = BeforeReading(starts) /\ \A n \in 1..last : g[n] = SitemapStep(files, robots, g[n - 1])
        /\ g[last] = ReadSitemaps(files, robots, starts)

\* The loop over the queue, one entry after the other (discover_sitemap_urls).
LEMMA ReadOneByOne ==
    ASSUME NEW S, NEW files, NEW robots, NEW starts, NEW last \in Nat, last = Len(starts) + Cardinality(DOMAIN files),
           BeforeReading(starts) \in S, \A s \in S : SitemapStep(files, robots, s) \in S
    PROVE  ReadPath(S, files, robots, starts, last)
  <1> DEFINE b == BeforeReading(starts)
             step == [n \in 1..last |-> [s \in S |-> SitemapStep(files, robots, s)]]
             Is(f) == f = [n \in 0..last |-> IF n = 0 THEN b ELSE SitemapStep(files, robots, f[n - 1])]
             after == CHOOSE f : Is(f)
  <1>1. step \in [1..last -> [S -> S]]
    OBVIOUS
  <1>2. PICK g \in [0..last -> S] : Steps(g, b, last, step)
    <2> HIDE DEF step, b
    <2>1. b \in S
      BY DEF b
    <2> QED
      BY <1>1, <2>1, StepsExist
  <1>3. g[0] = b /\ \A n \in 1..last : g[n] = SitemapStep(files, robots, g[n - 1])
    <2>1. ASSUME NEW n \in 1..last PROVE g[n] = SitemapStep(files, robots, g[n - 1])
      <3>1. n - 1 \in 0..last
        OBVIOUS
      <3>2. g[n] = step[n][g[n - 1]] /\ g[n - 1] \in S
        BY <1>2, <3>1 DEF Steps
      <3> QED
        BY <3>2
    <2> QED
      BY <1>2, <2>1 DEF Steps
  <1> HIDE DEF b, step
  <1>4. Is(g)
    <2>1. \A n \in 0..last : n = 0 \/ n \in 1..last
      OBVIOUS
    <2> QED
      BY <1>3, <2>1
  <1>5. Is(after)
    <2> HIDE DEF Is
    <2> QED
      BY <1>4
  <1>6. after[last] = ReadSitemaps(files, robots, starts)
    BY DEF ReadSitemaps, b, BeforeReading, Waiting
  <1> HIDE DEF after
  <1>7. \A n \in 0..last : after[n] = IF n = 0 THEN b ELSE SitemapStep(files, robots, after[n - 1])
    BY <1>5
  <1>8. after = g
    <2> DEFINE A == {n \in Nat : n <= last => after[n] = g[n]}
    <2>1. 0 \in A
      BY <1>3, <1>7
    <2>2. ASSUME NEW n \in Nat, n \in A PROVE n + 1 \in A
      <3> SUFFICES ASSUME n + 1 <= last PROVE after[n + 1] = g[n + 1]
        OBVIOUS
      <3>1. n + 1 \in 0..last /\ n + 1 \in 1..last /\ n + 1 # 0 /\ (n + 1) - 1 = n /\ after[n] = g[n]
        BY <2>2
      <3>2. after[n + 1] = SitemapStep(files, robots, after[(n + 1) - 1])
        BY <1>7, <3>1
      <3>3. g[n + 1] = SitemapStep(files, robots, g[(n + 1) - 1])
        BY <1>3, <3>1
      <3> QED
        BY <3>1, <3>2, <3>3
    <2> HIDE DEF A
    <2>3. \A n \in Nat : n \in A
      BY <2>1, <2>2, CountUp
    <2>4. \A n \in 0..last : after[n] = g[n]
      BY <2>3 DEF A
    <2> QED
      BY <1>5, <2>4
  <1> QED
    BY <1>3, <1>6, <1>8 DEF ReadPath, b

\* The addresses within each depth: what is within one is within the next.
WithinPath(files, urls, depth, w) ==
    /\ w \in [0..depth -> SUBSET DOMAIN files] /\ w[0] = urls
    /\ \A n \in 1..depth : w[n] = urls \cup Children(files, w[n - 1])
    /\ w[depth] = SitemapsWithin(files, urls, depth)
    /\ \A n \in 0..depth : urls \subseteq w[n] /\ w[n] \subseteq w[depth]

\* What the files that are reached name.
LEMMA ChildrenGrow == ASSUME NEW files, NEW a, NEW b, a \subseteq b PROVE Children(files, a) \subseteq Children(files, b)
  BY DEF Children

\* The depths, one after the other.
LEMMA WithinOneByOne ==
    ASSUME NEW files, NEW links, SitemapFiles(files, links), NEW urls \in SUBSET DOMAIN files, NEW depth \in Nat
    PROVE  \E w : WithinPath(files, urls, depth, w)
  <1> DEFINE S == SUBSET DOMAIN files
             step == [n \in 1..depth |-> [s \in S |-> urls \cup Children(files, s)]]
             Is(f) == f = [n \in 0..depth |-> IF n = 0 THEN urls ELSE urls \cup Children(files, f[n - 1])]
             within == CHOOSE f : Is(f)
  <1>0. ASSUME NEW s \in S PROVE Children(files, s) \in S
    <2>1. ASSUME NEW u \in s PROVE Range(ParseSitemap(files[u]).children) \subseteq DOMAIN files
      <3>1. ParseSitemap(files[u]).children \in Seq(DOMAIN files)
        BY ParsedIsSo
      <3> QED
        BY <3>1 DEF Range
    <2> QED
      BY <2>1 DEF Children
  <1>1. step \in [1..depth -> [S -> S]]
    BY <1>0
  <1>2. PICK w \in [0..depth -> S] : Steps(w, urls, depth, step)
    <2> HIDE DEF step, S
    <2>1. urls \in S
      BY DEF S
    <2> QED
      BY <1>1, <2>1, StepsExist
  <1>3. w[0] = urls /\ \A n \in 1..depth : w[n] = urls \cup Children(files, w[n - 1])
    <2>1. ASSUME NEW n \in 1..depth PROVE w[n] = urls \cup Children(files, w[n - 1])
      <3>1. n - 1 \in 0..depth
        OBVIOUS
      <3>2. w[n] = step[n][w[n - 1]] /\ w[n - 1] \in S
        BY <1>2, <3>1 DEF Steps
      <3> QED
        BY <3>2
    <2> QED
      BY <1>2, <2>1 DEF Steps
  <1> HIDE DEF step
  <1>4. Is(w)
    <2>1. \A n \in 0..depth : n = 0 \/ n \in 1..depth
      OBVIOUS
    <2> QED
      BY <1>3, <2>1
  <1>5. Is(within)
    <2> HIDE DEF Is
    <2> QED
      BY <1>4
  <1>6. within[depth] = SitemapsWithin(files, urls, depth)
    BY DEF SitemapsWithin
  <1> HIDE DEF within
  <1>7. \A n \in 0..depth : within[n] = IF n = 0 THEN urls ELSE urls \cup Children(files, within[n - 1])
    <2> SUFFICES ASSUME NEW n \in 0..depth
                 PROVE  within[n] = IF n = 0 THEN urls ELSE urls \cup Children(files, within[n - 1])
      OBVIOUS
    <2> QED
      BY <1>5
  <1>8. within = w
    <2> DEFINE A == {n \in Nat : n <= depth => within[n] = w[n]}
    <2>1. 0 \in A
      <3>1. 0 \in 0..depth
        OBVIOUS
      <3>2. within[0] = urls /\ w[0] = urls
        BY <1>3, <1>7, <3>1
      <3> QED
        BY <3>2
    <2>2. ASSUME NEW n \in Nat, n \in A PROVE n + 1 \in A
      <3> SUFFICES ASSUME n + 1 <= depth PROVE within[n + 1] = w[n + 1]
        OBVIOUS
      <3>1. n + 1 \in 0..depth /\ n + 1 \in 1..depth /\ n + 1 # 0 /\ (n + 1) - 1 = n /\ within[n] = w[n]
        BY <2>2
      <3>2. within[n + 1] = urls \cup Children(files, within[(n + 1) - 1])
        BY <1>7, <3>1
      <3>3. w[n + 1] = urls \cup Children(files, w[(n + 1) - 1])
        BY <1>3, <3>1
      <3> QED
        BY <3>1, <3>2, <3>3
    <2> HIDE DEF A
    <2>3. \A n \in Nat : n \in A
      BY <2>1, <2>2, CountUp
    <2>4. \A n \in 0..depth : within[n] = w[n]
      BY <2>3 DEF A
    <2> QED
      BY <1>5, <2>4
  <1>9. \A n \in 1..depth : w[n - 1] \subseteq w[n]
    <2> DEFINE A == {n \in Nat : n + 1 <= depth => w[n] \subseteq w[n + 1]}
    <2>1. 0 \in A
      <3> SUFFICES ASSUME 0 + 1 <= depth PROVE w[0] \subseteq w[0 + 1]
        OBVIOUS
      <3>1. 1 \in 1..depth
        OBVIOUS
      <3> QED
        BY <1>3, <3>1
    <2>2. ASSUME NEW n \in Nat, n \in A PROVE n + 1 \in A
      <3> SUFFICES ASSUME (n + 1) + 1 <= depth PROVE w[n + 1] \subseteq w[(n + 1) + 1]
        OBVIOUS
      <3> DEFINE m == n + 1
      <3>1. m \in 1..depth /\ m + 1 \in 1..depth /\ (m + 1) - 1 = m /\ m - 1 = n /\ w[n] \subseteq w[m]
        BY <2>2
      <3> HIDE DEF m
      <3>2. w[m] = urls \cup Children(files, w[n]) /\ w[m + 1] = urls \cup Children(files, w[m])
        <4>1. w[m] = urls \cup Children(files, w[m - 1]) /\ w[m + 1] = urls \cup Children(files, w[(m + 1) - 1])
          BY <1>3, <3>1
        <4> QED
          BY <3>1, <4>1
      <3>3. Children(files, w[n]) \subseteq Children(files, w[m])
        BY <3>1, ChildrenGrow
      <3>4. w[m] \subseteq w[m + 1]
        BY <3>2, <3>3
      <3> QED
        BY <3>4 DEF m
    <2> HIDE DEF A
    <2>3. \A n \in Nat : n \in A
      BY <2>1, <2>2, CountUp
    <2> SUFFICES ASSUME NEW n \in 1..depth PROVE w[n - 1] \subseteq w[n]
      OBVIOUS
    <2>4. n - 1 \in Nat /\ (n - 1) + 1 = n /\ n <= depth
      OBVIOUS
    <2> QED
      BY <2>3, <2>4 DEF A
  <1>10. \A n \in 0..depth : urls \subseteq w[n]
    <2>1. \A n \in 0..depth : n = 0 \/ n \in 1..depth
      OBVIOUS
    <2> QED
      BY <1>3, <2>1
  <1>11. \A n \in 0..depth : w[n] \subseteq w[depth]
    <2> DEFINE A == {n \in Nat : n <= depth => \A d \in 0..n : w[d] \subseteq w[n]}
    <2>1. 0 \in A
      <3>1. \A d \in 0..0 : d = 0
        OBVIOUS
      <3> QED
        BY <3>1
    <2>2. ASSUME NEW n \in Nat, n \in A PROVE n + 1 \in A
      <3> SUFFICES ASSUME n + 1 <= depth, NEW d \in 0..(n + 1) PROVE w[d] \subseteq w[n + 1]
        OBVIOUS
      <3>1. n + 1 \in 1..depth /\ (n + 1) - 1 = n /\ (d = n + 1 \/ d \in 0..n)
        OBVIOUS
      <3>2. w[n] \subseteq w[n + 1]
        <4>1. w[(n + 1) - 1] \subseteq w[n + 1]
          BY <1>9, <3>1
        <4> QED
          BY <3>1, <4>1
      <3>3. \A e \in 0..n : w[e] \subseteq w[n]
        BY <2>2
      <3> QED
        BY <3>1, <3>2, <3>3
    <2> HIDE DEF A
    <2>3. depth \in A
      BY <2>1, <2>2, CountUp
    <2> QED
      BY <2>3 DEF A
  <1>12. WithinPath(files, urls, depth, w)
    BY <1>2, <1>3, <1>6, <1>8, <1>10, <1>11 DEF WithinPath
  <1> QED
    BY <1>12

\* The queue is read level by level: what waits is of one depth or the next, in this order,
\* what is within the depth was read or waits for it, and so does what was named.
AtDepth(st, k) == {st.queue[i].url : i \in {j \in 1..Len(st.queue) : st.queue[j].depth = k}}
Level(st, k, files, w) ==
    /\ k \in 0..SitemapDepth
    /\ \A i \in 1..Len(st.queue) : /\ st.queue[i].depth \in {k, k + 1} /\ st.queue[i].depth <= SitemapDepth
                                   /\ st.queue[i].url \in w[st.queue[i].depth]
    /\ \A i, j \in 1..Len(st.queue) : i < j => st.queue[i].depth <= st.queue[j].depth
    /\ w[k] \subseteq st.visited \cup AtDepth(st, k)
    /\ k < SitemapDepth => Children(files, st.visited) \subseteq st.visited \cup QueueUrls(st.queue)
AtSomeLevel(st, files, w) == \E k : Level(st, k, files, w)
AtHeadLevel(st, files, w) == st.queue[1].depth \in 0..SitemapDepth /\ Level(st, st.queue[1].depth, files, w)

\* The level is that of the entry whose turn it is.
LEMMA HeadHasLevel ==
    ASSUME NEW files, NEW F, NEW st, st.queue \in Seq(Entries(F)), st.queue # <<>>,
           NEW urls, NEW w, WithinPath(files, urls, SitemapDepth, w),
           urls \subseteq st.visited \cup QueueUrls(st.queue), AtSomeLevel(st, files, w)
    PROVE  AtHeadLevel(st, files, w)
  <1> DEFINE queue == st.queue
             d == queue[1].depth
  <1>1. PICK k : Level(st, k, files, w)
    BY DEF AtSomeLevel
  <1>2. SitemapDepth \in Nat
    BY SiteInventoryAssumption
  <1>3. Len(queue) \in Nat /\ 1 \in 1..Len(queue) /\ \A i \in 1..Len(queue) : queue[i].depth \in Nat
    <2>1. Len(queue) \in Nat /\ 1 \in 1..Len(queue) /\ \A i \in 1..Len(queue) : queue[i] \in Entries(F)
      OBVIOUS
    <2>2. \A entry \in Entries(F) : entry.depth \in Nat
      BY DEF Entries
    <2> HIDE DEF queue
    <2> QED
      BY <2>1, <2>2
  <1> HIDE DEF queue
  <1>4. /\ k \in 0..SitemapDepth /\ \A i \in 1..Len(queue) : queue[i].depth \in {k, k + 1} /\ queue[i].depth <= SitemapDepth
        /\ \A i \in 1..Len(queue) : queue[i].url \in w[queue[i].depth]
        /\ \A i, j \in 1..Len(queue) : i < j => queue[i].depth <= queue[j].depth
        /\ w[k] \subseteq st.visited \cup AtDepth(st, k)
        /\ k < SitemapDepth => Children(files, st.visited) \subseteq st.visited \cup QueueUrls(queue)
    BY <1>1 DEF Level, queue
  <1>5. CASE d = k
    BY <1>1, <1>4, <1>5 DEF AtHeadLevel, queue
  <1>6. CASE d = k + 1
    <2>1. k + 1 \in 1..SitemapDepth /\ (k + 1) - 1 = k /\ k < SitemapDepth /\ k + 1 \in 0..SitemapDepth
      BY <1>2, <1>3, <1>4, <1>6
    <2>2. ASSUME NEW i \in 1..Len(queue) PROVE queue[i].depth = k + 1
      <3>1. i = 1 \/ 1 < i
        BY <1>3
      <3>2. i = 1 \/ queue[1].depth <= queue[i].depth
        BY <1>3, <1>4, <3>1
      <3> QED
        BY <1>3, <1>4, <1>6, <3>2
    <2>3. AtDepth(st, k) = {} /\ AtDepth(st, k + 1) = QueueUrls(queue)
      <3>1. \A i \in 1..Len(queue) : queue[i].depth # k
        BY <1>4, <2>2
      <3>2. {j \in 1..Len(queue) : queue[j].depth = k} = {} /\ {j \in 1..Len(queue) : queue[j].depth = k + 1} = 1..Len(queue)
        BY <2>2, <3>1
      <3> QED
        BY <3>2 DEF AtDepth, QueueUrls, queue
    <2>4. w[k + 1] = urls \cup Children(files, w[k])
      <3>1. w[k + 1] = urls \cup Children(files, w[(k + 1) - 1])
        BY <2>1 DEF WithinPath
      <3> QED
        BY <2>1, <3>1
    <2>5. Children(files, w[k]) \subseteq Children(files, st.visited)
      BY <1>4, <2>3, ChildrenGrow
    <2>6. w[k + 1] \subseteq st.visited \cup AtDepth(st, k + 1)
      BY <1>4, <2>1, <2>3, <2>4, <2>5 DEF queue
    <2>7. \A i \in 1..Len(queue) : queue[i].depth \in {k + 1, (k + 1) + 1}
      BY <2>2
    <2>8. Level(st, k + 1, files, w)
      BY <1>4, <2>1, <2>6, <2>7 DEF Level, queue
    <2> QED
      BY <1>6, <2>1, <2>8 DEF AtHeadLevel, queue
  <1> QED
    BY <1>3, <1>4, <1>5, <1>6

\* An entry whose file was read is dropped from its level.
LEMMA DroppedStaysLevel ==
    ASSUME NEW files, NEW F, NEW st, st.queue \in Seq(Entries(F)), st.queue # <<>>, NEW w,
           AtHeadLevel(st, files, w), NEW rest, rest.queue = Tail(st.queue), rest.visited = st.visited,
           st.queue[1].url \in st.visited
    PROVE  AtSomeLevel(rest, files, w)
  <1> DEFINE queue == st.queue
             q == rest.queue
             k == queue[1].depth
  <1>1. Level(st, k, files, w)
    BY DEF AtHeadLevel
  <1>2. /\ Len(queue) \in Nat /\ Len(queue) >= 1 /\ Popped(q, queue)
    BY QueueIsPopped
  <1> HIDE DEF queue, q, k
  <1>3. /\ k \in 0..SitemapDepth
        /\ \A i \in 1..Len(queue) : queue[i].depth \in {k, k + 1} /\ queue[i].depth <= SitemapDepth
        /\ \A i \in 1..Len(queue) : queue[i].url \in w[queue[i].depth]
        /\ \A i, j \in 1..Len(queue) : i < j => queue[i].depth <= queue[j].depth
        /\ w[k] \subseteq st.visited \cup AtDepth(st, k)
        /\ k < SitemapDepth => Children(files, st.visited) \subseteq st.visited \cup QueueUrls(queue)
    BY <1>1 DEF Level, queue
  <1>4. /\ Len(q) = Len(queue) - 1
        /\ \A i \in 1..Len(q) : q[i] = queue[i + 1] /\ i + 1 \in 1..Len(queue)
        /\ \A i \in 1..Len(queue) : i = 1 \/ i - 1 \in 1..Len(q)
        /\ QueueUrls(queue) = QueueUrls(q) \cup {queue[1].url}
    BY <1>2 DEF Popped
  <1>5. \A i \in 1..Len(q) : q[i].depth \in {k, k + 1} /\ q[i].depth <= SitemapDepth /\ q[i].url \in w[q[i].depth]
    BY <1>3, <1>4
  <1>6. \A i, j \in 1..Len(q) : i < j => q[i].depth <= q[j].depth
    <2> SUFFICES ASSUME NEW i \in 1..Len(q), NEW j \in 1..Len(q), i < j PROVE q[i].depth <= q[j].depth
      OBVIOUS
    <2>1. i + 1 < j + 1 /\ i + 1 \in 1..Len(queue) /\ j + 1 \in 1..Len(queue) /\ q[i] = queue[i + 1] /\ q[j] = queue[j + 1]
      BY <1>2, <1>4
    <2> QED
      BY <1>3, <2>1
  <1>7. AtDepth(st, k) \subseteq AtDepth(rest, k) \cup {queue[1].url}
    <2> SUFFICES ASSUME NEW i \in 1..Len(queue), queue[i].depth = k
                 PROVE  queue[i].url \in AtDepth(rest, k) \cup {queue[1].url}
      BY DEF AtDepth, queue
    <2>1. CASE i = 1
      BY <2>1
    <2>2. CASE i - 1 \in 1..Len(q)
      <3>1. q[i - 1] = queue[(i - 1) + 1] /\ (i - 1) + 1 = i
        BY <1>4, <2>2
      <3> QED
        BY <2>2, <3>1 DEF AtDepth, q
    <2> QED
      BY <1>4, <2>1, <2>2
  <1>8. w[k] \subseteq rest.visited \cup AtDepth(rest, k)
    BY <1>3, <1>7 DEF queue
  <1>9. k < SitemapDepth => Children(files, rest.visited) \subseteq rest.visited \cup QueueUrls(q)
    BY <1>3, <1>4 DEF queue
  <1>10. Level(rest, k, files, w)
    BY <1>3, <1>5, <1>6, <1>8, <1>9 DEF Level, q
  <1> QED
    BY <1>10 DEF AtSomeLevel

\* The entry at the queue's head is visited, and what its file names and nobody queued is queued.
HeadVisited(st, files, F, entry, new, next) ==
    /\ entry = st.queue[1]
    /\ new \in Seq(Entries(F))
    /\ entry.depth >= SitemapDepth => new = <<>>
    /\ \A i \in 1..Len(new) : new[i].depth = entry.depth + 1
    /\ QueueUrls(new) \subseteq Children(files, {entry.url})
    /\ entry.depth < SitemapDepth =>
          Children(files, {entry.url}) \subseteq st.visited \cup {entry.url} \cup QueueUrls(Tail(st.queue)) \cup QueueUrls(new)
    /\ next.queue = Tail(st.queue) \o new
    /\ next.visited = st.visited \cup {entry.url}

\* A file that is read leaves its level, and what it names joins the next one.
LEMMA VisitedStaysLevel ==
    ASSUME NEW files, NEW F, NEW st, st.queue \in Seq(Entries(F)), st.queue # <<>>,
           NEW urls, NEW w, WithinPath(files, urls, SitemapDepth, w),
           AtHeadLevel(st, files, w), st.visited \subseteq w[SitemapDepth],
           NEW entry, NEW new, NEW next, HeadVisited(st, files, F, entry, new, next)
    PROVE  AtSomeLevel(next, files, w) /\ next.visited \subseteq w[SitemapDepth]
  <1> DEFINE queue == st.queue
             rest == Tail(queue)
             more == next.queue
             k == queue[1].depth
  <1> USE DEF HeadVisited
  <1>0. SitemapDepth \in Nat /\ w \in [0..SitemapDepth -> SUBSET DOMAIN files]
    BY SiteInventoryAssumption DEF WithinPath
  <1>1. Level(st, k, files, w)
    BY DEF AtHeadLevel
  <1>2. Len(queue) \in Nat /\ Len(queue) >= 1 /\ rest \in Seq(Entries(F)) /\ Len(rest) \in Nat /\ Popped(rest, queue)
    BY QueueIsPopped
  <1> HIDE DEF rest
  <1>3. Extended(more, rest, new)
    <2>1. more = rest \o new
      BY DEF rest
    <2> HIDE DEF more
    <2> QED
      BY <1>2, <2>1, QueueIsExtended
  <1> HIDE DEF queue, k, more
  <1>4. /\ k \in 0..SitemapDepth
        /\ \A i \in 1..Len(queue) : queue[i].depth \in {k, k + 1} /\ queue[i].depth <= SitemapDepth
        /\ \A i \in 1..Len(queue) : queue[i].url \in w[queue[i].depth]
        /\ \A i, j \in 1..Len(queue) : i < j => queue[i].depth <= queue[j].depth
        /\ w[k] \subseteq st.visited \cup AtDepth(st, k)
        /\ k < SitemapDepth => Children(files, st.visited) \subseteq st.visited \cup QueueUrls(queue)
    BY <1>1 DEF Level, queue
  <1>5. /\ Len(rest) = Len(queue) - 1
        /\ \A i \in 1..Len(rest) : rest[i] = queue[i + 1] /\ i + 1 \in 1..Len(queue)
        /\ \A i \in 1..Len(queue) : i = 1 \/ i - 1 \in 1..Len(rest)
        /\ QueueUrls(queue) = QueueUrls(rest) \cup {entry.url}
    BY <1>2 DEF Popped, queue
  <1>6. /\ Len(more) = Len(rest) + Len(new)
        /\ \A i \in 1..Len(rest) : more[i] = rest[i]
        /\ \A i \in 1..Len(more) : i \in 1..Len(rest) \/ (i - Len(rest) \in 1..Len(new) /\ more[i] = new[i - Len(rest)])
        /\ QueueUrls(more) = QueueUrls(rest) \cup QueueUrls(new)
    BY <1>3 DEF Extended
  <1>7. /\ entry.depth = k /\ entry.url \in w[k] /\ Len(new) \in Nat
        /\ \A i \in 1..Len(new) : new[i].depth = k + 1 /\ k < SitemapDepth
    <2>1. 1 \in 1..Len(queue) /\ entry = queue[1]
      BY <1>2 DEF queue
    <2>2. k >= SitemapDepth => new = <<>>
      BY <2>1 DEF k
    <2>3. new # <<>> => k < SitemapDepth
      BY <1>0, <1>4, <2>2
    <2>4. entry.depth = k /\ entry.url \in w[k]
      BY <1>4, <2>1 DEF k
    <2>5. \A i \in 1..Len(new) : new # <<>>
      OBVIOUS
    <2> QED
      BY <2>3, <2>4, <2>5
  <1>8. ASSUME NEW i \in 1..Len(new) PROVE new[i].url \in w[k + 1]
    <2>1. k + 1 \in 1..SitemapDepth /\ (k + 1) - 1 = k
      BY <1>0, <1>4, <1>7
    <2>2. w[k + 1] = urls \cup Children(files, w[k])
      <3>1. w[k + 1] = urls \cup Children(files, w[(k + 1) - 1])
        BY <2>1 DEF WithinPath
      <3> QED
        BY <2>1, <3>1
    <2>3. Children(files, {entry.url}) \subseteq Children(files, w[k])
      <3>1. {entry.url} \subseteq w[k]
        BY <1>7
      <3> QED
        BY <3>1, ChildrenGrow
    <2>4. new[i].url \in QueueUrls(new)
      BY DEF QueueUrls
    <2> QED
      BY <2>2, <2>3, <2>4
  <1>9. ASSUME NEW i \in 1..Len(more)
        PROVE  more[i].depth \in {k, k + 1} /\ more[i].depth <= SitemapDepth /\ more[i].url \in w[more[i].depth]
    <2>1. CASE i \in 1..Len(rest)
      <3>1. more[i] = queue[i + 1] /\ i + 1 \in 1..Len(queue)
        BY <1>5, <1>6, <2>1
      <3> QED
        BY <1>4, <3>1
    <2>2. CASE i - Len(rest) \in 1..Len(new) /\ more[i] = new[i - Len(rest)]
      <3>1. more[i].depth = k + 1 /\ k < SitemapDepth /\ more[i].url \in w[k + 1]
        BY <1>7, <1>8, <2>2
      <3> QED
        BY <1>0, <1>4, <3>1
    <2> QED
      BY <1>6, <2>1, <2>2
  <1>10. ASSUME NEW i \in 1..Len(more), NEW j \in 1..Len(more), i < j PROVE more[i].depth <= more[j].depth
    <2>1. CASE i \in 1..Len(rest) /\ j \in 1..Len(rest)
      <3>1. i + 1 < j + 1 /\ i + 1 \in 1..Len(queue) /\ j + 1 \in 1..Len(queue)
            /\ more[i] = queue[i + 1] /\ more[j] = queue[j + 1]
        BY <1>2, <1>5, <1>6, <1>10, <2>1
      <3> QED
        BY <1>4, <3>1
    <2>2. CASE j \notin 1..Len(rest)
      <3>1. j - Len(rest) \in 1..Len(new) /\ more[j] = new[j - Len(rest)]
        BY <1>6, <2>2
      <3>2. more[j].depth = k + 1
        BY <1>7, <3>1
      <3>3. more[i].depth \in {k, k + 1}
        BY <1>9
      <3> QED
        BY <1>4, <3>2, <3>3
    <2>3. CASE i \notin 1..Len(rest)
      <3>1. j \notin 1..Len(rest)
        BY <1>2, <1>10, <2>3
      <3> QED
        BY <2>2, <3>1
    <2> QED
      BY <2>1, <2>2, <2>3
  <1>11. w[k] \subseteq next.visited \cup AtDepth(next, k)
    <2>1. AtDepth(st, k) \subseteq AtDepth(next, k) \cup {entry.url}
      <3> SUFFICES ASSUME NEW i \in 1..Len(queue), queue[i].depth = k
                   PROVE  queue[i].url \in AtDepth(next, k) \cup {entry.url}
        BY DEF AtDepth, queue
      <3>1. CASE i = 1
        BY <3>1 DEF queue
      <3>2. CASE i - 1 \in 1..Len(rest)
        <4>1. rest[i - 1] = queue[(i - 1) + 1] /\ (i - 1) + 1 = i /\ more[i - 1] = rest[i - 1] /\ i - 1 \in 1..Len(more)
          BY <1>2, <1>5, <1>6, <1>7, <3>2
        <4> QED
          BY <4>1 DEF AtDepth, more
      <3> QED
        BY <1>5, <3>1, <3>2
    <2> QED
      BY <1>4, <2>1
  <1>12. k < SitemapDepth => Children(files, next.visited) \subseteq next.visited \cup QueueUrls(more)
    <2> SUFFICES ASSUME k < SitemapDepth PROVE Children(files, next.visited) \subseteq next.visited \cup QueueUrls(more)
      OBVIOUS
    <2>1. Children(files, next.visited) = Children(files, st.visited) \cup Children(files, {entry.url})
      BY DEF Children
    <2>2. Children(files, {entry.url}) \subseteq st.visited \cup {entry.url} \cup QueueUrls(rest) \cup QueueUrls(new)
      BY <1>7 DEF rest, queue
    <2>3. Children(files, st.visited) \subseteq st.visited \cup QueueUrls(rest) \cup {entry.url}
      BY <1>4, <1>5
    <2> QED
      BY <1>6, <2>1, <2>2, <2>3
  <1>13. Level(next, k, files, w)
    BY <1>4, <1>9, <1>10, <1>11, <1>12 DEF Level, more
  <1>14. next.visited \subseteq w[SitemapDepth]
    <2>1. w[k] \subseteq w[SitemapDepth]
      BY <1>4 DEF WithinPath
    <2> QED
      BY <1>7, <2>1
  <1> QED
    BY <1>13, <1>14 DEF AtSomeLevel

\* The allowed pages of some files.
Listed(files, urls, robots) == (UNION {Range(ParseSitemap(files[u]).pages) : u \in urls}) \ robots.disallowed

\* Why the loop stops, and what is still to be done of its steps.
Stopped(st) == st.queue = <<>> \/ Cardinality(st.visited) >= MaxSitemaps \/ Len(st.pages) >= SitemapPages
ToFind(st, F) == Cardinality(F \ (st.visited \cup QueueUrls(st.queue)))

\* The loop reads level by level within its limits, has all allowed pages of the files that
\* it has read while there is room, and comes to its end in time.
Reads(st, n, files, links, robots, urls, w, last) ==
    /\ st \in SitemapStates(DOMAIN files, PageUrls(links))
    /\ Cardinality(st.visited) <= MaxSitemaps
    /\ Len(st.pages) <= SitemapPages /\ IsInjective(st.pages)
    /\ Range(st.pages) \subseteq Listed(files, st.visited, robots)
    /\ Len(st.pages) < SitemapPages => Listed(files, st.visited, robots) \subseteq Range(st.pages)
    /\ urls \subseteq st.visited \cup QueueUrls(st.queue)
    /\ st.visited \subseteq w[SitemapDepth]
    /\ AtSomeLevel(st, files, w)
    /\ Stopped(st) \/ Len(st.queue) + ToFind(st, DOMAIN files) + n <= last

\* An entry whose file was read is dropped.
LEMMA DroppedIsRead ==
    ASSUME NEW files, NEW links, SitemapFiles(files, links), NEW robots, NEW urls,
           NEW w, WithinPath(files, urls, SitemapDepth, w), NEW last \in Nat, NEW n \in Nat,
           NEW st, Reads(st, n, files, links, robots, urls, w, last), ~Stopped(st),
           Head(st.queue).url \in st.visited
    PROVE  Reads([st EXCEPT !.queue = Tail(@)], n + 1, files, links, robots, urls, w, last)
  <1> DEFINE F == DOMAIN files
             queue == st.queue
             entry == queue[1]
             next == [st EXCEPT !.queue = Tail(@)]
             rest == Tail(queue)
  <1>1. st \in SitemapStates(F, PageUrls(links)) /\ queue \in Seq(Entries(F)) /\ queue # <<>>
    BY DEF Reads, SitemapStates, Stopped
  <1>2. /\ Head(queue) = entry /\ rest \in Seq(Entries(F)) /\ Len(queue) \in Nat /\ Len(queue) >= 1 /\ Popped(rest, queue)
    BY <1>1, QueueIsPopped
  <1>3. /\ next \in SitemapStates(F, PageUrls(links)) /\ next.queue = rest /\ next.visited = st.visited
        /\ next.pages = st.pages
    BY <1>1, <1>2 DEF SitemapStates
  <1>4. Len(rest) = Len(queue) - 1 /\ QueueUrls(queue) = QueueUrls(rest) \cup {entry.url}
    BY <1>2 DEF Popped
  <1>5. st.visited \cup QueueUrls(rest) = st.visited \cup QueueUrls(queue)
    BY <1>2, <1>4
  <1>6. AtSomeLevel(next, files, w)
    <2>1. AtHeadLevel(st, files, w)
      BY <1>1, HeadHasLevel DEF Reads
    <2>2. entry.url \in st.visited
      BY <1>2
    <2> HIDE DEF next
    <2> QED
      BY <1>1, <1>3, <2>1, <2>2, DroppedStaysLevel
  <1>7. Len(next.queue) + ToFind(next, F) + (n + 1) <= last
    <2>1. ToFind(next, F) = ToFind(st, F)
      BY <1>3, <1>5 DEF ToFind
    <2>2. Len(queue) + ToFind(st, F) + n <= last
      BY DEF Reads
    <2>3. ToFind(st, F) \in Nat
      <3>1. IsFiniteSet(F \ (st.visited \cup QueueUrls(queue)))
        <4>1. IsFiniteSet(F)
          BY DEF SitemapFiles
        <4> HIDE DEF F
        <4> QED
          BY <4>1, FS_Difference
      <3> QED
        BY <3>1, FS_CardinalityType DEF ToFind
    <2> HIDE DEF F, next, queue
    <2> QED
      BY <1>2, <1>3, <1>4, <2>1, <2>2, <2>3
  <1>8. /\ Cardinality(st.visited) <= MaxSitemaps /\ Len(st.pages) <= SitemapPages /\ IsInjective(st.pages)
        /\ Range(st.pages) \subseteq Listed(files, st.visited, robots)
        /\ Len(st.pages) < SitemapPages => Listed(files, st.visited, robots) \subseteq Range(st.pages)
        /\ urls \subseteq st.visited \cup QueueUrls(queue) /\ st.visited \subseteq w[SitemapDepth]
    BY DEF Reads
  <1> HIDE DEF next, queue, rest
  <1>9. urls \subseteq next.visited \cup QueueUrls(next.queue)
    BY <1>3, <1>5, <1>8
  <1>10. Reads(next, n + 1, files, links, robots, urls, w, last)
    BY <1>3, <1>6, <1>7, <1>8, <1>9 DEF Reads
  <1> QED
    BY <1>10 DEF next

\* A file is read.
LEMMA VisitedIsRead ==
    ASSUME NEW files, NEW links, SitemapFiles(files, links), NEW robots, NEW urls,
           NEW w, WithinPath(files, urls, SitemapDepth, w), NEW last \in Nat, NEW n \in Nat,
           NEW st, Reads(st, n, files, links, robots, urls, w, last), ~Stopped(st),
           Head(st.queue).url \notin st.visited
    PROVE  Reads(VisitSitemap(files[Head(st.queue).url], Head(st.queue), robots, [st EXCEPT !.queue = Tail(@)]),
                 n + 1, files, links, robots, urls, w, last)
  <1> DEFINE F == DOMAIN files
             U == PageUrls(links)
             queue == st.queue
             entry == queue[1]
             rest == Tail(queue)
             popped == [st EXCEPT !.queue = Tail(@)]
             file == files[entry.url]
             parsed == ParseSitemap(file)
             added == NewSitemaps(file, entry, popped)
             new == IF entry.depth >= SitemapDepth THEN <<>> ELSE added
             next == VisitSitemap(file, entry, robots, popped)
             pages == TakePages(st.pages, parsed.pages, robots)
  <1>0. /\ SitemapDepth \in Nat /\ MaxSitemaps \in Nat /\ SitemapPages \in Nat /\ IsFiniteSet(F)
    BY SiteInventoryAssumption DEF SitemapFiles
  <1>1. /\ st \in SitemapStates(F, U) /\ queue \in Seq(Entries(F)) /\ queue # <<>> /\ st.visited \subseteq F
        /\ st.pages \in Seq(U) /\ Len(st.pages) < SitemapPages /\ Cardinality(st.visited) < MaxSitemaps
    <2>1. st \in SitemapStates(F, U) /\ Len(st.pages) <= SitemapPages /\ Cardinality(st.visited) <= MaxSitemaps
      BY DEF Reads
    <2>2. queue # <<>> /\ ~(Len(st.pages) >= SitemapPages) /\ ~(Cardinality(st.visited) >= MaxSitemaps)
      BY DEF Stopped
    <2>3. queue \in Seq(Entries(F)) /\ st.visited \subseteq F /\ st.pages \in Seq(U) /\ Len(st.pages) \in Nat
      BY <2>1 DEF SitemapStates
    <2>4. Cardinality(st.visited) \in Nat
      <3>1. IsFiniteSet(st.visited)
        <4> HIDE DEF F
        <4> QED
          BY <1>0, <2>3, FS_Subset
      <3> QED
        BY <3>1, FS_CardinalityType
    <2> HIDE DEF queue
    <2> QED
      BY <1>0, <2>1, <2>2, <2>3, <2>4
  <1>2. /\ Head(queue) = entry /\ entry \in Entries(F) /\ rest \in Seq(Entries(F))
        /\ Len(queue) \in Nat /\ Len(queue) >= 1 /\ Popped(rest, queue)
    BY <1>1, QueueIsPopped
  <1>3. entry.url \in F /\ entry.depth \in Nat /\ entry.url \notin st.visited
    BY <1>2 DEF Entries
  <1>4. /\ popped.queue = rest /\ popped.visited = st.visited /\ popped.pages = st.pages /\ popped.notes = st.notes
        /\ popped \in SitemapStates(F, U)
    BY <1>1, <1>2 DEF SitemapStates
  <1>5. parsed.pages \in Seq(U) /\ parsed.children \in Seq(F) /\ IsInjective(parsed.children)
    BY <1>3, ParsedIsSo
  <1> HIDE DEF popped, parsed, file, entry
  <1>6. Added(added, Range(parsed.children), entry, popped, F)
    <2> HIDE DEF F
    <2> QED
      BY <1>2, <1>5, AddedIsSo DEF parsed
  <1>7. Children(files, {entry.url}) = Range(parsed.children)
    BY DEF Children, parsed, file
  <1>8. /\ new \in Seq(Entries(F)) /\ Len(new) \in Nat
        /\ \A i \in 1..Len(new) : new[i].depth = entry.depth + 1
        /\ \A i, j \in 1..Len(new) : new[i].url = new[j].url => i = j
        /\ QueueUrls(new) \cap (st.visited \cup {entry.url} \cup QueueUrls(rest)) = {}
        /\ QueueUrls(new) \subseteq Children(files, {entry.url})
        /\ entry.depth < SitemapDepth =>
             Children(files, {entry.url}) \subseteq st.visited \cup {entry.url} \cup QueueUrls(rest) \cup QueueUrls(new)
        /\ entry.depth >= SitemapDepth => new = <<>>
    <2>1. CASE entry.depth >= SitemapDepth
      <3>1. new = <<>> /\ ~(entry.depth < SitemapDepth)
        BY <1>0, <1>3, <2>1
      <3>2. QueueUrls(<<>>) = {}
        BY DEF QueueUrls
      <3> HIDE DEF new
      <3> QED
        BY <2>1, <3>1, <3>2
    <2>2. CASE ~(entry.depth >= SitemapDepth)
      <3>1. new = added
        BY <2>2
      <3> HIDE DEF new, added
      <3>2. /\ new \in Seq(Entries(F))
            /\ \A i \in 1..Len(new) : new[i].depth = entry.depth + 1
            /\ \A i, j \in 1..Len(new) : new[i].url = new[j].url => i = j
            /\ QueueUrls(new) = Range(parsed.children) \ (popped.visited \cup {entry.url} \cup QueueUrls(popped.queue))
        BY <1>6, <3>1 DEF Added
      <3>3. Len(new) \in Nat
        BY <3>2
      <3>4. QueueUrls(new) = Range(parsed.children) \ (st.visited \cup {entry.url} \cup QueueUrls(rest))
        BY <1>4, <3>2
      <3> QED
        BY <1>7, <2>2, <3>2, <3>3, <3>4
    <2> QED
      BY <2>1, <2>2
  <1>9. Taken(pages, st.pages, Range(parsed.pages), robots, U)
    <2>1. IsInjective(st.pages) /\ Len(st.pages) <= SitemapPages
      BY DEF Reads
    <2> HIDE DEF U, parsed
    <2> QED
      BY <1>1, <1>5, <2>1, TakenIsSo
  <1>10. next = [popped EXCEPT !.visited = st.visited \cup {entry.url},
                     !.notes = IF file.kind = "bad" THEN st.notes \cup {"sitemap_unavailable"} ELSE st.notes,
                     !.pages = pages, !.queue = IF entry.depth >= SitemapDepth THEN rest ELSE rest \o added]
    BY <1>4 DEF VisitSitemap, parsed
  <1>11. (IF entry.depth >= SitemapDepth THEN rest ELSE rest \o added) = rest \o new
    <2>1. rest \o <<>> = rest
      <3> HIDE DEF rest
      <3> QED
        BY <1>2
    <2> HIDE DEF rest, added
    <2> QED
      BY <2>1
  <1> HIDE DEF new, added, rest
  <1>12. rest \o new \in Seq(Entries(F)) /\ Extended(rest \o new, rest, new)
    BY <1>2, <1>8, QueueIsExtended
  <1>13. /\ next.queue = rest \o new /\ next.visited = st.visited \cup {entry.url} /\ next.pages = pages
         /\ next \in SitemapStates(F, U)
    <2>1. pages \in Seq(U) /\ st.notes \in SUBSET {"sitemap_unavailable"}
      BY <1>1, <1>9 DEF Taken, SitemapStates
    <2> HIDE DEF pages, next, F
    <2> QED
      BY <1>1, <1>3, <1>4, <1>10, <1>11, <1>12, <2>1 DEF SitemapStates
  <1> HIDE DEF next, pages
  <1>14. Cardinality(next.visited) <= MaxSitemaps
    <2>1. IsFiniteSet(st.visited) /\ Cardinality(st.visited) \in Nat
      <3> HIDE DEF F
      <3> QED
        BY <1>0, <1>1, FS_Subset, FS_CardinalityType
    <2>2. Cardinality(st.visited \cup {entry.url}) = Cardinality(st.visited) + 1
      BY <1>3, <2>1, FS_AddElement
    <2> QED
      BY <1>0, <1>1, <1>13, <2>1, <2>2
  <1>15. /\ Len(next.pages) <= SitemapPages /\ IsInjective(next.pages)
         /\ Range(next.pages) \subseteq Listed(files, next.visited, robots)
         /\ Len(next.pages) < SitemapPages => Listed(files, next.visited, robots) \subseteq Range(next.pages)
    <2>1. Listed(files, next.visited, robots) = Listed(files, st.visited, robots) \cup (Range(parsed.pages) \ robots.disallowed)
      <3> DEFINE here(u) == Range(ParseSitemap(files[u]).pages)
      <3>1. UNION {here(u) : u \in st.visited \cup {entry.url}} = (UNION {here(u) : u \in st.visited}) \cup here(entry.url)
        OBVIOUS
      <3>2. here(entry.url) = Range(parsed.pages)
        BY DEF parsed, file
      <3> QED
        BY <1>13, <3>1, <3>2 DEF Listed
    <2>2. Range(st.pages) = Listed(files, st.visited, robots)
      BY <1>1 DEF Reads
    <2>3. /\ Len(pages) <= SitemapPages /\ IsInjective(pages) /\ Range(st.pages) \subseteq Range(pages)
          /\ Range(pages) \subseteq Range(st.pages) \cup (Range(parsed.pages) \ robots.disallowed)
          /\ Len(pages) < SitemapPages => Range(parsed.pages) \ robots.disallowed \subseteq Range(pages)
      BY <1>9 DEF Taken
    <2> HIDE DEF parsed
    <2> QED
      BY <1>13, <2>1, <2>2, <2>3
  <1>16. AtSomeLevel(next, files, w) /\ next.visited \subseteq w[SitemapDepth]
    <2>1. AtHeadLevel(st, files, w)
      BY <1>1, HeadHasLevel DEF Reads
    <2>2. st.visited \subseteq w[SitemapDepth]
      BY DEF Reads
    <2>3. entry = queue[1] /\ rest = Tail(queue)
      BY DEF entry, rest
    <2>4. /\ QueueUrls(new) \subseteq Children(files, {entry.url})
          /\ entry.depth < SitemapDepth =>
               Children(files, {entry.url}) \subseteq st.visited \cup {entry.url} \cup QueueUrls(Tail(queue)) \cup QueueUrls(new)
          /\ next.queue = Tail(queue) \o new
      BY <1>8, <1>13, <2>3
    <2>5. queue \in Seq(Entries(F)) /\ queue # <<>> /\ WithinPath(files, urls, SitemapDepth, w)
      BY <1>1
    <2>6. new \in Seq(Entries(F)) /\ (entry.depth >= SitemapDepth => new = <<>>)
      BY <1>8
    <2>7. \A i \in 1..Len(new) : new[i].depth = entry.depth + 1
      BY <1>8
    <2>8. next.visited = st.visited \cup {entry.url}
      BY <1>13
    <2>9. HeadVisited(st, files, F, entry, new, next)
      BY <2>3, <2>4, <2>6, <2>7, <2>8 DEF HeadVisited
    <2> HIDE DEF F
    <2> QED
      BY <2>1, <2>2, <2>5, <2>9, VisitedStaysLevel
  <1>17. /\ Len(rest) = Len(queue) - 1 /\ QueueUrls(queue) = QueueUrls(rest) \cup {entry.url}
         /\ Len(next.queue) = Len(rest) + Len(new) /\ QueueUrls(next.queue) = QueueUrls(rest) \cup QueueUrls(new)
    BY <1>2, <1>12, <1>13 DEF Popped, Extended, entry
  <1>18. next.visited \cup QueueUrls(next.queue) = (st.visited \cup QueueUrls(queue)) \cup QueueUrls(new)
    BY <1>13, <1>17
  <1>19. Len(next.queue) + ToFind(next, F) + (n + 1) <= last
    <2> DEFINE seen == st.visited \cup QueueUrls(queue)
               found == QueueUrls(new)
               before == Cardinality(F \ seen)
               after == Cardinality(F \ (seen \cup found))
    <2>1. found \subseteq F /\ found \cap seen = {}
      <3>1. found \subseteq F
        <4>1. \A i \in 1..Len(new) : new[i] \in Entries(F)
          BY <1>8
        <4>2. \A e \in Entries(F) : e.url \in F
          BY DEF Entries
        <4> QED
          BY <4>1, <4>2 DEF QueueUrls
      <3> HIDE DEF F
      <3> QED
        BY <1>8, <1>17, <3>1
    <2>2. Cardinality(found) = Len(new)
      <3> HIDE DEF F, found
      <3> QED
        BY <1>8, UrlsAreCounted DEF found
    <2>3. after \in Nat /\ before = after + Cardinality(found)
      <3> HIDE DEF F, found, seen
      <3>1. found \in SUBSET F /\ found \cap seen = {} /\ IsFiniteSet(F)
        BY <1>0, <2>1
      <3> DEFINE both == seen \cup found
      <3>2. Cardinality(F \ both) \in Nat /\ Cardinality(F \ seen) = Cardinality(F \ both) + Cardinality(found)
        <4>1. LeavesFewer(F, seen, found)
          BY <3>1, RestIsCounted
        <4> QED
          BY <4>1 DEF LeavesFewer
      <3> QED
        BY <3>2
    <2>4. ToFind(st, F) = before /\ ToFind(next, F) = after
      BY <1>18 DEF ToFind
    <2>5. Len(queue) + ToFind(st, F) + n <= last
      BY DEF Reads
    <2> HIDE DEF before, after, found, seen, queue, F
    <2> QED
      BY <1>2, <1>8, <1>17, <2>2, <2>3, <2>4, <2>5
  <1>20. urls \subseteq next.visited \cup QueueUrls(next.queue)
    BY <1>18 DEF Reads
  <1>21. Reads(next, n + 1, files, links, robots, urls, w, last)
    BY <1>13, <1>14, <1>15, <1>16, <1>19, <1>20 DEF Reads
  <1> QED
    BY <1>2, <1>21 DEF next, file, popped

\* One entry after the other keeps all of it.
LEMMA StepIsRead ==
    ASSUME NEW files, NEW links, SitemapFiles(files, links), NEW robots, NEW urls,
           NEW w, WithinPath(files, urls, SitemapDepth, w), NEW last \in Nat, NEW n \in Nat,
           NEW st, Reads(st, n, files, links, robots, urls, w, last)
    PROVE  Reads(SitemapStep(files, robots, st), n + 1, files, links, robots, urls, w, last)
  <1> DEFINE entry == Head(st.queue)
             rest == [st EXCEPT !.queue = Tail(@)]
             next == SitemapStep(files, robots, st)
  <1>1. CASE Stopped(st)
    <2>1. next = st
      BY <1>1 DEF SitemapStep, Stopped
    <2>2. Reads(st, n + 1, files, links, robots, urls, w, last)
      BY <1>1 DEF Reads
    <2> QED
      BY <2>1, <2>2
  <1>2. CASE ~Stopped(st) /\ entry.url \in st.visited
    <2>1. next = rest
      BY <1>2 DEF SitemapStep, Stopped
    <2>2. Reads(rest, n + 1, files, links, robots, urls, w, last)
      BY <1>2, DroppedIsRead
    <2> QED
      BY <2>1, <2>2
  <1>3. CASE ~Stopped(st) /\ entry.url \notin st.visited
    <2>1. next = VisitSitemap(files[entry.url], entry, robots, rest)
      BY <1>3 DEF SitemapStep, Stopped
    <2>2. Reads(VisitSitemap(files[entry.url], entry, robots, rest), n + 1, files, links, robots, urls, w, last)
      BY <1>3, VisitedIsRead
    <2> QED
      BY <2>1, <2>2
  <1> QED
    BY <1>1, <1>2, <1>3

\* The sitemaps that are known at first wait at the first level.
LEMMA FirstIsRead ==
    ASSUME NEW files, NEW links, SitemapFiles(files, links), NEW robots, NEW starts \in Seq(DOMAIN files),
           NEW w, WithinPath(files, Range(starts), SitemapDepth, w)
    PROVE  Reads(BeforeReading(starts), 0, files, links, robots, Range(starts), w, Len(starts) + Cardinality(DOMAIN files))
  <1> DEFINE F == DOMAIN files
             st == BeforeReading(starts)
             queue == Waiting(starts)
             urls == Range(starts)
  <1>0. SitemapDepth \in Nat /\ MaxSitemaps \in Nat /\ SitemapPages \in Nat /\ IsFiniteSet(F)
    BY SiteInventoryAssumption DEF SitemapFiles
  <1>1. st.queue = queue /\ st.visited = {} /\ st.pages = <<>> /\ st.notes = {} /\ st = [queue |-> queue, visited |-> {}, pages |-> <<>>, notes |-> {}]
    BY DEF BeforeReading
  <1>2. /\ queue \in Seq(Entries(F)) /\ Len(queue) = Len(starts) /\ Len(starts) \in Nat
        /\ \A i \in 1..Len(queue) : queue[i].depth = 0 /\ queue[i].url = starts[i]
    <2>1. \A i \in 1..Len(starts) : [url |-> starts[i], depth |-> 0] \in Entries(F)
      BY DEF Entries
    <2> QED
      BY <2>1 DEF Waiting
  <1> HIDE DEF st, queue
  <1>3. QueueUrls(queue) = urls
    BY <1>2 DEF QueueUrls, Range
  <1>4. AtDepth(st, 0) = urls
    <2>1. {j \in 1..Len(queue) : queue[j].depth = 0} = 1..Len(queue)
      BY <1>2
    <2> QED
      BY <1>1, <1>3, <2>1 DEF AtDepth, QueueUrls
  <1>5. Level(st, 0, files, w)
    <2>1. w[0] = urls
      BY DEF WithinPath
    <2>2. \A i \in 1..Len(queue) : queue[i].url \in urls
      BY <1>3 DEF QueueUrls
    <2>3. Children(files, {}) = {}
      BY DEF Children
    <2> HIDE DEF urls
    <2> QED
      BY <1>0, <1>1, <1>2, <1>4, <2>1, <2>2, <2>3 DEF Level
  <1>6. st \in SitemapStates(F, PageUrls(links))
    BY <1>1, <1>2 DEF SitemapStates
  <1>7. Listed(files, {}, robots) = {} /\ Range(<<>>) = {} /\ IsInjective(<<>>) /\ Len(<<>>) = 0
    BY DEF Listed, Range, IsInjective
  <1>8. Cardinality({}) = 0
    BY FS_EmptySet
  <1>9. Len(queue) + ToFind(st, F) + 0 <= Len(starts) + Cardinality(F)
    <2> DEFINE rest == F \ (st.visited \cup QueueUrls(queue))
    <2>1. rest \subseteq F
      OBVIOUS
    <2> HIDE DEF rest, F
    <2>2. IsFiniteSet(rest) /\ Cardinality(rest) <= Cardinality(F)
      BY <1>0, <2>1, FS_Subset
    <2>3. Cardinality(rest) \in Nat /\ Cardinality(F) \in Nat
      BY <1>0, <2>2, FS_CardinalityType
    <2>4. ToFind(st, F) = Cardinality(rest)
      BY <1>1 DEF ToFind, rest
    <2> QED
      BY <1>2, <2>2, <2>3, <2>4
  <1>10. AtSomeLevel(st, files, w)
    BY <1>5 DEF AtSomeLevel
  <1>11. Reads(st, 0, files, links, robots, urls, w, Len(starts) + Cardinality(F))
    BY <1>0, <1>1, <1>3, <1>6, <1>7, <1>8, <1>9, <1>10 DEF Reads
  <1> QED
    BY <1>11 DEF st

\* When nothing waits any more, everything within the depth was read.
LEMMA NothingIsLeft ==
    ASSUME NEW files, NEW links, SitemapFiles(files, links), NEW urls,
           NEW w, WithinPath(files, urls, SitemapDepth, w), NEW st, AtSomeLevel(st, files, w),
           st.queue = <<>>, urls \subseteq st.visited
    PROVE  w[SitemapDepth] \subseteq st.visited
  <1>0. SitemapDepth \in Nat
    BY SiteInventoryAssumption
  <1>1. PICK k : Level(st, k, files, w)
    BY DEF AtSomeLevel
  <1>2. AtDepth(st, k) = {} /\ QueueUrls(st.queue) = {}
    BY DEF AtDepth, QueueUrls
  <1>3. k \in 0..SitemapDepth /\ w[k] \subseteq st.visited /\ (k < SitemapDepth => Children(files, st.visited) \subseteq st.visited)
    BY <1>1, <1>2 DEF Level
  <1>4. CASE k = SitemapDepth
    BY <1>3, <1>4
  <1>5. CASE k < SitemapDepth
    <2> DEFINE A == {n \in Nat : n <= SitemapDepth => w[n] \subseteq st.visited}
    <2>1. 0 \in A
      BY DEF WithinPath
    <2>2. ASSUME NEW n \in Nat, n \in A PROVE n + 1 \in A
      <3> SUFFICES ASSUME n + 1 <= SitemapDepth PROVE w[n + 1] \subseteq st.visited
        OBVIOUS
      <3>1. n + 1 \in 1..SitemapDepth /\ (n + 1) - 1 = n /\ w[n] \subseteq st.visited
        BY <1>0, <2>2
      <3>2. w[n + 1] = urls \cup Children(files, w[n])
        <4>1. w[n + 1] = urls \cup Children(files, w[(n + 1) - 1])
          BY <3>1 DEF WithinPath
        <4> QED
          BY <3>1, <4>1
      <3>3. Children(files, w[n]) \subseteq Children(files, st.visited)
        BY <3>1, ChildrenGrow
      <3> QED
        BY <1>3, <1>5, <3>2, <3>3
    <2> HIDE DEF A
    <2>3. SitemapDepth \in A
      BY <1>0, <2>1, <2>2, CountUp
    <2> QED
      BY <2>3 DEF A
  <1> QED
    BY <1>0, <1>3, <1>4, <1>5

\* The loop ends, and keeps all of it until then.
LEMMA ReadingIsRead ==
    ASSUME NEW files, NEW links, SitemapFiles(files, links), NEW robots, NEW starts \in Seq(DOMAIN files),
           NEW w, WithinPath(files, Range(starts), SitemapDepth, w),
           NEW last, last = Len(starts) + Cardinality(DOMAIN files)
    PROVE  Reads(ReadSitemaps(files, robots, starts), last, files, links, robots, Range(starts), w, last)
  <1> DEFINE F == DOMAIN files
             urls == Range(starts)
             Kept(s, n, m) == Reads(s, n, files, links, robots, urls, w, m)
             S == {s \in SitemapStates(F, PageUrls(links)) : \E m \in Nat : Kept(s, 0, m)}
             b == BeforeReading(starts)
  <1>1. last \in Nat
    <2>1. IsFiniteSet(F)
      BY DEF SitemapFiles
    <2>2. Cardinality(F) \in Nat
      BY <2>1, FS_CardinalityType
    <2>3. Len(starts) \in Nat
      OBVIOUS
    <2> HIDE DEF F
    <2> QED
      BY <2>2, <2>3 DEF F
  <1>2. Kept(b, 0, last)
    BY FirstIsRead
  <1>3. \A s, n, m : Kept(s, n, m) => s \in SitemapStates(F, PageUrls(links))
    BY DEF Reads
  <1>4. ASSUME NEW m \in Nat, NEW n \in Nat, NEW s, Kept(s, n, m) PROVE Kept(SitemapStep(files, robots, s), n + 1, m)
    BY <1>4, StepIsRead
  <1>5. ASSUME NEW m \in Nat, NEW s, Kept(s, 1, m) PROVE Kept(s, 0, m)
    <2>1. Len(s.queue) \in Nat /\ ToFind(s, F) \in Nat
      <3>1. s.queue \in Seq(Entries(F))
        BY <1>5 DEF Reads, SitemapStates
      <3>2. IsFiniteSet(F)
        BY DEF SitemapFiles
      <3>3. ToFind(s, F) \in Nat
        <4> HIDE DEF F
        <4>1. IsFiniteSet(F \ (s.visited \cup QueueUrls(s.queue)))
          BY <3>2, FS_Difference
        <4> QED
          BY <4>1, FS_CardinalityType DEF ToFind
      <3> QED
        BY <3>1, <3>3
    <2> QED
      BY <1>5, <2>1 DEF Reads
  <1> HIDE DEF Kept, F, urls
  <1>6. b \in S
    BY <1>1, <1>2, <1>3
  <1>7. ASSUME NEW s \in S PROVE SitemapStep(files, robots, s) \in S
    <2>1. PICK m \in Nat : Kept(s, 0, m)
      OBVIOUS
    <2>2. Kept(SitemapStep(files, robots, s), 0 + 1, m)
      BY <1>4, <2>1
    <2>3. Kept(SitemapStep(files, robots, s), 0, m)
      BY <1>5, <2>2
    <2> QED
      BY <1>3, <2>3
  <1>8. ReadPath(S, files, robots, starts, last)
    <2> HIDE DEF S
    <2> QED
      BY <1>1, <1>6, <1>7, ReadOneByOne
  <1>9. PICK g \in [0..last -> S] :
          /\ g[0] = b /\ \A n \in 1..last : g[n] = SitemapStep(files, robots, g[n - 1])
          /\ g[last] = ReadSitemaps(files, robots, starts)
    BY <1>8 DEF ReadPath
  <1> HIDE DEF S, b
  <1> DEFINE A == {n \in Nat : n <= last => Kept(g[n], n, last)}
  <1>10. 0 \in A
    BY <1>2, <1>9
  <1>11. ASSUME NEW n \in Nat, n \in A PROVE n + 1 \in A
    <2> SUFFICES ASSUME n + 1 <= last PROVE Kept(g[n + 1], n + 1, last)
      OBVIOUS
    <2>1. n + 1 \in 1..last /\ (n + 1) - 1 = n /\ Kept(g[n], n, last)
      BY <1>1, <1>11
    <2>2. g[n + 1] = SitemapStep(files, robots, g[n])
      <3>1. g[n + 1] = SitemapStep(files, robots, g[(n + 1) - 1])
        BY <1>9, <2>1
      <3> QED
        BY <2>1, <3>1
    <2> QED
      BY <1>1, <1>4, <2>1, <2>2
  <1> HIDE DEF A
  <1>12. last \in A
    BY <1>1, <1>10, <1>11, CountUp
  <1>13. Kept(g[last], last, last)
    BY <1>1, <1>12 DEF A
  <1> QED
    BY <1>9, <1>13 DEF Kept, urls

\* However the sitemaps of a site name each other, and wherever they begin: the limits hold,
\* every page that is found is named within the depth and allowed, and if no limit and no
\* unreadable file is reported all such pages have been found (discover_sitemap_urls).
THEOREM SitemapsAreAllRead ==
    ASSUME NEW files, NEW links, SitemapFiles(files, links), NEW robots, NEW starts \in Seq(DOMAIN files)
    PROVE  SitemapsAreRead(files, robots, starts)
  <1> DEFINE urls == Range(starts)
             st == ReadSitemaps(files, robots, starts)
             found == DiscoverSitemaps(files, robots, starts)
             reachable == SitemapsWithin(files, urls, SitemapDepth)
             listed == (UNION {Range(ParseSitemap(files[u]).pages) : u \in reachable}) \ robots.disallowed
             last == Len(starts) + Cardinality(DOMAIN files)
  <1>0. SitemapDepth \in Nat /\ SitemapPages \in Nat /\ MaxSitemaps \in Nat
    BY SiteInventoryAssumption
  <1>1. PICK w : WithinPath(files, urls, SitemapDepth, w)
    <2>1. urls \in SUBSET DOMAIN files
      BY DEF Range
    <2> HIDE DEF urls
    <2> QED
      BY <1>0, <2>1, WithinOneByOne
  <1>2. reachable = w[SitemapDepth]
    BY <1>1 DEF WithinPath
  <1>3. listed = Listed(files, w[SitemapDepth], robots)
    BY <1>2 DEF Listed
  <1>4. Reads(st, last, files, links, robots, urls, w, last)
    BY <1>1, ReadingIsRead
  <1>5. /\ found.visited = st.visited /\ found.pages = st.pages
        /\ found.notes = st.notes \cup (IF st.queue # <<>> /\ Cardinality(st.visited) >= MaxSitemaps
                                        THEN {"sitemap_file_limit_reached"} ELSE {})
                                  \cup (IF Len(st.pages) >= SitemapPages THEN {"sitemap_page_limit_reached"} ELSE {})
    <2> HIDE DEF st
    <2>1. st \in SitemapStates(DOMAIN files, PageUrls(links))
      BY <1>4 DEF Reads
    <2>2. found = LimitsReported(st)
      BY DEF DiscoverSitemaps, st
    <2> HIDE DEF found
    <2> QED
      BY <2>1, <2>2 DEF LimitsReported, SitemapStates
  <1> HIDE DEF st, found, reachable, listed
  <1>6. /\ Cardinality(st.visited) <= MaxSitemaps /\ Len(st.pages) <= SitemapPages /\ IsInjective(st.pages)
        /\ Range(st.pages) \subseteq Listed(files, st.visited, robots)
        /\ Len(st.pages) < SitemapPages => Listed(files, st.visited, robots) \subseteq Range(st.pages)
        /\ urls \subseteq st.visited \cup QueueUrls(st.queue) /\ st.visited \subseteq w[SitemapDepth]
        /\ AtSomeLevel(st, files, w) /\ (Stopped(st) \/ Len(st.queue) + ToFind(st, DOMAIN files) + last <= last)
        /\ st \in SitemapStates(DOMAIN files, PageUrls(links))
    BY <1>4 DEF Reads
  <1>7. Listed(files, st.visited, robots) \subseteq listed
    BY <1>3, <1>6 DEF Listed
  <1>8. ASSUME found.notes = {} PROVE Range(found.pages) = listed
    <2>1. ~(st.queue # <<>> /\ Cardinality(st.visited) >= MaxSitemaps) /\ ~(Len(st.pages) >= SitemapPages)
      BY <1>5, <1>8
    <2>2. st.queue = <<>>
      <3>1. CASE Stopped(st)
        BY <2>1, <3>1 DEF Stopped
      <3>2. CASE Len(st.queue) + ToFind(st, DOMAIN files) + last <= last
        <4>1. IsFiniteSet(DOMAIN files)
          BY DEF SitemapFiles
        <4>2. IsFiniteSet(DOMAIN files \ (st.visited \cup QueueUrls(st.queue)))
          BY <4>1, FS_Difference
        <4>3. ToFind(st, DOMAIN files) \in Nat /\ Cardinality(DOMAIN files) \in Nat
          BY <4>1, <4>2, FS_CardinalityType DEF ToFind
        <4>4. last \in Nat
          BY <4>3
        <4>5. st.queue \in Seq(Entries(DOMAIN files))
          BY <1>6 DEF SitemapStates
        <4>6. Len(st.queue) \in Nat
          BY <4>5
        <4> HIDE DEF last
        <4>7. Len(st.queue) = 0
          BY <3>2, <4>3, <4>4, <4>6
        <4> QED
          BY <4>5, <4>7
      <3> QED
        BY <1>6, <3>1, <3>2
    <2>3. urls \subseteq st.visited
      <3>1. QueueUrls(st.queue) = {}
        BY <2>2 DEF QueueUrls
      <3> QED
        BY <1>6, <3>1
    <2>4. w[SitemapDepth] \subseteq st.visited
      <3> HIDE DEF urls
      <3> QED
        BY <1>1, <1>6, <2>2, <2>3, NothingIsLeft
    <2>5. listed \subseteq Listed(files, st.visited, robots)
      BY <1>3, <2>4 DEF Listed
    <2>6. Len(st.pages) < SitemapPages
      <3>1. st.pages \in Seq(PageUrls(links))
        BY <1>6 DEF SitemapStates
      <3>2. Len(st.pages) \in Nat
        BY <3>1
      <3> QED
        BY <1>0, <2>1, <3>2
    <2> QED
      BY <1>5, <1>6, <1>7, <2>5, <2>6
  <1>9. /\ Cardinality(found.visited) <= MaxSitemaps /\ Len(found.pages) <= SitemapPages
        /\ IsInjective(found.pages) /\ Range(found.pages) \subseteq listed
        /\ found.notes = {} => Range(found.pages) = listed
    BY <1>5, <1>6, <1>7, <1>8
  <1> QED
    BY <1>9 DEF SitemapsAreRead, found, reachable, listed

=============================================================================
