---------------------------- MODULE SiteCrawlProofs ----------------------------
(***************************************************************************)
(* Proofs about the inventory of a site: whatever its pages answer, the    *)
(* crawl is sound.                                                         *)
(***************************************************************************)
EXTENDS SiteCrawl, InventoryProofs

-----------------------------------------------------------------------------
(* The ranges of the crawl's state.                                          *)

Site == Range(UrlOrder)
Sent == UNION {Answers(url) : url \in Site}
Given == {Fetched(answer, limit, prefix) : answer \in Sent, limit \in {StructuralBytes, ContactBytes}, prefix \in BOOLEAN}
Statuses == {answer.status : answer \in Given}
Finals == {answer.final : answer \in Given}
Types == {"home", "other", "contact"} \cup {ClassificationRules[i][2] : i \in DOMAIN ClassificationRules}
Sources == {"seed", "sitemap", "internal_link", "firecrawl_map"}
Cands == [url : Site, sources : SUBSET Sources, depth : Nat, kept : SUBSET Given]
Records ==
    [url : Site, sources : SUBSET Sources, depth : Nat, checked : BOOLEAN, status : Statuses,
     cut : BOOLEAN, size : Nat, final : Finals, matches : {0}, noindex : BOOLEAN, follow : BOOLEAN,
     canonical : Site \cup {NoUrl}, links : Seq(Site), contactPage : BOOLEAN, type : Types]
States ==
    [queue : Seq(Site), cands : SUBSET Cands, pages : Seq(Records), cut : BOOLEAN, seen : BOOLEAN,
     error : {"none", "extra_forbidden"}]
Outcomes == [page : Records, read : BOOLEAN]

\* The addresses that wait, and those of the pages, are each there once; what waits is in
\* the queue, may be asked for, and holds no answer but that of the home page.
SoundState(st) ==
    /\ \A c, d \in st.cands : c.url = d.url => c = d
    /\ \A c \in st.cands : /\ \E i \in 1..Len(st.queue) : st.queue[i] = c.url
                           /\ c.url = Root \/ c.url \notin Disallowed
                           /\ c.kept # {} => c.url = Root
    /\ \A i, j \in 1..Len(st.pages) : st.pages[i].url = st.pages[j].url => i = j

Waits(st, url) == \E c \in st.cands : c.url = url
HasPage(st, url) == \E i \in 1..Len(st.pages) : st.pages[i].url = url

\* A link that nothing has to be done for any more, given the addresses that were asked for.
Handled(st, asked, url) ==
    Waits(st, url) \/ HasPage(st, url) \/ url \in asked \/ SkipsContact(st, url) \/ IsAdminPage(url)

LinksCovered(st, asked) ==
    st.error = "none" /\ ~st.cut =>
        \A i \in 1..Len(st.pages) : st.pages[i].follow =>
            \A url \in Range(st.pages[i].links) \ Disallowed : Handled(st, asked, url)

Asked == {url \in Site : fetches[url] > 0}

\* How often an address was asked for or is about to be, against the pages there are.
Rounds == CASE crawlPhase = "start" -> 0 [] crawlPhase = "drain" -> 2 [] OTHER -> 3
Due(st, url) == IF \E c \in st.cands : c.url = url /\ c.kept = {} THEN 1 ELSE 0
AsksCounted == \A url \in Site : fetches[url] + Due(crawl, url) <= Len(crawl.pages) + Rounds

CrawlShape ==
    /\ crawl \in States /\ crawlPhase \in {"start", "drain", "redrain", "deep", "done", "failed"}
    /\ contacts \in Seq(Site)
    /\ deep \in [todo : Seq(Records), outcomes : Seq(Outcomes)]
    /\ fetches \in [Site -> Nat] /\ crawlMode \in Modes

\* The pages to read and those that were read are checked pages of the inventory, each once.
ReadPages == [i \in 1..Len(deep.outcomes) |-> deep.outcomes[i].page]
DeepOnce == SomePages(ReadPages \o deep.todo, CheckedPages) /\ Len(Read(deep.outcomes)) <= DeepLimit

\* What is asked for is allowed; before the start nothing was, and after it the home page was.
AskedAllowed == \A url \in Asked : url = Root \/ url \notin Disallowed
BeforeStart == crawlPhase = "start" => crawl.cands = {} /\ crawl.pages = <<>> /\ crawl.queue = <<>> /\ Asked = {}
AfterStart == crawlPhase # "start" => Root \in Asked
NothingRead == crawlPhase \in {"start", "drain", "redrain"} => deep.outcomes = <<>>
WhenReading == crawlPhase \in {"deep", "done"} => crawl.queue = <<>> /\ crawl.error = "none" /\ DeepOnce

CrawlInv ==
    /\ CrawlShape /\ SoundState(crawl) /\ LinksCovered(crawl, Asked) /\ AsksCounted /\ AskedAllowed
    /\ IsInjective(contacts) /\ BeforeStart /\ AfterStart /\ NothingRead /\ WhenReading

\* What a batch is after so many turns of its loop.
Batched(b, items, size) == FoldLeft(LAMBDA taken, url : TakeNext(taken, size), b, items)

-----------------------------------------------------------------------------
(* The loops of the crawl.                                                   *)

LinksStay(S, L, items, source, depth) == \A s \in S : \A n \in 1..L : AddCandidate(s, items[n], source, depth) \in S
LinksPath(S, b, L, items, source, depth) ==
    \E g \in [0..L -> S] :
        /\ g[0] = b /\ \A n \in 1..L : g[n] = AddCandidate(g[n - 1], items[n], source, depth)
        /\ g[L] = AddAll(b, items, source, depth)

\* The links of a page, a sitemap or the map are added one after the other (add_candidate).
LEMMA LinksOneByOne ==
    ASSUME NEW source, NEW depth, NEW S, NEW b \in S, NEW L \in Nat, NEW items, DOMAIN items = 1..L,
           LinksStay(S, L, items, source, depth)
    PROVE  LinksPath(S, b, L, items, source, depth)
  <1> USE DEF LinksStay
  <1> DEFINE step == [n \in 1..L |-> [s \in S |-> AddCandidate(s, items[n], source, depth)]]
             Is(it) == it = [s \in SUBSET (1..L) |->
                                IF s = {} THEN b ELSE AddCandidate(it[s \ {Max(s)}], items[Max(s)], source, depth)]
             iter == CHOOSE it : Is(it)
  <1>1. step \in [1..L -> [S -> S]]
    OBVIOUS
  <1>2. PICK it \in [SUBSET (1..L) -> S] : Iterates(it, b, L, step)
    <2> HIDE DEF step
    <2> QED
      BY <1>1, IterationExists
  <1>3. Is(it)
    <2>1. ASSUME NEW s \in SUBSET (1..L), s # {}
          PROVE  it[s] = AddCandidate(it[s \ {Max(s)}], items[Max(s)], source, depth)
      <3>1. Max(s) \in 1..L /\ it[s \ {Max(s)}] \in S
        BY <2>1, MaxIn
      <3> QED
        BY <1>2, <2>1, <3>1 DEF Iterates
    <2> QED
      BY <1>2, <2>1 DEF Iterates
  <1>4. Is(iter)
    <2> HIDE DEF Is
    <2> QED
      BY <1>3
  <1>5. iter[1..L] = AddAll(b, items, source, depth)
    BY DEF AddAll, FoldLeft, MapThenFoldSet
  <1>6. iter[{}] = b
    BY <1>4
  <1>7. IteratesIn(iter, b, L, step, S)
    <2>1. ASSUME NEW s \in SUBSET (1..L), s # {}, iter[s \ {Max(s)}] \in S
          PROVE  iter[s] = step[Max(s)][iter[s \ {Max(s)}]]
      <3>1. Max(s) \in 1..L
        BY <2>1, MaxIn
      <3>2. iter[s] = AddCandidate(iter[s \ {Max(s)}], items[Max(s)], source, depth)
        <4> HIDE DEF iter
        <4> QED
          BY <1>4, <2>1
      <3>3. step[Max(s)][iter[s \ {Max(s)}]] = AddCandidate(iter[s \ {Max(s)}], items[Max(s)], source, depth)
        <4> HIDE DEF iter
        <4> QED
          BY <2>1, <3>1
      <3> QED
        BY <3>2, <3>3
    <2> HIDE DEF step, iter
    <2> QED
      BY <1>6, <2>1 DEF IteratesIn
  <1> HIDE DEF iter
  <1>8. StepsTo(b, L, step, S, iter[1..L])
    <2> HIDE DEF step
    <2> QED
      BY <1>1, <1>7, IterationSteps
  <1> PICK g \in [0..L -> S] : Steps(g, b, L, step) /\ g[L] = iter[1..L]
    <2> HIDE DEF step
    <2> QED
      BY <1>8 DEF StepsTo
  <1>9. ASSUME NEW n \in 1..L PROVE g[n] = AddCandidate(g[n - 1], items[n], source, depth)
    <2>1. n - 1 \in 0..L /\ g[n - 1] \in S
      OBVIOUS
    <2>2. g[n] = step[n][g[n - 1]]
      BY DEF Steps
    <2> QED
      BY <2>1, <2>2
  <1> QED
    BY <1>5, <1>9 DEF Steps, LinksPath

RecordsStay(S, L, items) == \A s \in S : \A n \in 1..L : RecordChecked(s, items[n]) \in S
RecordsPath(S, b, L, items) ==
    \E g \in [0..L -> S] :
        /\ g[0] = b /\ \A n \in 1..L : g[n] = RecordChecked(g[n - 1], items[n])
        /\ g[L] = RecordAll(b, items)

\* The results of a batch are recorded one after the other (_drain_candidates).
LEMMA RecordsOneByOne ==
    ASSUME NEW S, NEW b \in S, NEW L \in Nat, NEW items, DOMAIN items = 1..L,
           RecordsStay(S, L, items)
    PROVE  RecordsPath(S, b, L, items)
  <1> USE DEF RecordsStay
  <1> DEFINE step == [n \in 1..L |-> [s \in S |-> RecordChecked(s, items[n])]]
             Is(it) == it = [s \in SUBSET (1..L) |->
                                IF s = {} THEN b ELSE RecordChecked(it[s \ {Max(s)}], items[Max(s)])]
             iter == CHOOSE it : Is(it)
  <1>1. step \in [1..L -> [S -> S]]
    OBVIOUS
  <1>2. PICK it \in [SUBSET (1..L) -> S] : Iterates(it, b, L, step)
    <2> HIDE DEF step
    <2> QED
      BY <1>1, IterationExists
  <1>3. Is(it)
    <2>1. ASSUME NEW s \in SUBSET (1..L), s # {}
          PROVE  it[s] = RecordChecked(it[s \ {Max(s)}], items[Max(s)])
      <3>1. Max(s) \in 1..L /\ it[s \ {Max(s)}] \in S
        BY <2>1, MaxIn
      <3> QED
        BY <1>2, <2>1, <3>1 DEF Iterates
    <2> QED
      BY <1>2, <2>1 DEF Iterates
  <1>4. Is(iter)
    <2> HIDE DEF Is
    <2> QED
      BY <1>3
  <1>5. iter[1..L] = RecordAll(b, items)
    BY DEF RecordAll, FoldLeft, MapThenFoldSet
  <1>6. iter[{}] = b
    BY <1>4
  <1>7. IteratesIn(iter, b, L, step, S)
    <2>1. ASSUME NEW s \in SUBSET (1..L), s # {}, iter[s \ {Max(s)}] \in S
          PROVE  iter[s] = step[Max(s)][iter[s \ {Max(s)}]]
      <3>1. Max(s) \in 1..L
        BY <2>1, MaxIn
      <3>2. iter[s] = RecordChecked(iter[s \ {Max(s)}], items[Max(s)])
        <4> HIDE DEF iter
        <4> QED
          BY <1>4, <2>1
      <3>3. step[Max(s)][iter[s \ {Max(s)}]] = RecordChecked(iter[s \ {Max(s)}], items[Max(s)])
        <4> HIDE DEF iter
        <4> QED
          BY <2>1, <3>1
      <3> QED
        BY <3>2, <3>3
    <2> HIDE DEF step, iter
    <2> QED
      BY <1>6, <2>1 DEF IteratesIn
  <1> HIDE DEF iter
  <1>8. StepsTo(b, L, step, S, iter[1..L])
    <2> HIDE DEF step
    <2> QED
      BY <1>1, <1>7, IterationSteps
  <1> PICK g \in [0..L -> S] : Steps(g, b, L, step) /\ g[L] = iter[1..L]
    <2> HIDE DEF step
    <2> QED
      BY <1>8 DEF StepsTo
  <1>9. ASSUME NEW n \in 1..L PROVE g[n] = RecordChecked(g[n - 1], items[n])
    <2>1. n - 1 \in 0..L /\ g[n - 1] \in S
      OBVIOUS
    <2>2. g[n] = step[n][g[n - 1]]
      BY DEF Steps
    <2> QED
      BY <2>1, <2>2
  <1> QED
    BY <1>5, <1>9 DEF Steps, RecordsPath

QueueStay(S, L, items, size) == \A s \in S : \A n \in 1..L : TakeNext(s, size) \in S
QueuePath(S, b, L, items, size) ==
    \E g \in [0..L -> S] :
        /\ g[0] = b /\ \A n \in 1..L : g[n] = TakeNext(g[n - 1], size)
        /\ g[L] = Batched(b, items, size)

\* A batch is filled from the front of the queue (_drain_candidates).
LEMMA QueueOneByOne ==
    ASSUME NEW size, NEW S, NEW b \in S, NEW L \in Nat, NEW items, DOMAIN items = 1..L,
           QueueStay(S, L, items, size)
    PROVE  QueuePath(S, b, L, items, size)
  <1> USE DEF QueueStay
  <1> DEFINE step == [n \in 1..L |-> [s \in S |-> TakeNext(s, size)]]
             Is(it) == it = [s \in SUBSET (1..L) |->
                                IF s = {} THEN b ELSE TakeNext(it[s \ {Max(s)}], size)]
             iter == CHOOSE it : Is(it)
  <1>1. step \in [1..L -> [S -> S]]
    OBVIOUS
  <1>2. PICK it \in [SUBSET (1..L) -> S] : Iterates(it, b, L, step)
    <2> HIDE DEF step
    <2> QED
      BY <1>1, IterationExists
  <1>3. Is(it)
    <2>1. ASSUME NEW s \in SUBSET (1..L), s # {}
          PROVE  it[s] = TakeNext(it[s \ {Max(s)}], size)
      <3>1. Max(s) \in 1..L /\ it[s \ {Max(s)}] \in S
        BY <2>1, MaxIn
      <3> QED
        BY <1>2, <2>1, <3>1 DEF Iterates
    <2> QED
      BY <1>2, <2>1 DEF Iterates
  <1>4. Is(iter)
    <2> HIDE DEF Is
    <2> QED
      BY <1>3
  <1>5. iter[1..L] = Batched(b, items, size)
    BY DEF Batched, FoldLeft, MapThenFoldSet
  <1>6. iter[{}] = b
    BY <1>4
  <1>7. IteratesIn(iter, b, L, step, S)
    <2>1. ASSUME NEW s \in SUBSET (1..L), s # {}, iter[s \ {Max(s)}] \in S
          PROVE  iter[s] = step[Max(s)][iter[s \ {Max(s)}]]
      <3>1. Max(s) \in 1..L
        BY <2>1, MaxIn
      <3>2. iter[s] = TakeNext(iter[s \ {Max(s)}], size)
        <4> HIDE DEF iter
        <4> QED
          BY <1>4, <2>1
      <3>3. step[Max(s)][iter[s \ {Max(s)}]] = TakeNext(iter[s \ {Max(s)}], size)
        <4> HIDE DEF iter
        <4> QED
          BY <2>1, <3>1
      <3> QED
        BY <3>2, <3>3
    <2> HIDE DEF step, iter
    <2> QED
      BY <1>6, <2>1 DEF IteratesIn
  <1> HIDE DEF iter
  <1>8. StepsTo(b, L, step, S, iter[1..L])
    <2> HIDE DEF step
    <2> QED
      BY <1>1, <1>7, IterationSteps
  <1> PICK g \in [0..L -> S] : Steps(g, b, L, step) /\ g[L] = iter[1..L]
    <2> HIDE DEF step
    <2> QED
      BY <1>8 DEF StepsTo
  <1>9. ASSUME NEW n \in 1..L PROVE g[n] = TakeNext(g[n - 1], size)
    <2>1. n - 1 \in 0..L /\ g[n - 1] \in S
      OBVIOUS
    <2>2. g[n] = step[n][g[n - 1]]
      BY DEF Steps
    <2> QED
      BY <2>1, <2>2
  <1> QED
    BY <1>5, <1>9 DEF Steps, QueuePath

-----------------------------------------------------------------------------
(* Adding links.                                                             *)

SamePage(p, q) == p.url = q.url /\ p.follow = q.follow /\ p.links = q.links

\* What adding a link leaves as it was: pages stay the pages they are, and what waits goes on to.
Follows(st, t) ==
    /\ t.error = st.error /\ t.seen = st.seen /\ (st.cut => t.cut) /\ Len(t.pages) = Len(st.pages)
    /\ \A i \in 1..Len(st.pages) : SamePage(st.pages[i], t.pages[i])
    /\ \A c \in st.cands : Waits(t, c.url)

Reached(st, link) ==
    \/ st.cut \/ Canonicalize(link) = NoUrl \/ Canonicalize(link) \in Disallowed \/ IsAdminPage(link)
    \/ Waits(st, Canonicalize(link)) \/ HasPage(st, Canonicalize(link)) \/ SkipsContact(st, Canonicalize(link))

\* The first page with an address.
LEMMA PageIsThere ==
    ASSUME NEW st \in States, NEW url, PageAt(st, url) # {}
    PROVE  Min(PageAt(st, url)) \in 1..Len(st.pages) /\ st.pages[Min(PageAt(st, url))].url = url
  <1>1. PageAt(st, url) \in SUBSET Nat /\ PageAt(st, url) \subseteq 1..Len(st.pages)
    BY DEF PageAt, States
  <1>2. Min(PageAt(st, url)) \in PageAt(st, url)
    BY <1>1, MinIn
  <1> QED
    BY <1>1, <1>2 DEF PageAt

KnownFrom(p, sources, depth) == [p EXCEPT !.sources = sources, !.depth = depth]

\* A page keeps everything but what it is known from, and how deep it is.
LEMMA RecordIsUpdated ==
    ASSUME NEW p \in Records, NEW sources \in SUBSET Sources, NEW depth \in Nat
    PROVE  /\ KnownFrom(p, sources, depth) \in Records
           /\ SamePage(p, KnownFrom(p, sources, depth))
           /\ p.sources \in SUBSET Sources /\ p.depth \in Nat /\ p.url \in Site
  BY DEF Records, SamePage, KnownFrom

Updated(st, i, sources, depth) == [st.pages EXCEPT ![i] = KnownFrom(st.pages[i], sources, depth)]
SamePages(st, pages) ==
    /\ pages \in Seq(Records) /\ Len(pages) = Len(st.pages)
    /\ \A j \in 1..Len(st.pages) : SamePage(st.pages[j], pages[j])
    /\ \A j, k \in 1..Len(pages) : pages[j].url = pages[k].url => j = k

\* The record of a page is changed in its place, the others are not (add_candidate, _drain_candidates).
LEMMA PagesAreUpdated ==
    ASSUME NEW st \in States, SoundState(st), NEW i \in 1..Len(st.pages),
           NEW sources \in SUBSET Sources, NEW depth \in Nat
    PROVE  SamePages(st, Updated(st, i, sources, depth))
  <1> DEFINE pages == Updated(st, i, sources, depth)
  <1>1. st.pages \in Seq(Records)
    BY DEF States
  <1> DEFINE q == KnownFrom(st.pages[i], sources, depth)
  <1>2. q \in Records /\ SamePage(st.pages[i], q)
    <2>1. st.pages[i] \in Records
      BY <1>1
    <2> QED
      BY <2>1, RecordIsUpdated
  <1>6. pages = [st.pages EXCEPT ![i] = q]
    BY DEF Updated
  <1> HIDE DEF q, pages
  <1>3. pages \in Seq(Records) /\ Len(pages) = Len(st.pages)
    BY <1>1, <1>2, <1>6
  <1>4. ASSUME NEW j \in 1..Len(st.pages) PROVE SamePage(st.pages[j], pages[j])
    <2>1. CASE j = i
      BY <1>1, <1>2, <1>6, <2>1
    <2>2. CASE j # i
      BY <1>1, <1>6, <2>2 DEF SamePage
    <2> QED
      BY <2>1, <2>2
  <1>5. \A j, k \in 1..Len(pages) : pages[j].url = pages[k].url => j = k
    BY <1>3, <1>4 DEF SamePage, SoundState
  <1> QED
    BY <1>3, <1>4, <1>5 DEF SamePages, pages

\* add_candidate keeps the addresses apart, loses nothing, and leaves the link behind.
LEMMA AddCandidateKeeps ==
    ASSUME NEW st \in States, SoundState(st), NEW link, Canonicalize(link) \in Site \cup {NoUrl},
           NEW source \in Sources, source # "seed", NEW depth \in Nat,
           NEW t, t = AddCandidate(st, link, source, depth)
    PROVE  t \in States /\ SoundState(t) /\ Follows(st, t) /\ Reached(t, link)
  <1> DEFINE url == Canonicalize(link)
             known == {c \in st.cands : c.url = url}
             here == PageAt(st, url)
             early == \/ SkipsContact(st, url) \/ url = NoUrl
                      \/ SamplingQuality /\ IsAdminPage(link)
                      \/ source # "seed" /\ url \in Disallowed
  <1>a. st.queue \in Seq(Site) /\ st.cands \subseteq Cands /\ st.pages \in Seq(Records) /\ st.cut \in BOOLEAN
        /\ st.error \in {"none", "extra_forbidden"} /\ st.seen \in BOOLEAN
    BY DEF States
  <1>b. Follows(st, st)
    BY <1>a DEF Follows, SamePage, Waits
  <1>1. CASE early
    <2>1. t = st
      BY <1>1 DEF AddCandidate
    <2> QED
      BY <1>1, <1>b, <2>1 DEF Reached
  <1>2. CASE ~early /\ here # {}
    <2> DEFINE i == Min(here)
    <2>1. t = [st EXCEPT !.pages[i].sources = @ \cup {source}]
      BY <1>2 DEF AddCandidate
    <2>2. i \in 1..Len(st.pages) /\ st.pages[i].url = url
      BY <1>2, PageIsThere
    <2> HIDE DEF i
    <2>3. st.pages[i] \in Records
      BY <1>a, <2>2
    <2>4. st.pages[i].sources \cup {source} \in SUBSET Sources /\ st.pages[i].depth \in Nat
      BY <2>3, RecordIsUpdated
    <2>5. [st.pages[i] EXCEPT !.sources = @ \cup {source}]
            = KnownFrom(st.pages[i], st.pages[i].sources \cup {source}, st.pages[i].depth)
      BY <2>3 DEF Records, KnownFrom
    <2>6. t = [st EXCEPT !.pages = [st.pages EXCEPT ![i] = [st.pages[i] EXCEPT !.sources = @ \cup {source}]]]
      BY <1>a, <2>1, <2>2
    <2> DEFINE more == st.pages[i].sources \cup {source}
               level == st.pages[i].depth
               pages == Updated(st, i, more, level)
    <2>7. t = [st EXCEPT !.pages = pages]
      BY <2>5, <2>6 DEF Updated
    <2>8. SamePages(st, pages)
      <3> HIDE DEF more, level
      <3> QED
        BY <2>2, <2>4, PagesAreUpdated DEF more, level
    <2>9. t.pages = pages /\ t.queue = st.queue
          /\ t.cut = st.cut /\ t.error = st.error /\ t.seen = st.seen /\ t.cands = st.cands /\ t \in States /\ SoundState(t)
      <3>1. t = [st EXCEPT !.pages = pages]
        BY <2>7
      <3> HIDE DEF pages
      <3>2. t.pages = pages /\ t.queue = st.queue
            /\ t.cut = st.cut /\ t.error = st.error /\ t.seen = st.seen /\ t.cands = st.cands /\ t \in States
        BY <2>8, <3>1 DEF States, SamePages
      <3> QED
        BY <2>8, <3>2 DEF SoundState, SamePages
    <2> HIDE DEF pages
    <2>10. Follows(st, t)
      BY <2>8, <2>9 DEF Follows, Waits, SamePages
    <2>11. HasPage(t, url)
      BY <2>2, <2>8, <2>9 DEF HasPage, SamePage, SamePages
    <2> QED
      BY <2>9, <2>10, <2>11 DEF Reached
  <1>3. CASE ~early /\ here = {} /\ known # {}
    <2> DEFINE found == {[c EXCEPT !.sources = @ \cup {source}, !.depth = Min({@, depth})] : c \in known}
    <2>1. t = [st EXCEPT !.cands = (@ \ known) \cup found]
      BY <1>3 DEF AddCandidate
    <2>2. ASSUME NEW c \in known
          PROVE  /\ [c EXCEPT !.sources = @ \cup {source}, !.depth = Min({@, depth})] \in Cands
                 /\ [c EXCEPT !.sources = @ \cup {source}, !.depth = Min({@, depth})].url = c.url
                 /\ [c EXCEPT !.sources = @ \cup {source}, !.depth = Min({@, depth})].kept = c.kept
      <3>1. c \in Cands /\ {c.depth, depth} \in SUBSET Nat /\ {c.depth, depth} # {}
        BY <1>a DEF Cands
      <3>2. Min({c.depth, depth}) \in Nat
        BY <3>1, MinIn
      <3> QED
        BY <3>1, <3>2 DEF Cands
    <2>3. found \subseteq Cands /\ \A d \in found : \E c \in known : d.url = c.url /\ d.kept = c.kept
      BY <2>2
    <2>4. \A c \in known : \E d \in found : d.url = c.url
      BY <2>2
    <2>5. ASSUME NEW c \in found, NEW d \in found PROVE c = d
      <3>1. \A e, f \in known : e = f
        BY DEF SoundState
      <3> QED
        BY <3>1
    <2> HIDE DEF found
    <2>6. t \in States /\ t.queue = st.queue /\ t.pages = st.pages /\ t.cut = st.cut /\ t.error = st.error /\ t.seen = st.seen
          /\ t.cands = (st.cands \ known) \cup found
      BY <1>a, <2>1, <2>3 DEF States
    <2>7. SoundState(t)
      BY <2>3, <2>5, <2>6 DEF SoundState
    <2>8. Follows(st, t)
      BY <2>4, <2>6, <1>b DEF Follows, Waits
    <2>9. Waits(t, url)
      BY <1>3, <2>8 DEF Follows
    <2> QED
      BY <2>6, <2>7, <2>8, <2>9 DEF Reached
  <1>4. CASE ~early /\ here = {} /\ known = {} /\ Len(st.pages) + Cardinality(st.cands) >= DiscoveryLimit
    <2>1. t = [st EXCEPT !.cut = TRUE]
      BY <1>4 DEF AddCandidate
    <2>2. t \in States /\ t.queue = st.queue /\ t.pages = st.pages /\ t.cut /\ t.error = st.error /\ t.seen = st.seen /\ t.cands = st.cands
      BY <1>a, <2>1 DEF States
    <2> QED
      BY <1>b, <2>2 DEF SoundState, Follows, Reached, Waits
  <1>5. CASE ~early /\ here = {} /\ known = {} /\ ~(Len(st.pages) + Cardinality(st.cands) >= DiscoveryLimit)
    <2> DEFINE new == Candidate(url, source, depth)
    <2>1. t = [st EXCEPT !.cands = @ \cup {new}, !.queue = Append(@, url)]
      BY <1>5 DEF AddCandidate
    <2>2. url \in Site /\ (url = Root \/ url \notin Disallowed)
      BY <1>5
    <2>3. new \in Cands /\ new.url = url /\ new.kept = {}
      BY <2>2 DEF Candidate, Cands
    <2> HIDE DEF new
    <2>4. t \in States /\ t.queue = Append(st.queue, url) /\ t.pages = st.pages /\ t.cut = st.cut /\ t.error = st.error /\ t.seen = st.seen
          /\ t.cands = st.cands \cup {new}
      <3>1. Append(st.queue, url) \in Seq(Site)
        BY <1>a, <2>2
      <3>2. st.cands \cup {new} \in SUBSET Cands
        BY <1>a, <2>3
      <3> QED
        BY <2>1, <3>1, <3>2 DEF States
    <2>5. ASSUME NEW c \in t.cands PROVE \E i \in 1..Len(t.queue) : t.queue[i] = c.url
      <3>1. CASE c = new
        BY <1>a, <2>2, <2>3, <2>4, <3>1
      <3>2. CASE c # new
        <4>1. PICK i \in 1..Len(st.queue) : st.queue[i] = c.url
          BY <2>4, <3>2 DEF SoundState
        <4>2. i \in 1..Len(t.queue) /\ t.queue[i] = st.queue[i]
          BY <1>a, <2>2, <2>4, <4>1
        <4> QED
          BY <4>1, <4>2
      <3> QED
        BY <3>1, <3>2
    <2>6. SoundState(t)
      BY <1>5, <2>2, <2>3, <2>4, <2>5 DEF SoundState
    <2>7. Follows(st, t)
      BY <2>4, <1>b DEF Follows, Waits
    <2>8. Waits(t, url)
      BY <2>3, <2>4 DEF Waits
    <2> QED
      BY <2>4, <2>6, <2>7, <2>8 DEF Reached
  <1> QED
    BY <1>1, <1>2, <1>3, <1>4, <1>5

\* What one link leaves as it was and the next one too, both leave.
LEMMA FollowsOn ==
    ASSUME NEW s \in States, NEW t \in States, NEW u \in States, Follows(s, t), Follows(t, u)
    PROVE  Follows(s, u)
  BY DEF Follows, SamePage, Waits, States

\* A page that has a record goes on to have it.
LEMMA HasPageStays ==
    ASSUME NEW s, NEW t, Follows(s, t), NEW url, HasPage(s, url)
    PROVE  HasPage(t, url)
  BY DEF Follows, SamePage, HasPage

\* A link that was taken care of stays so while others are added.
LEMMA ReachedStays ==
    ASSUME NEW s, NEW t, Follows(s, t), NEW link, Reached(s, link)
    PROVE  Reached(t, link)
  <1>1. CASE HasPage(s, Canonicalize(link))
    BY <1>1, HasPageStays DEF Reached
  <1>2. CASE Waits(s, Canonicalize(link))
    BY <1>2 DEF Reached, Follows, Waits
  <1>3. CASE ~HasPage(s, Canonicalize(link)) /\ ~Waits(s, Canonicalize(link))
    BY <1>3 DEF Reached, Follows, SkipsContact
  <1> QED
    BY <1>1, <1>2, <1>3

\* Of a list of links, none is forgotten.
LEMMA AddAllKeeps ==
    ASSUME NEW st \in States, SoundState(st), NEW L \in Nat, NEW links, DOMAIN links = 1..L,
           \A n \in 1..L : Canonicalize(links[n]) \in Site \cup {NoUrl},
           NEW source \in Sources, source # "seed", NEW depth \in Nat, NEW t, t = AddAll(st, links, source, depth)
    PROVE  t \in States /\ SoundState(t) /\ Follows(st, t) /\ \A n \in 1..L : Reached(t, links[n])
  <1> DEFINE S == {s \in States : SoundState(s) /\ Follows(st, s)}
  <1>1. st \in S
    BY DEF Follows, SamePage, Waits
  <1>2. ASSUME NEW s \in S, NEW n \in 1..L
        PROVE  AddCandidate(s, links[n], source, depth) \in S /\ Follows(s, AddCandidate(s, links[n], source, depth))
               /\ Reached(AddCandidate(s, links[n], source, depth), links[n])
    <2> DEFINE next == AddCandidate(s, links[n], source, depth)
    <2>1. next \in States /\ SoundState(next) /\ Follows(s, next) /\ Reached(next, links[n])
      <3>1. s \in States /\ SoundState(s) /\ Canonicalize(links[n]) \in Site \cup {NoUrl}
        OBVIOUS
      <3> HIDE DEF S
      <3> QED
        BY <3>1, AddCandidateKeeps
    <2>2. Follows(st, next)
      BY <2>1, FollowsOn
    <2> QED
      BY <2>1, <2>2
  <1>3. PICK g \in [0..L -> S] :
              /\ g[0] = st /\ \A n \in 1..L : g[n] = AddCandidate(g[n - 1], links[n], source, depth)
              /\ g[L] = t
    <2>1. LinksStay(S, L, links, source, depth)
      BY <1>2 DEF LinksStay
    <2>2. LinksPath(S, st, L, links, source, depth)
      <3> HIDE DEF S
      <3> QED
        BY <1>1, <2>1, LinksOneByOne
    <2> QED
      BY <2>2 DEF LinksPath
  <1> DEFINE A == {n \in Nat : n <= L => \A m \in 1..n : Reached(g[n], links[m])}
  <1>4. 0 \in A
    OBVIOUS
  <1>5. ASSUME NEW n \in Nat, n \in A PROVE n + 1 \in A
    <2> SUFFICES ASSUME n + 1 <= L PROVE \A m \in 1..(n + 1) : Reached(g[n + 1], links[m])
      OBVIOUS
    <2>1. n \in 0..L /\ n + 1 \in 1..L /\ (n + 1) - 1 = n
      OBVIOUS
    <2>2. g[n] \in S /\ g[n + 1] = AddCandidate(g[n], links[n + 1], source, depth)
      BY <1>3, <2>1
    <2>3. Follows(g[n], g[n + 1]) /\ Reached(g[n + 1], links[n + 1])
      <3> HIDE DEF S
      <3> QED
        BY <1>2, <2>1, <2>2
    <2>4. ASSUME NEW m \in 1..n PROVE Reached(g[n + 1], links[m])
      <3>1. Reached(g[n], links[m])
        BY <1>5, <2>1
      <3> QED
        BY <2>3, <3>1, ReachedStays
    <2>5. \A m \in 1..(n + 1) : m \in 1..n \/ m = n + 1
      OBVIOUS
    <2> QED
      BY <2>3, <2>4, <2>5
  <1> HIDE DEF A
  <1>6. L \in A
    BY <1>4, <1>5, CountUp
  <1>7. \A m \in 1..L : Reached(g[L], links[m])
    BY <1>6 DEF A
  <1>8. g[L] \in S
    OBVIOUS
  <1> QED
    BY <1>3, <1>7, <1>8

-----------------------------------------------------------------------------
(* What a page answers.                                                      *)

\* The addresses of the links that are named are addresses of the site (_extract_links).
LEMMA AddressesAreOfTheSite ==
    ASSUME NEW links, NamesPages(links)
    PROVE  Addresses(links, TRUE) \in Seq(Site) /\ IsInjective(Addresses(links, TRUE))
  <1> DEFINE urls == [i \in DOMAIN links |-> Canonicalize(links[i])]
  <1>1. links \in Seq(Range(links))
    BY DEF NamesPages
  <1>2. DOMAIN urls = 1..Len(links) /\ Len(links) \in Nat
    BY <1>1
  <1>3. ASSUME NEW n \in 1..Len(links) PROVE urls[n] \in Site \cup {NoUrl}
    BY <1>1 DEF NamesPages, Range, Site
  <1>4. Addresses(links, TRUE) = EachOnce(urls)
    BY DEF Addresses
  <1> HIDE DEF urls
  <1> QED
    BY <1>2, <1>3, <1>4, EachOnceIsSo

\* Whatever is kept of an answer has the form that the parser gives it.
LEMMA AnswersNamePages ==
    ASSUME NEW answer \in Given
    PROVE  /\ answer.ok \in BOOLEAN /\ answer.truncated \in BOOLEAN /\ answer.size \in Nat /\ NamesPages(answer.links)
           /\ answer.canonical \in Site \cup {NoUrl} /\ answer.status \in Statuses /\ answer.final \in Finals
  <1>1. PICK sent \in Sent, limit \in {StructuralBytes, ContactBytes}, prefix \in BOOLEAN : answer = Fetched(sent, limit, prefix)
    BY DEF Given
  <1>2. IsAnswer(sent)
    BY SiteCrawlAssumption DEF Sent, Site
  <1> DEFINE got == sent.ok /\ (prefix \/ sent.size <= limit)
             over == sent.size > limit
  <1>3. answer = [sent EXCEPT !.ok = got, !.truncated = over]
    BY <1>1 DEF Fetched
  <1>4. got \in BOOLEAN /\ over \in BOOLEAN
    BY <1>2 DEF IsAnswer
  <1> HIDE DEF got, over
  <1>5. /\ answer.ok = got /\ answer.truncated = over /\ answer.size = sent.size /\ answer.links = sent.links
        /\ answer.canonical = sent.canonical
    BY <1>2, <1>3 DEF IsAnswer
  <1> QED
    BY <1>2, <1>4, <1>5 DEF IsAnswer, Statuses, Finals, Site

\* A page has one of the types that the rules name (classify_page).
LEMMA ClassifiedIsOfTypes == ASSUME NEW url, NEW signals PROVE ClassifyPage(url, signals) \in Types
  <1> DEFINE hits == {i \in DOMAIN ClassificationRules : ClassificationRules[i][1] \in signals}
  <1>1. DOMAIN ClassificationRules = 1..17
    BY DEF ClassificationRules
  <1>2. hits # {} => Min(hits) \in DOMAIN ClassificationRules
    <2>1. hits \in SUBSET Nat /\ hits \subseteq DOMAIN ClassificationRules
      BY <1>1
    <2> HIDE DEF hits
    <2> QED
      BY <2>1, MinIn
  <1>3. CASE url = Root
    BY <1>3 DEF ClassifyPage, Types
  <1>4. CASE url # Root /\ hits = {}
    BY <1>4 DEF ClassifyPage, Types
  <1>5. CASE url # Root /\ hits # {}
    <2>1. ClassifyPage(url, signals) = ClassificationRules[Min(hits)][2]
      BY <1>5 DEF ClassifyPage
    <2> HIDE DEF hits
    <2> QED
      BY <1>2, <1>5, <2>1 DEF Types
  <1> QED
    BY <1>3, <1>4, <1>5

\* So has a page that was wanted as a contact page (_check_candidate).
LEMMA CheckedTypeIsOfTypes == ASSUME NEW url, NEW signals PROVE CheckedType(url, signals) \in Types
  <1> DEFINE type == ClassifyPage(url, signals)
  <1>1. type \in Types /\ "contact" \in Types /\ "other" \in Types
    BY ClassifiedIsOfTypes DEF Types
  <1>2. CheckedType(url, signals) \in {type, "contact", "other"}
    <2> HIDE DEF type
    <2>1. CheckedType(url, signals) = CASE url \notin Range(contacts) -> type
          [] url \in Range(contacts) /\ {"contact_page", "contact_heading"} \cap signals # {} -> "contact"
          [] OTHER -> IF type = "contact" THEN "other" ELSE type
      BY DEF CheckedType, type
    <2> QED
      BY <2>1
  <1> HIDE DEF type
  <1> QED
    BY <1>1, <1>2

\* _check_candidate makes a record of every answer.
LEMMA CheckedIsRecord ==
    ASSUME NEW cand \in Cands, NEW response \in Given
    PROVE  /\ Checked(cand, response) \in Records /\ Checked(cand, response).url = cand.url
           /\ Checked(cand, response).sources = cand.sources
  <1>1. /\ cand.url \in Site /\ cand.sources \in SUBSET Sources /\ cand.depth \in Nat
    BY DEF Cands
  <1>2. /\ response.ok \in BOOLEAN /\ response.truncated \in BOOLEAN /\ response.size \in Nat
        /\ response.canonical \in Site \cup {NoUrl} /\ response.status \in Statuses /\ response.final \in Finals
    BY AnswersNamePages
  <1>3. Addresses(response.links, TRUE) \in Seq(Site)
    BY AnswersNamePages, AddressesAreOfTheSite
  <1> DEFINE whole == response.ok /\ ~response.truncated
             shown == CheckedType(cand.url, response.signals)
             alone == ClassifyPage(cand.url, {})
             type == CASE whole -> shown [] response.ok /\ ~whole -> alone [] OTHER -> "other"
             noindex == whole /\ "noindex" \in response.robots
             follow == response.ok /\ (whole => "nofollow" \notin response.robots)
             canonical == IF whole THEN response.canonical ELSE NoUrl
             links == IF response.ok THEN Addresses(response.links, TRUE) ELSE <<>>
             contactPage == whole /\ "contact_page" \in response.signals
  <1>5. type \in Types
    <2>1. shown \in Types /\ alone \in Types /\ "other" \in Types
      BY ClassifiedIsOfTypes, CheckedTypeIsOfTypes DEF Types
    <2> HIDE DEF shown, alone
    <2>2. type \in {shown, alone, "other"}
      OBVIOUS
    <2> HIDE DEF type
    <2> QED
      BY <2>1, <2>2
  <1>6. Checked(cand, response) =
        [url |-> cand.url, sources |-> cand.sources, depth |-> cand.depth, checked |-> response.ok,
         status |-> response.status, cut |-> response.truncated, size |-> response.size, final |-> response.final,
         matches |-> 0, noindex |-> noindex, follow |-> follow, canonical |-> canonical, links |-> links,
         contactPage |-> contactPage, type |-> type]
    BY DEF Checked
  <1>7. noindex \in BOOLEAN /\ follow \in BOOLEAN /\ contactPage \in BOOLEAN
    BY <1>2
  <1>8. canonical \in Site \cup {NoUrl}
    <2>1. canonical \in {response.canonical, NoUrl}
      OBVIOUS
    <2> HIDE DEF canonical
    <2> QED
      BY <1>2, <2>1
  <1>9. links \in Seq(Site)
    <2>1. links \in {Addresses(response.links, TRUE), <<>>}
      OBVIOUS
    <2>2. <<>> \in Seq(Site)
      OBVIOUS
    <2> HIDE DEF links
    <2> QED
      BY <1>3, <2>1, <2>2
  <1> HIDE DEF type, noindex, follow, canonical, links, contactPage
  <1> QED
    BY <1>1, <1>2, <1>3, <1>5, <1>6, <1>7, <1>8, <1>9 DEF Records

-----------------------------------------------------------------------------
(* Recording the results of a batch.                                         *)

\* What recording a page never does: it drops no record, and lets nothing wait anew
\* unless there is one record more.
Recorded(st, t) ==
    /\ Len(st.pages) <= Len(t.pages)
    /\ Len(st.pages) = Len(t.pages) => t.cands \subseteq st.cands

\* A link that is to be followed is the address that it was parsed to.
LEMMA LinksAreAddresses ==
    ASSUME NEW url \in Site
    PROVE  Canonicalize(LinkTo(url)) = url /\ url # NoUrl /\ (IsAdminPage(LinkTo(url)) <=> IsAdminPage(url))
  BY SiteCrawlAssumption DEF Site, IsAdminPage, LinkTo

\* The union of what several candidates are known from.
LEMMA MergedIsOfCands ==
    ASSUME NEW cands \in SUBSET Cands, NEW sources \in SUBSET Sources, NEW depth \in Nat
    PROVE  /\ sources \cup UNION {c.sources : c \in cands} \in SUBSET Sources
           /\ Min({depth} \cup {c.depth : c \in cands}) \in Nat
  <1>1. \A c \in cands : c.sources \in SUBSET Sources /\ c.depth \in Nat
    BY DEF Cands
  <1> DEFINE depths == {depth} \cup {c.depth : c \in cands}
  <1>2. depths \in SUBSET Nat /\ depths # {}
    BY <1>1
  <1>3. Min(depths) \in Nat
    <2> HIDE DEF depths
    <2> QED
      BY <1>2, MinIn
  <1> QED
    BY <1>1, <1>3

\* Merging a result with the candidate or the record that has its address keeps the crawl
\* sound, and the links of a page that may be followed are reached (_drain_candidates).
LEMMA RecordCheckedKeeps ==
    ASSUME NEW st \in States, SoundState(st), NEW asked, LinksCovered(st, asked), NEW record \in Records,
           NEW t, t = RecordChecked(st, record)
    PROVE  t \in States /\ SoundState(t) /\ LinksCovered(t, asked) /\ Recorded(st, t)
  <1> DEFINE chosen == IF "seed" \notin record.sources /\ record.canonical # NoUrl THEN record.canonical ELSE record.url
             alias == IF chosen = record.url THEN {} ELSE {c \in st.cands : c.url = chosen}
             sources == record.sources \cup UNION {c.sources : c \in alias}
             depth == Min({record.depth} \cup {c.depth : c \in alias})
             here == PageAt(st, chosen)
             popped == [st EXCEPT !.cands = @ \ alias]
             stored == [record EXCEPT !.url = chosen, !.sources = sources, !.depth = depth]
             listed == [popped EXCEPT !.pages = Append(@, stored), !.seen = @ \/ Confirms(record)]
             links == LinksTo(record.links)
  <1>a. st.queue \in Seq(Site) /\ st.cands \subseteq Cands /\ st.pages \in Seq(Records) /\ st.cut \in BOOLEAN
        /\ st.error \in {"none", "extra_forbidden"} /\ st.seen \in BOOLEAN
    BY DEF States
  <1>b. /\ record.url \in Site /\ record.sources \in SUBSET Sources /\ record.depth \in Nat
        /\ record.canonical \in Site \cup {NoUrl} /\ record.links \in Seq(Site) /\ record.follow \in BOOLEAN
    BY DEF Records
  <1>c. chosen \in Site
    BY <1>b
  <1>d. alias \subseteq st.cands /\ alias \in SUBSET Cands /\ \A c \in alias : c.url = chosen
    BY <1>a
  <1>e. sources \in SUBSET Sources /\ depth \in Nat
    <2> HIDE DEF alias
    <2> QED
      BY <1>b, <1>d, MergedIsOfCands
  <1>f. stored \in Records /\ stored.url = chosen /\ stored.follow = record.follow /\ stored.links = record.links
    <2> HIDE DEF chosen, sources, depth
    <2> QED
      BY <1>c, <1>e DEF Records
  <1>g. /\ popped \in States /\ popped.queue = st.queue /\ popped.pages = st.pages /\ popped.cut = st.cut
        /\ popped.error = st.error /\ popped.seen = st.seen /\ popped.cands = st.cands \ alias
    <2> HIDE DEF alias
    <2> QED
      BY <1>a, <1>d DEF States
  <1>h. SoundState(popped)
    BY <1>g DEF SoundState
  <1>i. \A url : Waits(st, url) => Waits(popped, url) \/ url = chosen
    <2> HIDE DEF alias, popped, chosen
    <2> QED
      BY <1>d, <1>g DEF Waits
  <1>j. t = CASE st.error # "none" -> st
          [] st.error = "none" /\ here # {} ->
                [popped EXCEPT !.pages[Min(here)].sources = @ \cup sources, !.pages[Min(here)].depth = Min({@, depth})]
          [] st.error = "none" /\ here = {} /\ chosen # record.url /\ crawlMode # "v1" ->
                [popped EXCEPT !.error = "extra_forbidden"]
          [] OTHER ->
                IF ~record.follow THEN listed
                ELSE AddAll(listed, links, "internal_link", depth + 1)
    BY DEF RecordChecked
  <1> HIDE DEF chosen, alias, sources, depth, here, popped, stored
  <1>1. CASE st.error # "none"
    BY <1>1, <1>a, <1>j DEF Recorded
  <1>2. CASE st.error = "none" /\ here # {}
    <2> DEFINE i == Min(here)
    <2>1. t = [popped EXCEPT !.pages[i].sources = @ \cup sources, !.pages[i].depth = Min({@, depth})]
      BY <1>2, <1>j
    <2>2. i \in 1..Len(st.pages) /\ st.pages[i].url = chosen
      BY <1>2, PageIsThere DEF here
    <2> HIDE DEF i
    <2>3. st.pages[i] \in Records
      BY <1>a, <2>2
    <2>4. /\ st.pages[i].sources \in SUBSET Sources /\ st.pages[i].depth \in Nat
          /\ {st.pages[i].depth, depth} \in SUBSET Nat /\ {st.pages[i].depth, depth} # {}
      BY <2>3, <1>e, RecordIsUpdated
    <2> DEFINE more == st.pages[i].sources \cup sources
               level == Min({st.pages[i].depth, depth})
               pages == Updated(popped, i, more, level)
    <2>5. more \in SUBSET Sources /\ level \in Nat
      BY <1>e, <2>4, MinIn
    <2>6. [[st.pages[i] EXCEPT !.sources = @ \cup sources] EXCEPT !.depth = Min({@, depth})]
            = KnownFrom(st.pages[i], more, level)
      BY <2>3 DEF Records, KnownFrom
    <2>7. t = [popped EXCEPT !.pages = pages]
      <3> DEFINE q == [st.pages[i] EXCEPT !.sources = @ \cup sources]
                 once == [st.pages EXCEPT ![i] = q]
                 s == [popped EXCEPT !.pages = once]
                 r == [q EXCEPT !.depth = Min({@, depth})]
      <3>1. t = [s EXCEPT !.pages[i].depth = Min({@, depth})]
        <4>1. s = [popped EXCEPT !.pages[i].sources = @ \cup sources]
          BY <1>a, <1>g, <2>2
        <4>2. t = [[popped EXCEPT !.pages[i].sources = @ \cup sources] EXCEPT !.pages[i].depth = Min({popped.pages[i].depth, depth})]
          <5> HIDE DEF s
          <5> QED
            BY <2>1
        <4>3. s.pages[i].depth = popped.pages[i].depth
          BY <1>a, <1>g, <2>2, <2>3 DEF States, Records
        <4> HIDE DEF s
        <4> QED
          BY <4>1, <4>2, <4>3
      <3>2. s.pages = once /\ once[i] = q
        <4> HIDE DEF q
        <4> QED
          BY <1>a, <1>g, <2>2 DEF States
      <3>3. t = [popped EXCEPT !.pages = [once EXCEPT ![i] = r]]
        <4>1. t = [s EXCEPT !.pages = [once EXCEPT ![i] = r]]
          <5> HIDE DEF once, q, s
          <5> QED
            BY <3>1, <3>2
        <4> HIDE DEF once, q
        <4> QED
          BY <4>1
      <3>4. [once EXCEPT ![i] = r] = [st.pages EXCEPT ![i] = r]
        <4> HIDE DEF q, r
        <4> QED
          BY <1>a, <2>2
      <3> QED
        BY <1>g, <2>6, <3>3, <3>4 DEF Updated
    <2>8. SamePages(popped, pages)
      <3> HIDE DEF more, level
      <3> QED
        BY <1>g, <1>h, <2>2, <2>5, PagesAreUpdated
    <2> HIDE DEF pages
    <2>9. t.pages = pages /\ t.queue = st.queue /\ t.cut = st.cut /\ t.error = st.error /\ t.seen = st.seen
          /\ t.cands = popped.cands /\ t \in States
      BY <1>g, <2>7, <2>8 DEF States, SamePages
    <2>10. SoundState(t)
      BY <1>g, <1>h, <2>8, <2>9 DEF SoundState, SamePages
    <2>11. Recorded(st, t)
      BY <1>g, <2>8, <2>9 DEF Recorded, SamePages
    <2>12. \A url : HasPage(st, url) => HasPage(t, url)
      BY <1>g, <2>8, <2>9 DEF HasPage, SamePages, SamePage
    <2>13. HasPage(t, chosen)
      BY <2>2, <2>12 DEF HasPage
    <2>14. \A url : Handled(st, asked, url) => Handled(t, asked, url)
      BY <1>i, <2>9, <2>12, <2>13 DEF Handled, Waits, SkipsContact
    <2>15. LinksCovered(t, asked)
      BY <1>g, <2>8, <2>9, <2>14 DEF LinksCovered, SamePages, SamePage
    <2> QED
      BY <2>9, <2>10, <2>11, <2>15
  <1>3. CASE st.error = "none" /\ here = {} /\ chosen # record.url /\ crawlMode # "v1"
    <2>1. t = [popped EXCEPT !.error = "extra_forbidden"]
      BY <1>3, <1>j
    <2>2. /\ t \in States /\ t.queue = popped.queue /\ t.pages = popped.pages /\ t.cands = popped.cands
          /\ t.error = "extra_forbidden"
      BY <1>g, <2>1 DEF States
    <2> QED
      BY <1>a, <1>g, <1>h, <2>2 DEF SoundState, LinksCovered, Recorded
  <1>4. CASE st.error = "none" /\ here = {} /\ ~(chosen # record.url /\ crawlMode # "v1")
    <2>1. t = IF ~record.follow THEN listed ELSE AddAll(listed, links, "internal_link", depth + 1)
      BY <1>4, <1>j
    <2>2. /\ listed.pages = Append(st.pages, stored) /\ listed.queue = st.queue /\ listed.cut = st.cut
          /\ listed.error = st.error /\ listed.cands = popped.cands /\ (st.seen => listed.seen)
          /\ listed.pages \in Seq(Records) /\ listed \in States
      <3>1. Append(st.pages, stored) \in Seq(Records)
        BY <1>a, <1>f
      <3> DEFINE seen == popped.seen \/ Confirms(record)
      <3>2. seen \in BOOLEAN /\ (st.seen => seen) /\ listed = [popped EXCEPT !.pages = Append(@, stored), !.seen = seen]
        BY <1>a, <1>g
      <3> HIDE DEF seen, listed
      <3> QED
        BY <1>g, <3>1, <3>2 DEF States
    <2> HIDE DEF listed
    <2>3. /\ Len(listed.pages) = Len(st.pages) + 1 /\ Len(st.pages) \in Nat
          /\ listed.pages[Len(st.pages) + 1] = stored
          /\ \A k \in 1..Len(st.pages) : listed.pages[k] = st.pages[k]
          /\ \A k \in 1..Len(listed.pages) : k \in 1..Len(st.pages) \/ k = Len(st.pages) + 1
      BY <1>a, <1>f, <2>2
    <2>4. \A k \in 1..Len(st.pages) : st.pages[k].url # chosen
      BY <1>4, <1>a DEF here, PageAt
    <2>5. SoundState(listed)
      <3>1. \A k, l \in 1..Len(listed.pages) : listed.pages[k].url = listed.pages[l].url => k = l
        BY <1>f, <2>3, <2>4 DEF SoundState
      <3> QED
        BY <1>g, <1>h, <2>2, <3>1 DEF SoundState
    <2>6. HasPage(listed, chosen) /\ \A url : HasPage(st, url) => HasPage(listed, url)
      <3>1. Len(st.pages) + 1 \in 1..Len(listed.pages)
        BY <2>3
      <3> QED
        BY <1>f, <2>3, <3>1 DEF HasPage
    <2>7. \A url : Handled(st, asked, url) => Handled(listed, asked, url)
      BY <1>i, <2>2, <2>6 DEF Handled, Waits, SkipsContact
    <2>8. CASE ~record.follow
      <3>1. t = listed
        BY <2>1, <2>8
      <3>2. LinksCovered(t, asked)
        BY <1>f, <2>2, <2>3, <2>7, <2>8, <3>1 DEF LinksCovered
      <3> QED
        BY <2>2, <2>3, <2>5, <3>1, <3>2 DEF Recorded
    <2>9. CASE record.follow
      <3> DEFINE L == Len(record.links)
      <3>1. DOMAIN links = 1..L /\ L \in Nat /\ \A n \in 1..L : links[n] = LinkTo(record.links[n]) /\ record.links[n] \in Site
        BY <1>b DEF LinksTo
      <3>2. \A n \in 1..L : Canonicalize(links[n]) = record.links[n] /\ (IsAdminPage(links[n]) <=> IsAdminPage(record.links[n]))
                            /\ record.links[n] # NoUrl
        BY <3>1, LinksAreAddresses
      <3>3. t = AddAll(listed, links, "internal_link", depth + 1)
        BY <2>1, <2>9
      <3> HIDE DEF links, L
      <3>4. t \in States /\ SoundState(t) /\ Follows(listed, t) /\ \A n \in 1..L : Reached(t, links[n])
        <4>1. \A n \in 1..L : Canonicalize(links[n]) \in Site \cup {NoUrl}
          BY <3>1, <3>2
        <4>2. depth + 1 \in Nat /\ "internal_link" \in Sources /\ "internal_link" # "seed"
          BY <1>e DEF Sources
        <4> DEFINE next == depth + 1
                   source == "internal_link"
        <4> HIDE DEF next, source
        <4>3. next \in Nat /\ source \in Sources /\ source # "seed" /\ t = AddAll(listed, links, source, next)
          BY <3>3, <4>2 DEF next, source
        <4> QED
          BY <2>2, <2>5, <3>1, <4>1, <4>3, AddAllKeeps
      <3>5. Recorded(st, t)
        BY <2>3, <3>4 DEF Recorded, Follows
      <3>6. LinksCovered(t, asked)
        <4> SUFFICES ASSUME t.error = "none", ~t.cut, NEW k \in 1..Len(t.pages), t.pages[k].follow,
                            NEW url \in Range(t.pages[k].links) \ Disallowed
                     PROVE  Handled(t, asked, url)
          BY DEF LinksCovered
        <4>1. k \in 1..Len(listed.pages) /\ listed.pages[k].follow /\ t.pages[k].links = listed.pages[k].links
          BY <3>4 DEF Follows, SamePage
        <4>2. ~listed.cut /\ listed.error = "none" /\ ~st.cut
          BY <2>2, <3>4 DEF Follows
        <4>3. CASE k \in 1..Len(st.pages)
          <5>1. Handled(st, asked, url)
            BY <1>4, <2>3, <4>1, <4>2, <4>3 DEF LinksCovered
          <5>2. Handled(listed, asked, url)
            BY <2>7, <5>1
          <5>3. HasPage(listed, url) => HasPage(t, url)
            BY <3>4, HasPageStays
          <5>4. Waits(listed, url) => Waits(t, url)
            BY <3>4 DEF Follows, Waits
          <5> QED
            BY <3>4, <5>2, <5>3, <5>4 DEF Handled, SkipsContact, Follows
        <4>4. CASE k = Len(st.pages) + 1
          <5>1. url \in Range(record.links)
            BY <1>f, <2>3, <4>1, <4>4
          <5>2. PICK n \in 1..L : url = record.links[n]
            BY <1>b, <5>1 DEF Range, L
          <5>3. Reached(t, links[n])
            BY <3>4
          <5> QED
            BY <3>2, <5>2, <5>3 DEF Reached, Handled
        <4> QED
          BY <2>3, <4>1, <4>3, <4>4
      <3> QED
        BY <3>4, <3>5, <3>6
    <2> QED
      BY <1>b, <2>8, <2>9
  <1> QED
    BY <1>1, <1>2, <1>3, <1>4

\* All results of a batch.
LEMMA RecordAllKeeps ==
    ASSUME NEW st \in States, SoundState(st), NEW asked, LinksCovered(st, asked), NEW L \in Nat, NEW records,
           DOMAIN records = 1..L, \A n \in 1..L : records[n] \in Records, NEW t, t = RecordAll(st, records)
    PROVE  t \in States /\ SoundState(t) /\ LinksCovered(t, asked) /\ Recorded(st, t)
  <1> DEFINE S == {s \in States : SoundState(s) /\ LinksCovered(s, asked) /\ Recorded(st, s)}
  <1>1. st \in S
    BY DEF Recorded, States
  <1>2. ASSUME NEW s \in S, NEW n \in 1..L PROVE RecordChecked(s, records[n]) \in S
    <2> DEFINE next == RecordChecked(s, records[n])
    <2>1. s \in States /\ SoundState(s) /\ LinksCovered(s, asked) /\ Recorded(st, s)
      OBVIOUS
    <2>2. next \in States /\ SoundState(next) /\ LinksCovered(next, asked) /\ Recorded(s, next)
      BY <2>1, RecordCheckedKeeps
    <2> HIDE DEF next
    <2>3. Recorded(st, next)
      BY <2>1, <2>2 DEF Recorded, States
    <2> QED
      BY <2>2, <2>3 DEF next
  <1>3. RecordsPath(S, st, L, records)
    <2>1. RecordsStay(S, L, records)
      BY <1>2 DEF RecordsStay
    <2> HIDE DEF S
    <2> QED
      BY <1>1, <2>1, RecordsOneByOne
  <1>4. t \in S
    <2> HIDE DEF S
    <2> QED
      BY <1>3 DEF RecordsPath
  <1> QED
    BY <1>4

-----------------------------------------------------------------------------
(* Filling a batch.                                                          *)

\* A batch holds candidates that do not wait any more, each once; nothing else was lost,
\* except what is not wanted any more.
BatchTaken(st, rest, batch) ==
    /\ rest \in States /\ SoundState(rest) /\ batch \in Seq(Cands)
    /\ rest.pages = st.pages /\ rest.cut = st.cut /\ rest.error = st.error /\ rest.seen = st.seen
    /\ rest.cands \subseteq st.cands
    /\ \A i \in 1..Len(batch) : batch[i] \in st.cands \ rest.cands
    /\ \A i, j \in 1..Len(batch) : batch[i] = batch[j] => i = j
    /\ \A c \in st.cands : c \in rest.cands \/ (\E i \in 1..Len(batch) : batch[i] = c) \/ SkipsContact(st, c.url)

\* The front of the queue joins the batch, or is dropped (_drain_candidates).
LEMMA TakeNextTakes ==
    ASSUME NEW st \in States, SoundState(st), NEW size, NEW taken \in [st : States, batch : Seq(Cands)],
           BatchTaken(st, taken.st, taken.batch), NEW next, next = TakeNext(taken, size)
    PROVE  next \in [st : States, batch : Seq(Cands)] /\ BatchTaken(st, next.st, next.batch)
  <1> DEFINE url == Head(taken.st.queue)
             found == {c \in taken.st.cands : c.url = url}
             rest == [taken.st EXCEPT !.queue = Tail(@), !.cands = @ \ found]
             some == CHOOSE c \in found : TRUE
             batch == taken.batch
  <1>a. /\ taken.st \in States /\ batch \in Seq(Cands) /\ taken.st.queue \in Seq(Site) /\ taken.st.cands \subseteq Cands
        /\ st.cands \subseteq Cands
    BY DEF States
  <1>b. next = CASE taken.st.queue = <<>> \/ Len(taken.batch) = size -> taken
          [] taken.st.queue # <<>> /\ Len(taken.batch) # size /\ (found = {} \/ SkipsContact(taken.st, url)) -> [taken EXCEPT !.st = rest]
          [] OTHER -> [st |-> rest, batch |-> Append(taken.batch, some)]
    BY DEF TakeNext
  <1>1. CASE taken.st.queue = <<>> \/ Len(taken.batch) = size
    BY <1>1, <1>b
  <1>2. CASE taken.st.queue # <<>> /\ Len(taken.batch) # size
    <2>1. /\ rest.queue = Tail(taken.st.queue) /\ rest.cands = taken.st.cands \ found /\ rest.pages = taken.st.pages
          /\ rest.cut = taken.st.cut /\ rest.error = taken.st.error /\ rest.seen = taken.st.seen /\ rest \in States
      <3>1. Tail(taken.st.queue) \in Seq(Site)
        BY <1>a, <1>2
      <3> HIDE DEF found
      <3> QED
        BY <1>a, <3>1 DEF States
    <2>2. \A c, d \in found : c = d
      BY DEF BatchTaken, SoundState
    <2>3. SoundState(rest)
      <3>1. ASSUME NEW c \in rest.cands PROVE \E i \in 1..Len(rest.queue) : rest.queue[i] = c.url
        <4>1. c \in taken.st.cands /\ c.url # url
          BY <2>1, <3>1
        <4>2. PICK i \in 1..Len(taken.st.queue) : taken.st.queue[i] = c.url
          BY <4>1 DEF BatchTaken, SoundState
        <4>3. i # 1 /\ i - 1 \in 1..Len(rest.queue) /\ rest.queue[i - 1] = taken.st.queue[i]
          <5> HIDE DEF rest
          <5>1. url = taken.st.queue[1]
            BY <1>a, <1>2
          <5> QED
            BY <1>a, <1>2, <2>1, <4>1, <4>2, <5>1
        <4> QED
          BY <4>2, <4>3
      <3> HIDE DEF rest
      <3> QED
        BY <2>1, <3>1 DEF BatchTaken, SoundState
    <2> HIDE DEF rest
    <2>4. CASE found = {} \/ SkipsContact(taken.st, url)
      <3>1. next = [taken EXCEPT !.st = rest]
        BY <1>2, <1>b, <2>4
      <3>2. next.st = rest /\ next.batch = batch /\ next \in [st : States, batch : Seq(Cands)]
        BY <1>a, <2>1, <3>1
      <3>3. BatchTaken(st, rest, batch)
        <4>1. ASSUME NEW c \in st.cands
              PROVE  c \in rest.cands \/ (\E i \in 1..Len(batch) : batch[i] = c) \/ SkipsContact(st, c.url)
          <5>1. CASE c \in found
            BY <2>4, <5>1 DEF BatchTaken, SkipsContact
          <5>2. CASE c \notin found
            BY <2>1, <5>2 DEF BatchTaken
          <5> QED
            BY <5>1, <5>2
        <4> HIDE DEF found
        <4> QED
          BY <1>a, <2>1, <2>3, <4>1 DEF BatchTaken
      <3> QED
        BY <3>2, <3>3
    <2>5. CASE found # {} /\ ~SkipsContact(taken.st, url)
      <3> DEFINE more == Append(batch, some)
      <3>1. next = [st |-> rest, batch |-> more]
        BY <1>2, <1>b, <2>5
      <3>2. some \in found /\ found = {some}
        BY <2>2, <2>5
      <3>3. some \in Cands /\ some \in st.cands /\ some \in taken.st.cands
        BY <1>a, <3>2 DEF BatchTaken
      <3> HIDE DEF some, found
      <3>4. /\ more \in Seq(Cands) /\ Len(more) = Len(batch) + 1 /\ Len(batch) \in Nat /\ more[Len(batch) + 1] = some
            /\ \A i \in 1..Len(batch) : more[i] = batch[i]
            /\ \A i \in 1..Len(more) : i \in 1..Len(batch) \/ i = Len(batch) + 1
        BY <1>a, <3>3
      <3>5. \A i \in 1..Len(batch) : batch[i] \in st.cands /\ batch[i] \notin taken.st.cands
        BY DEF BatchTaken
      <3> HIDE DEF more
      <3>6. \A i \in 1..Len(more) : more[i] \in st.cands \ rest.cands
        BY <2>1, <3>2, <3>3, <3>4, <3>5
      <3>7. \A i, j \in 1..Len(more) : more[i] = more[j] => i = j
        <4>1. \A i, j \in 1..Len(batch) : batch[i] = batch[j] => i = j
          BY DEF BatchTaken
        <4>2. \A i \in 1..Len(batch) : batch[i] # some
          BY <3>3, <3>5
        <4> QED
          BY <3>4, <4>1, <4>2
      <3>8. ASSUME NEW c \in st.cands
            PROVE  c \in rest.cands \/ (\E i \in 1..Len(more) : more[i] = c) \/ SkipsContact(st, c.url)
        <4>1. CASE c = some
          <5>1. Len(batch) + 1 \in 1..Len(more)
            BY <3>4
          <5> QED
            BY <3>4, <4>1, <5>1
        <4>2. CASE c # some /\ c \in taken.st.cands
          BY <2>1, <3>2, <4>2
        <4>3. CASE c \notin taken.st.cands
          <5>1. (\E i \in 1..Len(batch) : batch[i] = c) \/ SkipsContact(st, c.url)
            BY <4>3 DEF BatchTaken
          <5>2. \A i \in 1..Len(batch) : i \in 1..Len(more) /\ more[i] = batch[i]
            BY <3>4
          <5> QED
            BY <5>1, <5>2
        <4> QED
          BY <4>1, <4>2, <4>3
      <3>9. /\ rest.pages = st.pages /\ rest.cut = st.cut /\ rest.error = st.error /\ rest.seen = st.seen
    /\ rest.cands \subseteq st.cands
        BY <2>1 DEF BatchTaken
      <3>10. BatchTaken(st, rest, more)
        BY <2>1, <2>3, <3>4, <3>6, <3>7, <3>8, <3>9 DEF BatchTaken
      <3> QED
        BY <2>1, <3>1, <3>4, <3>10
    <2> QED
      BY <2>4, <2>5
  <1> QED
    BY <1>1, <1>2

\* A whole batch.
LEMMA TakeBatchTakes ==
    ASSUME NEW st \in States, SoundState(st), NEW size, NEW taken, taken = TakeBatch(st, size)
    PROVE  taken \in [st : States, batch : Seq(Cands)] /\ BatchTaken(st, taken.st, taken.batch)
  <1> DEFINE S == {s \in [st : States, batch : Seq(Cands)] : BatchTaken(st, s.st, s.batch)}
             b == [st |-> st, batch |-> <<>>]
  <1>1. b \in S
    <2>1. b \in [st : States, batch : Seq(Cands)] /\ b.st = st /\ b.batch = <<>> /\ Len(b.batch) = 0
      OBVIOUS
    <2> HIDE DEF b
    <2> QED
      BY <2>1 DEF BatchTaken
  <1>2. ASSUME NEW s \in S PROVE TakeNext(s, size) \in S
    BY TakeNextTakes
  <1>3. st.queue \in Seq(Site)
    BY DEF States
  <1> DEFINE L == Len(st.queue)
             items == st.queue
  <1>4. L \in Nat /\ DOMAIN items = 1..L
    BY <1>3
  <1>5. QueuePath(S, b, L, items, size)
    <2>1. QueueStay(S, L, items, size)
      BY <1>2 DEF QueueStay
    <2> HIDE DEF S, b, L, items
    <2> QED
      BY <1>1, <1>4, <2>1, QueueOneByOne
  <1>6. Batched(b, items, size) \in S
    <2> HIDE DEF S, b, items
    <2> QED
      BY <1>4, <1>5 DEF QueuePath
  <1>7. taken = Batched(b, items, size)
    BY DEF TakeBatch, Batched
  <1>8. taken \in S
    <2> HIDE DEF S, b, items
    <2> QED
      BY <1>6, <1>7
  <1> QED
    BY <1>8

-----------------------------------------------------------------------------
(* The steps of the crawl, up to the ranking.                                *)

\* What is left behind stays so while links are added.
LEMMA CoveredStays ==
    ASSUME NEW st \in States, NEW t \in States, Follows(st, t), NEW asked, LinksCovered(st, asked)
    PROVE  LinksCovered(t, asked)
  <1>1. \A url : Handled(st, asked, url) => Handled(t, asked, url)
    <2> SUFFICES ASSUME NEW url, Handled(st, asked, url) PROVE Handled(t, asked, url)
      OBVIOUS
    <2>1. HasPage(st, url) => HasPage(t, url)
      BY HasPageStays
    <2>2. Waits(st, url) => Waits(t, url)
      BY DEF Follows, Waits
    <2> QED
      BY <2>1, <2>2 DEF Handled, SkipsContact, Follows
  <1> QED
    BY <1>1 DEF LinksCovered, Follows, SamePage, States

\* The home page is a page of the site, and sends what one may.
LEMMA RootIsOfTheSite == Root \in Site /\ Answers(Root) \subseteq Sent
  BY SiteCrawlAssumption DEF Site, Sent

\* What is kept of an answer, as a page that is checked or as a contact page.
LEMMA FetchedIsGiven ==
    ASSUME NEW answer \in Sent, NEW limit \in {StructuralBytes, ContactBytes}, NEW prefix \in BOOLEAN
    PROVE  Fetched(answer, limit, prefix) \in Given
  BY DEF Given

\* The batch that is recorded, and what it asks for.
Batch == TakeBatch(crawl, IF contacts # <<>> THEN 1 ELSE BatchSize)
AsksFor(batch, url) == {i \in DOMAIN batch : batch[i].url = url /\ batch[i].kept = {}}

\* How often a batch asks for an address: once if a candidate for it joined, which then
\* was waiting to be asked for and waits no more.
AsksOnce(st, rest, batch, url) ==
    LET asks == \E i \in 1..Len(batch) : batch[i].url = url /\ batch[i].kept = {}
    IN  /\ Cardinality(AsksFor(batch, url)) = IF asks THEN 1 ELSE 0
        /\ asks => /\ \E c \in st.cands : c.url = url /\ c.kept = {}
                   /\ \A c \in rest.cands : c.url # url

\* A batch asks for an address at most once, and only for one that was waiting to be asked for.
LEMMA BatchAsksOnce ==
    ASSUME NEW st \in States, SoundState(st), NEW rest, NEW batch, BatchTaken(st, rest, batch), NEW url \in Site
    PROVE  AsksOnce(st, rest, batch, url)
  <1>1. DOMAIN batch = 1..Len(batch) /\ Len(batch) \in Nat /\ \A i \in 1..Len(batch) : batch[i] \in st.cands /\ batch[i] \notin rest.cands
    BY DEF BatchTaken
  <1>2. CASE \A i \in 1..Len(batch) : ~(batch[i].url = url /\ batch[i].kept = {})
    <2>1. AsksFor(batch, url) = {}
      BY <1>1, <1>2 DEF AsksFor
    <2> QED
      BY <1>2, <2>1, FS_EmptySet DEF AsksOnce
  <1>3. ASSUME NEW i \in 1..Len(batch), batch[i].url = url, batch[i].kept = {}
        PROVE  AsksOnce(st, rest, batch, url)
    <2>1. \A j \in 1..Len(batch) : batch[j].url = url => j = i
      BY <1>1, <1>3 DEF BatchTaken, SoundState
    <2>2. AsksFor(batch, url) = {i}
      BY <1>1, <1>3, <2>1 DEF AsksFor
    <2>3. \A c \in rest.cands : c.url # url
      BY <1>1, <1>3 DEF BatchTaken, SoundState
    <2> QED
      BY <1>1, <1>3, <2>2, <2>3, FS_Singleton DEF AsksOnce
  <1> QED
    BY <1>2, <1>3

\* The answers of a batch are answers of the site.
LEMMA AnswersAreGiven ==
    ASSUME NEW st \in States, SoundState(st), NEW c \in st.cands
    PROVE  Responses(c) \subseteq Given /\ c \in Cands
  <1>1. c \in Cands /\ c.url \in Site /\ c.kept \subseteq Given
    BY DEF States, Cands
  <1> DEFINE contact == c.url \in Range(contacts)
             limit == IF contact THEN ContactBytes ELSE StructuralBytes
             prefix == crawlMode # "v1" /\ ~contact
  <1>2. limit \in {StructuralBytes, ContactBytes} /\ prefix \in BOOLEAN
    OBVIOUS
  <1>3. Responses(c) = IF c.kept # {} THEN c.kept ELSE {Fetched(answer, limit, prefix) : answer \in Answers(c.url)}
    BY DEF Responses
  <1>4. \A answer \in Answers(c.url) : answer \in Sent
    BY <1>1 DEF Sent
  <1> HIDE DEF limit, prefix
  <1>5. \A answer \in Answers(c.url) : Fetched(answer, limit, prefix) \in Given
    BY <1>2, <1>4, FetchedIsGiven
  <1> QED
    BY <1>1, <1>3, <1>5

\* _drain_candidates keeps the crawl sound, one batch after the other.
LEMMA CheckBatchKeeps == CrawlInv /\ CheckBatch => CrawlInv'
  <1> SUFFICES ASSUME CrawlInv, CheckBatch PROVE CrawlInv'
    OBVIOUS
  <1> DEFINE taken == Batch
             batch == taken.batch
             answers(i) == Responses(batch[i])
  <1>a. crawl \in States /\ SoundState(crawl) /\ LinksCovered(crawl, Asked) /\ fetches \in [Site -> Nat]
        /\ contacts \in Seq(Site)
    BY DEF CrawlInv, CrawlShape
  <1>b. /\ crawlPhase \in {"drain", "redrain"} /\ crawlPhase' = crawlPhase /\ crawlMode' = crawlMode /\ deep' = deep
        /\ contacts' = contacts
    BY DEF CheckBatch
  <1>1. taken.st \in States /\ batch \in Seq(Cands) /\ BatchTaken(crawl, taken.st, batch)
    BY <1>a, TakeBatchTakes DEF Batch
  <1>2. PICK given \in [DOMAIN batch -> UNION {answers(i) : i \in DOMAIN batch}] :
          /\ \A i \in DOMAIN batch : given[i] \in answers(i)
          /\ crawl' = RecordAll(taken.st, [i \in DOMAIN batch |-> Checked(batch[i], given[i])])
          /\ fetches' = [url \in DOMAIN fetches |-> fetches[url] + Cardinality(AsksFor(batch, url))]
    BY ZenonT(60) DEF CheckBatch, Batch, AsksFor
  <1> DEFINE records == [i \in DOMAIN batch |-> Checked(batch[i], given[i])]
  <1>3. DOMAIN records = 1..Len(batch) /\ Len(batch) \in Nat /\ \A i \in 1..Len(batch) : records[i] \in Records
    <2>1. DOMAIN batch = 1..Len(batch) /\ Len(batch) \in Nat
      BY <1>1
    <2>2. ASSUME NEW i \in 1..Len(batch) PROVE Checked(batch[i], given[i]) \in Records
      <3>1. batch[i] \in crawl.cands
        BY <1>1 DEF BatchTaken
      <3>2. given[i] \in answers(i)
        BY <1>2, <2>1
      <3>3. given[i] \in Given /\ batch[i] \in Cands
        BY <1>a, <3>1, <3>2, AnswersAreGiven
      <3> QED
        BY <3>3, CheckedIsRecord
    <2> HIDE DEF taken, batch
    <2> QED
      BY <2>1, <2>2
  <1>4. \A url \in Site : fetches'[url] = fetches[url] + Cardinality(AsksFor(batch, url))
    BY <1>a, <1>2
  <1> HIDE DEF taken, batch, records, answers
  <1>5. fetches' \in [Site -> Nat]
    <2> DEFINE k(url) == Cardinality(AsksFor(batch, url))
    <2>1. ASSUME NEW url \in Site PROVE fetches[url] + k(url) \in Nat
      <3>1. AsksOnce(crawl, taken.st, batch, url)
        BY <1>a, <1>1, BatchAsksOnce
      <3>2. k(url) \in Nat /\ fetches[url] \in Nat
        BY <1>a, <3>1 DEF AsksOnce
      <3> HIDE DEF k
      <3> QED
        BY <3>2
    <2>2. fetches' = [url \in Site |-> fetches[url] + k(url)]
      BY <1>a, <1>2
    <2> HIDE DEF k
    <2> QED
      BY <2>1, <2>2
  <1>6. /\ \A url \in Asked : url \in Asked'
        /\ \A i \in 1..Len(batch) : batch[i].url \in Asked'
        /\ \A url \in Asked' : url \in Asked \/ \E i \in 1..Len(batch) : batch[i].url = url
    <2> DEFINE asks(url) == \E i \in 1..Len(batch) : batch[i].url = url /\ batch[i].kept = {}
    <2>1. ASSUME NEW url \in Site
          PROVE  fetches[url] \in Nat /\ fetches'[url] = fetches[url] + (IF asks(url) THEN 1 ELSE 0)
      <3>1. AsksOnce(crawl, taken.st, batch, url)
        BY <1>a, <1>1, BatchAsksOnce
      <3> QED
        BY <1>a, <1>4, <3>1 DEF AsksOnce
    <2>2. \A url \in Site : fetches'[url] > 0 <=> fetches[url] > 0 \/ asks(url)
      <3> HIDE DEF asks
      <3> QED
        BY <2>1
    <2>3. \A url \in Asked : url \in Asked'
      BY <2>2 DEF Asked
    <2>4. ASSUME NEW i \in 1..Len(batch) PROVE batch[i].url \in Asked'
      <3>1. batch[i] \in crawl.cands /\ batch[i].url \in Site
        BY <1>a, <1>1 DEF BatchTaken, States, Cands
      <3>2. CASE batch[i].kept # {}
        <4>1. batch[i].url = Root
          BY <1>a, <3>1, <3>2 DEF SoundState
        <4> QED
          BY <1>b, <2>3, <4>1 DEF CrawlInv, AfterStart
      <3>3. CASE batch[i].kept = {}
        <4>1. asks(batch[i].url)
          BY <3>3
        <4> QED
          BY <2>2, <3>1, <4>1 DEF Asked
      <3> QED
        BY <3>2, <3>3
    <2>5. ASSUME NEW url \in Asked' PROVE url \in Asked \/ \E i \in 1..Len(batch) : batch[i].url = url
      <3>1. url \in Site /\ fetches'[url] > 0
        BY DEF Asked
      <3> QED
        BY <2>2, <3>1 DEF Asked
    <2> QED
      BY <2>3, <2>4, <2>5
  <1>7. LinksCovered(taken.st, Asked')
    <2>1. \A url : Waits(crawl, url) => Waits(taken.st, url) \/ url \in Asked' \/ SkipsContact(crawl, url)
      <3> SUFFICES ASSUME NEW c \in crawl.cands PROVE Waits(taken.st, c.url) \/ c.url \in Asked' \/ SkipsContact(crawl, c.url)
        BY DEF Waits
      <3>1. c \in taken.st.cands \/ (\E i \in 1..Len(batch) : batch[i] = c) \/ SkipsContact(crawl, c.url)
        BY <1>1 DEF BatchTaken
      <3> QED
        BY <1>6, <3>1 DEF Waits
    <2>2. taken.st.pages = crawl.pages /\ taken.st.cut = crawl.cut /\ taken.st.error = crawl.error /\ taken.st.seen = crawl.seen
      BY <1>1 DEF BatchTaken
    <2>3. \A url : Handled(crawl, Asked, url) => Handled(taken.st, Asked', url)
      BY <1>6, <2>1, <2>2 DEF Handled, HasPage, SkipsContact
    <2> QED
      BY <1>a, <2>2, <2>3 DEF LinksCovered
  <1>8. /\ crawl' \in States /\ SoundState(crawl') /\ LinksCovered(crawl', Asked') /\ Recorded(taken.st, crawl')
    <2>1. SoundState(taken.st) /\ crawl' = RecordAll(taken.st, records)
      BY <1>1, <1>2 DEF BatchTaken, records
    <2> QED
      BY <1>1, <1>3, <1>7, <2>1, RecordAllKeeps
  <1>9. LinksCovered(crawl, Asked)'
    <2>1. \A url : SkipsContact(crawl', url) => SkipsContact(crawl, url)'
      BY <1>b DEF SkipsContact
    <2>2. \A url : Handled(crawl', Asked', url) => Handled(crawl, Asked, url)'
      BY <2>1 DEF Handled, Waits, HasPage
    <2> QED
      BY <1>8, <2>2 DEF LinksCovered
  <1>10. AsksCounted'
    <2> SUFFICES ASSUME NEW url \in Site PROVE fetches'[url] + Due(crawl', url) <= Len(crawl'.pages) + Rounds'
      BY DEF AsksCounted, Due
    <2> DEFINE k == Cardinality(AsksFor(batch, url))
    <2>1. /\ fetches[url] + Due(crawl, url) <= Len(crawl.pages) + Rounds /\ Rounds' = Rounds /\ Rounds \in Nat
          /\ fetches[url] \in Nat /\ fetches'[url] = fetches[url] + k /\ Len(crawl.pages) \in Nat /\ Len(crawl'.pages) \in Nat
      BY <1>a, <1>b, <1>4, <1>8 DEF CrawlInv, AsksCounted, Rounds, States
    <2>2. /\ Len(crawl.pages) <= Len(crawl'.pages)
          /\ Len(crawl.pages) = Len(crawl'.pages) => crawl'.cands \subseteq taken.st.cands
          /\ taken.st.cands \subseteq crawl.cands
      BY <1>1, <1>8 DEF BatchTaken, Recorded
    <2>3. /\ k \in {0, 1}
          /\ k = 1 => (\E c \in crawl.cands : c.url = url /\ c.kept = {}) /\ \A c \in taken.st.cands : c.url # url
      <3>1. AsksOnce(crawl, taken.st, batch, url)
        BY <1>a, <1>1, BatchAsksOnce
      <3> DEFINE asks == \E i \in 1..Len(batch) : batch[i].url = url /\ batch[i].kept = {}
      <3>2. k = IF asks THEN 1 ELSE 0
        BY <3>1 DEF AsksOnce
      <3>3. asks => (\E c \in crawl.cands : c.url = url /\ c.kept = {}) /\ \A c \in taken.st.cands : c.url # url
        BY <3>1 DEF AsksOnce
      <3> HIDE DEF k, asks
      <3> QED
        BY <3>2, <3>3
    <2>4. Due(crawl, url) \in {0, 1} /\ Due(crawl', url) \in {0, 1} /\ (k = 1 => Due(crawl, url) = 1)
      BY <2>3 DEF Due
    <2>5. Len(crawl.pages) = Len(crawl'.pages) => (k = 1 => Due(crawl', url) = 0) /\ (Due(crawl', url) = 1 => Due(crawl, url) = 1)
      BY <2>2, <2>3 DEF Due
    <2> HIDE DEF k
    <2> QED
      BY <2>1, <2>2, <2>3, <2>4, <2>5
  <1>11. AskedAllowed' /\ AfterStart'
    <2>1. \A i \in 1..Len(batch) : batch[i].url = Root \/ batch[i].url \notin Disallowed
      BY <1>a, <1>1 DEF BatchTaken, SoundState
    <2>2. AskedAllowed'
      BY <1>6, <2>1 DEF CrawlInv, AskedAllowed
    <2> QED
      BY <1>b, <1>6, <2>2 DEF CrawlInv, AfterStart
  <1>12. CrawlShape'
    BY <1>b, <1>2, <1>5, <1>8 DEF CrawlInv, CrawlShape
  <1>13. BeforeStart' /\ NothingRead' /\ WhenReading'
    BY <1>b DEF CrawlInv, BeforeStart, NothingRead, WhenReading
  <1>14. IsInjective(contacts)'
    BY <1>b DEF CrawlInv
  <1>15. SoundState(crawl)'
    BY <1>8 DEF SoundState
  <1> QED
    BY <1>9, <1>10, <1>11, <1>12, <1>13, <1>14, <1>15 DEF CrawlInv

-----------------------------------------------------------------------------
(* What is found before the first batch.                                     *)

\* What the home page names is a finite number of addresses of the site.
LEMMA NamedAreOfTheSite ==
    ASSUME NEW home \in Given
    PROVE  NamedBy(home) \subseteq Site /\ IsFiniteSet(NamedBy(home))
  <1> DEFINE urls == Addresses(home.links, TRUE)
  <1>1. urls \in Seq(Site)
    BY AnswersNamePages, AddressesAreOfTheSite
  <1>2. NamedBy(home) \subseteq Range(urls)
    BY DEF NamedBy
  <1> HIDE DEF urls
  <1>3. Len(urls) \in Nat /\ DOMAIN urls = 1..Len(urls)
    BY <1>1
  <1>4. urls \in Surjection(1..Len(urls), Range(urls))
    BY <1>1, <1>3 DEF Surjection, Range
  <1>5. IsFiniteSet(Range(urls))
    BY <1>3, <1>4, FS_Interval, FS_Surjection
  <1>6. Range(urls) \subseteq Site
    BY <1>1, <1>3 DEF Range
  <1> QED
    BY <1>2, <1>5, <1>6, FS_Subset

\* The pages where to get in touch have their order (discover_contacts).
LEMMA ContactLinksAreSo == ASSUME NEW home \in Given PROVE ContactLinks(home) \in Seq(Site)
  <1> DEFINE found == {url \in NamedBy(home) \ {Root} : url \in home.named \/ ContactPath(url)}
             rank(url) == (IF url \in home.named THEN 0 ELSE 2) + (IF ContactPath(url) THEN 0 ELSE 1)
             before(a, b) == \/ rank(a) < rank(b)
                             \/ rank(a) = rank(b) /\ Len(a.path) < Len(b.path)
                             \/ rank(a) = rank(b) /\ Len(a.path) = Len(b.path) /\ Place(a) < Place(b)
             order == {p \in found \X found : before(p[1], p[2])}
             n == Cardinality(found)
             list == Arranged(found, order)
  <1>1. found \subseteq Site /\ IsFiniteSet(found)
    BY NamedAreOfTheSite, FS_Subset
  <1>2. n \in Nat
    BY <1>1, FS_CardinalityType
  <1>3. ContactLinks(home) = list
    BY DEF ContactLinks
  <1>4. \A a, b \in found : <<a, b>> \in order <=> before(a, b)
    <2> HIDE DEF found
    <2> QED
      OBVIOUS
  <1> HIDE DEF found, order
  <1>5. \A a \in found : rank(a) \in Nat /\ Len(a.path) \in Nat /\ Place(a) \in Nat
    <2> SUFFICES ASSUME NEW a \in found PROVE rank(a) \in Nat /\ Len(a.path) \in Nat /\ Place(a) \in Nat
      OBVIOUS
    <2>1. a \in Range(UrlOrder)
      BY <1>1 DEF Site
    <2>2. a.path \in Seq(Range(a.path))
      BY <2>1, SiteCrawlAssumption
    <2>3. Len(a.path) \in Nat
      BY <2>2
    <2> QED
      BY <2>1, <2>3, PlaceIsItsOwn
  <1>6. \A a, b \in found : Place(a) = Place(b) => a = b
    BY <1>1, PlaceIsItsOwn DEF Site
  <1>7. TotalOn(order, found)
    <2> HIDE DEF rank
    <2> QED
      BY <1>4, <1>5, <1>6 DEF TotalOn
  <1>8. Lists(list, found, order)
    BY <1>1, <1>7, ArrangedLists
  <1> HIDE DEF list, n
  <1>9. list \in [1..n -> Site]
    BY <1>1, <1>8 DEF Lists, n
  <1> QED
    BY <1>2, <1>3, <1>9

\* What robots.txt allows of a list is a list.
LEMMA AllowedAreSo == ASSUME NEW urls \in Seq(Site) PROVE Allowed(urls) \in Seq(Site)
  <1> DEFINE at == {i \in DOMAIN urls : urls[i] \notin Disallowed}
  <1>1. at \in SUBSET (1..Len(urls)) /\ Allowed(urls) = Picked(urls, at)
    BY DEF Allowed, Filtered
  <1> HIDE DEF at
  <1> QED
    BY <1>1, PickedItems

\* The first part of a list.
LEMMA FirstPart ==
    ASSUME NEW S, NEW list \in Seq(S), NEW k \in 0..Len(list)
    PROVE  SubSeq(list, 1, k) \in Seq(S) /\ Len(SubSeq(list, 1, k)) = k /\ \A i \in 1..k : SubSeq(list, 1, k)[i] = list[i]
  OBVIOUS

\* The contact pages that are wanted are addresses of the site, each once (_contact_candidates).
LEMMA FirstTwoAreSo ==
    ASSUME NEW urls \in Seq(Site)
    PROVE  FirstTwo(urls) \in Seq(Site) /\ IsInjective(FirstTwo(urls))
  <1> DEFINE once == EachOnce(urls)
             k == Min({2, Len(once)})
             first == SubSeq(once, 1, k)
  <1>1. once \in Seq(Site) /\ IsInjective(once)
    <2>1. Len(urls) \in Nat /\ DOMAIN urls = 1..Len(urls) /\ \A n \in 1..Len(urls) : urls[n] \in Site \cup {NoUrl}
      OBVIOUS
    <2> QED
      BY <2>1, EachOnceIsSo
  <1>2. FirstTwo(urls) = first
    BY DEF FirstTwo
  <1> HIDE DEF once
  <1>3. k \in 0..Len(once) /\ Len(once) \in Nat
    <2>1. 2 \in Nat /\ Len(once) \in Nat
      BY <1>1
    <2>2. Min({2, Len(once)}) \in 0..2 /\ Min({2, Len(once)}) <= Len(once)
      BY <2>1, MinOfTwo
    <2> QED
      BY <2>1, <2>2
  <1> HIDE DEF k
  <1>4. first \in Seq(Site) /\ Len(first) = k /\ \A i \in 1..k : first[i] = once[i]
    BY <1>1, <1>3, FirstPart
  <1>5. IsInjective(first)
    <2>1. DOMAIN first = 1..k /\ DOMAIN once = 1..Len(once)
      BY <1>1, <1>4
    <2> HIDE DEF first
    <2> QED
      BY <1>1, <1>3, <1>4, <2>1 DEF IsInjective
  <1> QED
    BY <1>2, <1>4, <1>5

\* A state in which nothing was checked yet, and contact pages that are wanted.
FoundIsSo(found) ==
    /\ found.st \in States /\ SoundState(found.st) /\ Len(found.st.pages) = 0
    /\ found.urls \in Seq(Site) /\ IsInjective(found.urls)

\* Addresses that are added before the first batch (add_candidate).
LEMMA SeedsAreAdded ==
    ASSUME NEW st \in States, SoundState(st), Len(st.pages) = 0, NEW urls \in Seq(Site),
           NEW source \in {"internal_link", "sitemap"}, NEW t, t = AddAll(st, LinksTo(urls), source, 1)
    PROVE  t \in States /\ SoundState(t) /\ Len(t.pages) = 0
  <1> DEFINE links == LinksTo(urls)
             L == Len(urls)
             depth == 1
  <1>1. DOMAIN links = 1..L /\ L \in Nat /\ \A n \in 1..L : links[n] = LinkTo(urls[n]) /\ urls[n] \in Site
    BY DEF LinksTo
  <1>2. \A n \in 1..L : Canonicalize(links[n]) \in Site \cup {NoUrl}
    <2> HIDE DEF links
    <2> QED
      BY <1>1, LinksAreAddresses
  <1>3. source \in Sources /\ source # "seed" /\ depth \in Nat
    BY DEF Sources
  <1>4. t = AddAll(st, links, source, depth)
    OBVIOUS
  <1> HIDE DEF links, L, depth
  <1>5. t \in States /\ SoundState(t) /\ Follows(st, t)
    BY <1>1, <1>2, <1>3, <1>4, AddAllKeeps
  <1> QED
    BY <1>5 DEF Follows

\* The home page waits, with the contact pages that it names (collect).
LEMMA HomeIsFollowed ==
    ASSUME CrawlInv, crawlPhase = "start", NEW home \in Given
    PROVE  FoundIsSo(FollowHome(home))
  <1> DEFINE small == Cardinality(NamedBy(home) \cup {Root}) <= KnownLimit
             two == FirstTwo(Allowed(ContactLinks(home)))
             urls == IF SeeksContacts(home) /\ small THEN two ELSE <<>>
             first == [Candidate(Root, "seed", 0) EXCEPT !.kept = {home}]
             seeded == [crawl EXCEPT !.queue = <<Root>>, !.cands = {first}]
             source == "internal_link"
             st == AddAll(seeded, LinksTo(urls), source, 1)
  <1>1. crawl \in States /\ crawl.pages = <<>>
    BY DEF CrawlInv, CrawlShape, BeforeStart
  <1>2. FollowHome(home) = [st |-> st, urls |-> urls, known |-> NamedBy(home)]
    BY DEF FollowHome
  <1>3. urls \in Seq(Site) /\ IsInjective(urls)
    <2>1. two \in Seq(Site) /\ IsInjective(two)
      BY ContactLinksAreSo, AllowedAreSo, FirstTwoAreSo
    <2>2. <<>> \in Seq(Site) /\ IsInjective(<<>>)
      BY DEF IsInjective
    <2> HIDE DEF two
    <2>3. urls \in {two, <<>>}
      OBVIOUS
    <2> HIDE DEF urls
    <2> QED
      BY <2>1, <2>2, <2>3
  <1> HIDE DEF urls
  <1>4. first \in Cands /\ first.url = Root /\ first.kept = {home}
    BY RootIsOfTheSite DEF Cands, Candidate, Sources
  <1> HIDE DEF first
  <1>5. /\ seeded \in States /\ seeded.cands = {first} /\ seeded.queue = <<Root>> /\ seeded.pages = <<>>
    <2>1. <<Root>> \in Seq(Site) /\ {first} \in SUBSET Cands
      BY <1>4, RootIsOfTheSite
    <2> QED
      BY <1>1, <2>1 DEF States
  <1> HIDE DEF seeded
  <1>6. SoundState(seeded) /\ Len(seeded.pages) = 0
    <2>1. 1 \in 1..Len(seeded.queue) /\ seeded.queue[1] = Root /\ Len(seeded.pages) = 0
      BY <1>5
    <2> QED
      BY <1>4, <1>5, <2>1 DEF SoundState
  <1>7. source \in {"internal_link", "sitemap"}
    OBVIOUS
  <1> HIDE DEF source
  <1>8. st \in States /\ SoundState(st) /\ Len(st.pages) = 0
    BY <1>3, <1>5, <1>6, <1>7, SeedsAreAdded
  <1> HIDE DEF st
  <1> QED
    BY <1>2, <1>3, <1>8 DEF FoundIsSo

\* The pages that a sitemap lists wait, or none does (collect).
LEMMA SitemapIsFollowed ==
    ASSUME NEW found, FoundIsSo(found), NEW home, NEW all \in SitemapResults
    PROVE  FoundIsSo(FollowSitemap(found, home, all))
  <1> DEFINE limit == IF crawlMode = "v3" THEN Max({DiscoveryLimit, KnownLimit + 1}) ELSE DiscoveryLimit
             k == Min({Len(all), limit})
             listed == SubSeq(all, 1, k)
             named == found.known \cup {c.url : c \in found.st.cands} \cup Range(listed)
             at1 == {i \in DOMAIN UrlOrder : UrlOrder[i] \in Range(listed) /\ ContactPath(UrlOrder[i])}
             contact == Picked(UrlOrder, at1)
             urls == FirstTwo(found.urls \o Allowed(contact))
             at2 == {i \in DOMAIN listed : listed[i] \notin Range(urls)}
             others == Picked(listed, at2)
             source == "sitemap"
             with(wanted, order) ==
                [st |-> AddAll(found.st, LinksTo(order), source, 1), urls |-> wanted, known |-> found.known \cup Range(order)]
  <1>1. all \in Seq(Site) /\ UrlOrder \in Seq(Site) /\ DiscoveryLimit \in Nat \ {0} /\ KnownLimit \in Nat
    BY SiteCrawlAssumption DEF Site
  <1>2. limit \in Nat
    <2> DEFINE both == {DiscoveryLimit, KnownLimit + 1}
               m == DiscoveryLimit + KnownLimit + 1
    <2>1. both \in SUBSET (1..m) /\ both # {} /\ m \in Nat
      BY <1>1
    <2> HIDE DEF both, m
    <2>2. Max(both) \in 1..m
      BY <2>1, MaxIn
    <2>3. Max(both) \in Nat
      BY <2>1, <2>2
    <2>4. limit \in {Max(both), DiscoveryLimit}
      BY DEF both
    <2> QED
      BY <1>1, <2>3, <2>4
  <1> HIDE DEF limit
  <1>3. k \in 0..Len(all)
    BY <1>1, <1>2, MinOfTwo
  <1> HIDE DEF k
  <1>4. listed \in Seq(Site)
    BY <1>1, <1>3, FirstPart
  <1> HIDE DEF listed
  <1>5. contact \in Seq(Site)
    <2>1. at1 \in SUBSET (1..Len(UrlOrder))
      BY <1>1
    <2> HIDE DEF at1
    <2> QED
      BY <1>1, <2>1, PickedItems
  <1>6. urls \in Seq(Site) /\ IsInjective(urls)
    <2> HIDE DEF contact
    <2>1. Allowed(contact) \in Seq(Site) /\ found.urls \in Seq(Site)
      BY <1>5, AllowedAreSo DEF FoundIsSo
    <2>2. found.urls \o Allowed(contact) \in Seq(Site)
      BY <2>1
    <2> QED
      BY <2>2, FirstTwoAreSo
  <1>7. FollowSitemap(found, home, all)
          \in {found, with(urls, urls \o others), with(found.urls, listed)}
    BY DEF FollowSitemap, Filtered, limit, k, listed
  <1> HIDE DEF contact, urls
  <1>8. others \in Seq(Site)
    <2>1. at2 \in SUBSET (1..Len(listed))
      BY <1>4
    <2> HIDE DEF at2
    <2> QED
      BY <1>4, <2>1, PickedItems
  <1> HIDE DEF others
  <1>9. source \in {"internal_link", "sitemap"}
    OBVIOUS
  <1> HIDE DEF source
  <1>10. ASSUME NEW wanted \in Seq(Site), IsInjective(wanted), NEW order \in Seq(Site) PROVE FoundIsSo(with(wanted, order))
    <2> DEFINE st == AddAll(found.st, LinksTo(order), source, 1)
    <2>1. st \in States /\ SoundState(st) /\ Len(st.pages) = 0
      BY <1>9, SeedsAreAdded DEF FoundIsSo
    <2> HIDE DEF st
    <2>2. with(wanted, order).st = st /\ with(wanted, order).urls = wanted
      BY DEF st
    <2> HIDE DEF with
    <2> QED
      BY <1>10, <2>1, <2>2 DEF FoundIsSo
  <1> HIDE DEF with
  <1>11. FoundIsSo(with(urls, urls \o others)) /\ FoundIsSo(with(found.urls, listed))
    <2>1. urls \o others \in Seq(Site)
      BY <1>6, <1>8
    <2> QED
      BY <1>4, <1>6, <1>10, <2>1 DEF FoundIsSo
  <1> QED
    BY <1>7, <1>11

\* The home page, what it names and the sitemaps start the crawl (collect).
LEMMA StartCrawlKeeps == CrawlInv /\ StartCrawl => CrawlInv'
  <1> SUFFICES ASSUME CrawlInv, StartCrawl PROVE CrawlInv'
    OBVIOUS
  <1>a. /\ crawl \in States /\ SoundState(crawl) /\ fetches \in [Site -> Nat] /\ contacts \in Seq(Site)
        /\ crawl.cands = {} /\ crawl.pages = <<>> /\ crawl.queue = <<>> /\ Asked = {} /\ deep.outcomes = <<>>
        /\ deep \in [todo : Seq(Records), outcomes : Seq(Outcomes)] /\ crawlMode \in Modes /\ IsInjective(contacts)
    BY DEF CrawlInv, CrawlShape, StartCrawl, BeforeStart, NothingRead
  <1>b. fetches' = [fetches EXCEPT ![Root] = @ + 1] /\ crawlMode' = crawlMode /\ deep' = deep
    BY DEF StartCrawl
  <1>1. /\ fetches' \in [Site -> Nat] /\ Asked' = {Root}
        /\ \A url \in Site : fetches'[url] \in {0, 1}
    <2>1. \A url \in Site : fetches[url] = 0
      BY <1>a DEF Asked
    <2>2. Root \in Site
      BY RootIsOfTheSite
    <2>3. \A url \in Site : fetches'[url] = IF url = Root THEN 1 ELSE 0
      BY <1>a, <1>b, <2>1, <2>2
    <2> QED
      BY <1>a, <1>b, <2>2, <2>3 DEF Asked
  <1>2. CASE crawlPhase' = "failed" /\ UNCHANGED <<crawl, contacts>>
    <2>1. AsksCounted'
      <3> SUFFICES ASSUME NEW url \in Site PROVE fetches'[url] + Due(crawl', url) <= Len(crawl'.pages) + Rounds'
        BY DEF AsksCounted, Due
      <3>1. Due(crawl', url) = 0 /\ Rounds' = 3 /\ Len(crawl'.pages) = 0
        BY <1>a, <1>2 DEF Due, Rounds
      <3> QED
        BY <1>1, <3>1
    <2>2. LinksCovered(crawl, Asked)'
      <3>1. Len(crawl'.pages) = 0
        BY <1>a, <1>2
      <3> QED
        BY <3>1 DEF LinksCovered
    <2>3. SoundState(crawl)'
      BY <1>a, <1>2 DEF SoundState
    <2>4. CrawlShape' /\ IsInjective(contacts)'
      BY <1>a, <1>b, <1>1, <1>2 DEF CrawlShape
    <2> QED
      BY <1>1, <1>2, <1>a, <1>b, <2>1, <2>2, <2>3, <2>4
         DEF CrawlInv, AskedAllowed, BeforeStart, AfterStart, NothingRead, WhenReading
  <1>3. ASSUME NEW found, FoundIsSo(found), crawl' = found.st, contacts' = found.urls, crawlPhase' = "drain"
        PROVE  CrawlInv'
    <2>1. crawl' \in States /\ SoundState(crawl') /\ Len(crawl'.pages) = 0 /\ contacts' \in Seq(Site) /\ IsInjective(contacts')
      BY <1>3 DEF FoundIsSo
    <2>2. AsksCounted'
      <3> SUFFICES ASSUME NEW url \in Site PROVE fetches'[url] + Due(crawl', url) <= Len(crawl'.pages) + Rounds'
        BY DEF AsksCounted, Due
      <3>1. Due(crawl', url) \in {0, 1} /\ Rounds' = 2
        BY <1>3 DEF Due, Rounds
      <3> QED
        BY <1>1, <2>1, <3>1
    <2>3. LinksCovered(crawl, Asked)' /\ SoundState(crawl)'
      BY <2>1 DEF LinksCovered, SoundState
    <2>4. CrawlShape'
      BY <1>3, <1>a, <1>b, <1>1, <2>1 DEF CrawlShape
    <2> QED
      BY <1>1, <1>3, <1>a, <1>b, <2>1, <2>2, <2>3, <2>4
         DEF CrawlInv, AskedAllowed, BeforeStart, AfterStart, NothingRead, WhenReading
  <1>4. PICK answer \in Answers(Root) : \E root \in {Fetched(answer, StructuralBytes, crawlMode # "v1")} :
        IF ~root.ok \/ root.status >= 400
        THEN crawlPhase' = "failed" /\ UNCHANGED <<crawl, contacts>>
        ELSE \E home \in Scanned(root) : \E found \in FollowSitemaps(FollowHome(home), home) :
                crawl' = found.st /\ contacts' = found.urls /\ crawlPhase' = "drain"
    BY DEF StartCrawl
  <1> DEFINE root == Fetched(answer, StructuralBytes, crawlMode # "v1")
  <1> HIDE DEF root
  <1>5. CASE ~root.ok \/ root.status >= 400
    BY <1>2, <1>4, <1>5 DEF root
  <1>6. CASE ~(~root.ok \/ root.status >= 400)
    <2>a. PICK home \in Scanned(root) : \E found \in FollowSitemaps(FollowHome(home), home) :
             crawl' = found.st /\ contacts' = found.urls /\ crawlPhase' = "drain"
      BY <1>4, <1>6 DEF root
    <2>1. PICK found \in FollowSitemaps(FollowHome(home), home) :
             crawl' = found.st /\ contacts' = found.urls /\ crawlPhase' = "drain"
      BY <2>a
    <2>2. root \in Given
      <3> DEFINE prefix == crawlMode # "v1"
      <3>1. prefix \in BOOLEAN /\ root = Fetched(answer, StructuralBytes, prefix) /\ answer \in Sent
        BY RootIsOfTheSite DEF root
      <3> HIDE DEF prefix
      <3> QED
        BY <3>1, FetchedIsGiven
    <2>3. home \in Given
      <3>1. \A a \in Answers(Root) : Fetched(a, ContactBytes, FALSE) \in Given
        BY RootIsOfTheSite, FetchedIsGiven
      <3> QED
        BY <2>1, <2>2, <3>1 DEF Scanned
    <2>4. FoundIsSo(FollowHome(home))
      <3>1. crawlPhase = "start"
        BY DEF StartCrawl
      <3> QED
        BY <2>3, <3>1, HomeIsFollowed
    <2>5. FoundIsSo(found)
      <3>1. \A listed \in SitemapResults : FoundIsSo(FollowSitemap(FollowHome(home), home, listed))
        BY <2>4, SitemapIsFollowed
      <3>2. \A listed, more \in SitemapResults :
               FoundIsSo(FollowSitemap(FollowSitemap(FollowHome(home), home, listed), home, more))
        BY <3>1, SitemapIsFollowed
      <3> QED
        BY <2>1, <3>1, <3>2 DEF FollowSitemaps
    <2> QED
      BY <1>3, <2>1, <2>5
  <1> QED
    BY <1>5, <1>6

\* An error of the model ends the collection.
LEMMA CrawlRaisesKeeps == CrawlInv /\ CrawlRaises => CrawlInv'
  <1> SUFFICES ASSUME CrawlInv, CrawlRaises PROVE CrawlInv'
    OBVIOUS
  <1>1. /\ UNCHANGED <<crawl, crawlMode, contacts, deep, fetches>> /\ crawlPhase' = "failed"
        /\ crawlPhase \in {"drain", "redrain"}
    BY DEF CrawlRaises
  <1>2. CrawlShape' /\ SoundState(crawl)' /\ AskedAllowed' /\ IsInjective(contacts)'
    BY <1>1 DEF CrawlInv, CrawlShape, SoundState, AskedAllowed, Asked
  <1>3. LinksCovered(crawl, Asked)'
    BY <1>1 DEF CrawlInv, LinksCovered, Asked, Handled, Waits, HasPage, SkipsContact
  <1>4. AsksCounted'
    <2> SUFFICES ASSUME NEW url \in Site PROVE fetches'[url] + Due(crawl', url) <= Len(crawl'.pages) + Rounds'
      BY DEF AsksCounted, Due
    <2>1. Rounds \in {2, 3} /\ Rounds' = 3 /\ Due(crawl, url) \in {0, 1} /\ Len(crawl.pages) \in Nat /\ fetches[url] \in Nat
      BY <1>1 DEF Rounds, Due, CrawlInv, CrawlShape, States
    <2>2. fetches[url] + Due(crawl, url) <= Len(crawl.pages) + Rounds
      BY DEF CrawlInv, AsksCounted
    <2> QED
      BY <1>1, <2>1, <2>2
  <1> QED
    BY <1>1, <1>2, <1>3, <1>4 DEF CrawlInv, BeforeStart, AfterStart, NothingRead, WhenReading, Asked

\* What the mapping service names is added to what waits (collect).
LEMMA MapSiteKeeps == CrawlInv /\ MapSite => CrawlInv'
  <1> SUFFICES ASSUME CrawlInv, MapSite PROVE CrawlInv'
    OBVIOUS
  <1>a. /\ crawl \in States /\ SoundState(crawl) /\ LinksCovered(crawl, Asked) /\ fetches \in [Site -> Nat] /\ Len(crawl.pages) \in Nat
    BY DEF CrawlInv, CrawlShape, States
  <1>b. /\ UNCHANGED <<crawlMode, contacts, deep, fetches>> /\ crawlPhase' = "redrain" /\ crawlPhase = "drain"
        /\ Len(crawl.pages) < DiscoveryLimit /\ DiscoveryLimit \in Nat
    BY SiteCrawlAssumption DEF MapSite
  <1>1. PICK links \in MapResults :
          crawl' = AddAll(crawl, SubSeq(links, 1, Min({Len(links), DiscoveryLimit - Len(crawl.pages)})), "firecrawl_map", 1)
    BY DEF MapSite
  <1> DEFINE L == Min({Len(links), DiscoveryLimit - Len(crawl.pages)})
             part == SubSeq(links, 1, L)
             source == "firecrawl_map"
             depth == 1
  <1>2. links \in Seq(Range(links)) /\ \A n \in 1..Len(links) : Canonicalize(links[n]) \in Site \cup {NoUrl}
    <2>1. NamesPages(links)
      BY SiteCrawlAssumption
    <2> QED
      BY <2>1 DEF NamesPages, Range, Site
  <1>3. L \in 0..Len(links)
    <2>1. Len(links) \in Nat /\ DiscoveryLimit - Len(crawl.pages) \in Nat
      BY <1>a, <1>b, <1>2
    <2> QED
      BY <2>1, MinOfTwo
  <1> HIDE DEF L
  <1>4. DOMAIN part = 1..L /\ L \in Nat /\ \A n \in 1..L : part[n] = links[n] /\ n \in 1..Len(links)
    BY <1>2, <1>3
  <1>5. source \in Sources /\ source # "seed" /\ depth \in Nat /\ crawl' = AddAll(crawl, part, source, depth)
    BY <1>1 DEF Sources, L
  <1>6. \A n \in 1..L : Canonicalize(part[n]) \in Site \cup {NoUrl}
    <2> HIDE DEF part
    <2> QED
      BY <1>2, <1>4
  <1> HIDE DEF part, source, depth
  <1>7. crawl' \in States /\ SoundState(crawl') /\ Follows(crawl, crawl')
    BY <1>a, <1>4, <1>5, <1>6, AddAllKeeps
  <1>8. LinksCovered(crawl', Asked)
    BY <1>a, <1>7, CoveredStays
  <1>9. CrawlShape' /\ SoundState(crawl)' /\ AskedAllowed' /\ IsInjective(contacts)'
    BY <1>b, <1>7 DEF CrawlInv, CrawlShape, SoundState, AskedAllowed, Asked
  <1>10. LinksCovered(crawl, Asked)'
    BY <1>b, <1>8 DEF LinksCovered, Asked, Handled, Waits, HasPage, SkipsContact
  <1>11. AsksCounted'
    <2> SUFFICES ASSUME NEW url \in Site PROVE fetches'[url] + Due(crawl', url) <= Len(crawl'.pages) + Rounds'
      BY DEF AsksCounted, Due
    <2>1. Rounds = 2 /\ Rounds' = 3 /\ Due(crawl, url) \in {0, 1} /\ Due(crawl', url) \in {0, 1} /\ Len(crawl'.pages) = Len(crawl.pages)
      BY <1>b, <1>7 DEF Rounds, Due, Follows
    <2>2. fetches[url] + Due(crawl, url) <= Len(crawl.pages) + Rounds /\ fetches[url] \in Nat
      BY <1>a DEF CrawlInv, AsksCounted
    <2> QED
      BY <1>a, <1>b, <2>1, <2>2
  <1> QED
    BY <1>b, <1>9, <1>10, <1>11 DEF CrawlInv, BeforeStart, AfterStart, NothingRead, WhenReading, Asked

-----------------------------------------------------------------------------
(* The ranking, and the pages that are read.                                 *)

\* The inventory is the first pages, as many as the limit admits; its checked pages are few
\* enough to be counted, and no two have the same address.
LEMMA InventoryIsOfThePages ==
    ASSUME CrawlInv
    PROVE  /\ Inventory \in Seq(Records) /\ Len(Inventory) <= DiscoveryLimit /\ Len(Inventory) <= Len(crawl.pages)
           /\ \A i \in 1..Len(Inventory) : Inventory[i] = crawl.pages[i]
           /\ IsFiniteSet(CheckedPages) /\ CheckedPages \subseteq Records
           /\ \A p, q \in CheckedPages : p.url = q.url => p = q
  <1>1. /\ crawl.pages \in Seq(Records) /\ Len(crawl.pages) \in Nat /\ DiscoveryLimit \in Nat
        /\ \A i, j \in 1..Len(crawl.pages) : crawl.pages[i].url = crawl.pages[j].url => i = j
    BY SiteCrawlAssumption DEF CrawlInv, CrawlShape, States, SoundState
  <1> DEFINE k == Min({Len(crawl.pages), DiscoveryLimit})
             inventory == SubSeq(crawl.pages, 1, k)
  <1>2. k \in 0..Len(crawl.pages) /\ k <= DiscoveryLimit
    BY <1>1, MinOfTwo
  <1>3. Inventory = inventory
    BY DEF Inventory
  <1> HIDE DEF k
  <1>4. inventory \in Seq(Records) /\ Len(inventory) = k /\ \A i \in 1..k : inventory[i] = crawl.pages[i]
    BY <1>1, <1>2
  <1> HIDE DEF inventory
  <1>5. Range(Inventory) = {Inventory[i] : i \in 1..k}
    BY <1>3, <1>4 DEF Range
  <1>6. IsFiniteSet(Range(Inventory))
    <2> DEFINE T == {Inventory[i] : i \in 1..k}
               f == [i \in 1..k |-> Inventory[i]]
    <2>1. IsFiniteSet(1..k)
      BY <1>1, <1>2, FS_Interval
    <2>2. f \in Surjection(1..k, T)
      BY DEF Surjection
    <2> HIDE DEF f, T
    <2>3. IsFiniteSet(T)
      BY <2>1, <2>2, FS_Surjection
    <2> QED
      BY <1>5, <2>3 DEF T
  <1>7. IsFiniteSet(CheckedPages)
    BY <1>6, FS_Subset DEF CheckedPages
  <1>8. CheckedPages \subseteq Records
    BY <1>3, <1>4, <1>5 DEF CheckedPages
  <1>9. \A p, q \in CheckedPages : p.url = q.url => p = q
    <2> SUFFICES ASSUME NEW p \in CheckedPages, NEW q \in CheckedPages, p.url = q.url PROVE p = q
      OBVIOUS
    <2>1. PICK i \in 1..k : p = Inventory[i]
      BY <1>5 DEF CheckedPages
    <2>2. PICK j \in 1..k : q = Inventory[j]
      BY <1>5 DEF CheckedPages
    <2>3. i \in 1..Len(crawl.pages) /\ j \in 1..Len(crawl.pages)
      BY <1>1, <1>2
    <2> QED
      BY <1>1, <1>3, <1>4, <2>1, <2>2, <2>3
  <1> QED
    BY <1>2, <1>3, <1>4, <1>7, <1>8, <1>9

\* The contact pages that were found come right after the home page, and no page is
\* there twice (prioritize_contacts).
LEMMA PrioritizedIsSo ==
    ASSUME CrawlInv, NEW ranked, SomePages(ranked, CheckedPages)
    PROVE  SomePages(PrioritizeContacts(ranked), CheckedPages)
  <1> DEFINE at1 == {i \in DOMAIN ranked : ranked[i].type = "home"}
             home == Picked(ranked, at1)
             fits(url, p) == p.url = url /\ p.type = "contact" /\ p.status < 400
             at2 == {i \in DOMAIN contacts : \E p \in CheckedPages : fits(contacts[i], p)}
             found == Picked(contacts, at2)
             pageOf(url) == CHOOSE p \in CheckedPages : p.url = url
             reserved == [i \in DOMAIN found |-> pageOf(found[i])]
             none == Reserved = <<>>
             at3 == {i \in DOMAIN ranked : ranked[i] \notin Range(home) \cup Range(reserved)}
             rest == Picked(ranked, at3)
  <1>a. \A p, q \in CheckedPages : p.url = q.url => p = q
    BY InventoryIsOfThePages
  <1>b. contacts \in Seq(Site) /\ IsInjective(contacts)
    BY DEF CrawlInv, CrawlShape
  <1>c. ranked \in Seq(CheckedPages)
    BY DEF SomePages
  <1>d. PrioritizeContacts(ranked) \in {ranked, home \o reserved \o rest}
    <2>1. Reserved \in {<<>>, reserved}
      BY DEF Reserved, Filtered
    <2>2. CASE none
      BY <2>2 DEF PrioritizeContacts
    <2>3. CASE ~none
      <3>1. Reserved = reserved
        <4> HIDE DEF reserved
        <4> QED
          BY <2>1, <2>3
      <3>2. PrioritizeContacts(ranked) = home \o Reserved \o Filtered(ranked, LAMBDA p : p \notin Range(home) \cup Range(Reserved))
        BY <2>3 DEF PrioritizeContacts, Filtered
      <3>3. PrioritizeContacts(ranked) = home \o reserved \o rest
        BY <3>1, <3>2 DEF Filtered
      <3> QED
        BY <3>3
    <2> QED
      BY <2>2, <2>3
  <1>1. SomePages(home, CheckedPages) /\ \A i \in 1..Len(home) : home[i].type = "home"
    <2>1. at1 \in SUBSET (1..Len(ranked))
      BY <1>c
    <2>2. \A i \in at1 : ranked[i].type = "home"
      OBVIOUS
    <2> HIDE DEF at1
    <2>3. SomePages(home, CheckedPages) /\ \A n \in 1..Len(home) : \E i \in at1 : home[n] = ranked[i]
      BY <2>1, PickedPages
    <2> HIDE DEF home
    <2> QED
      BY <2>2, <2>3
  <1>2. /\ found \in Seq(Site) /\ IsInjective(found)
        /\ \A i \in 1..Len(found) : \E p \in CheckedPages : fits(found[i], p)
    <2>1. at2 \in SUBSET (1..Len(contacts))
      BY <1>b
    <2>2. \A i \in at2 : \E p \in CheckedPages : fits(contacts[i], p)
      OBVIOUS
    <2> HIDE DEF at2, fits
    <2>3. \A i, j \in at2 : contacts[i] = contacts[j] => i = j
      BY <1>b, <2>1 DEF IsInjective
    <2>4. found \in Seq(Site)
      BY <1>b, <2>1, PickedItems
    <2>5. IsInjective(found)
      BY <1>b, <2>1, <2>3, PickedMembers
    <2>6. \A n \in 1..Len(found) : \E i \in at2 : found[n] = contacts[i]
      BY <1>b, <2>1, PickedMembers
    <2> HIDE DEF found
    <2> QED
      BY <2>2, <2>4, <2>5, <2>6
  <1> HIDE DEF found
  <1>3. \A i \in 1..Len(found) : pageOf(found[i]) \in CheckedPages /\ pageOf(found[i]).url = found[i] /\ pageOf(found[i]).type = "contact"
    <2> SUFFICES ASSUME NEW i \in 1..Len(found)
                 PROVE  pageOf(found[i]) \in CheckedPages /\ pageOf(found[i]).url = found[i] /\ pageOf(found[i]).type = "contact"
      OBVIOUS
    <2>1. PICK p \in CheckedPages : p.url = found[i] /\ p.type = "contact"
      BY <1>2
    <2>2. pageOf(found[i]) \in CheckedPages /\ pageOf(found[i]).url = found[i]
      BY <2>1
    <2> HIDE DEF pageOf
    <2>3. pageOf(found[i]) = p
      BY <1>a, <2>1, <2>2
    <2> QED
      BY <2>1, <2>2, <2>3
  <1> HIDE DEF pageOf
  <1>4. /\ SomePages(reserved, CheckedPages) /\ \A i \in 1..Len(reserved) : reserved[i].type = "contact"
    <2>1. DOMAIN found = 1..Len(found) /\ Len(found) \in Nat
      BY <1>2
    <2>2. reserved \in Seq(CheckedPages) /\ Len(reserved) = Len(found) /\ \A i \in 1..Len(found) : reserved[i] = pageOf(found[i])
      BY <1>3, <2>1
    <2> HIDE DEF reserved
    <2>3. \A i, j \in 1..Len(reserved) : reserved[i] = reserved[j] => i = j
      <3> SUFFICES ASSUME NEW i \in 1..Len(found), NEW j \in 1..Len(found), reserved[i] = reserved[j] PROVE i = j
        BY <2>2
      <3>1. found[i] = found[j]
        BY <1>3, <2>2
      <3> QED
        BY <1>2, <2>1, <3>1 DEF IsInjective
    <2> QED
      BY <1>3, <2>2, <2>3 DEF SomePages
  <1> HIDE DEF home, reserved
  <1>5. SomePages(rest, CheckedPages) /\ \A i \in 1..Len(rest) : rest[i] \notin Range(home) /\ rest[i] \notin Range(reserved)
    <2>1. at3 \in SUBSET (1..Len(ranked))
      BY <1>c
    <2>2. \A i \in at3 : ranked[i] \notin Range(home) /\ ranked[i] \notin Range(reserved)
      OBVIOUS
    <2> HIDE DEF at3
    <2>3. SomePages(rest, CheckedPages) /\ \A n \in 1..Len(rest) : \E i \in at3 : rest[n] = ranked[i]
      BY <2>1, PickedPages
    <2> HIDE DEF rest
    <2> QED
      BY <2>2, <2>3
  <1> HIDE DEF rest
  <1>6. /\ \A i \in 1..Len(home) : home[i] \in Range(home)
        /\ \A i \in 1..Len(reserved) : reserved[i] \in Range(reserved)
    BY <1>1, <1>4 DEF SomePages, Range
  <1> DEFINE both == home \o reserved
  <1>7. SomePages(both, CheckedPages)
    <2>1. \A i \in 1..Len(home) : \A j \in 1..Len(reserved) : home[i] # reserved[j]
      BY <1>1, <1>4
    <2> QED
      BY <1>1, <1>4, <2>1, JoinedPages
  <1>8. \A i \in 1..Len(both) : both[i] \in Range(home) \cup Range(reserved)
    <2>1. home \in Seq(CheckedPages) /\ reserved \in Seq(CheckedPages)
      BY <1>1, <1>4 DEF SomePages
    <2>2. JoinedIsSo(home, reserved, CheckedPages) /\ Len(home) \in Nat /\ Len(reserved) \in Nat
      BY <2>1, JoinedLists
    <2> HIDE DEF both
    <2> SUFFICES ASSUME NEW i \in 1..Len(both) PROVE both[i] \in Range(home) \cup Range(reserved)
      OBVIOUS
    <2>3. both[i] = (IF i <= Len(home) THEN home[i] ELSE reserved[i - Len(home)]) /\ i \in 1..(Len(home) + Len(reserved))
      BY <2>2 DEF JoinedIsSo, both
    <2>4. CASE i <= Len(home)
      <3>1. i \in 1..Len(home)
        BY <2>2, <2>3, <2>4
      <3> QED
        BY <1>6, <2>3, <2>4, <3>1
    <2>5. CASE i > Len(home)
      <3>1. i - Len(home) \in 1..Len(reserved) /\ ~(i <= Len(home))
        BY <2>2, <2>3, <2>5
      <3> QED
        BY <1>6, <2>3, <3>1
    <2> QED
      BY <2>2, <2>3, <2>4, <2>5
  <1> HIDE DEF both
  <1>9. SomePages(both \o rest, CheckedPages)
    <2>1. \A i \in 1..Len(both) : \A j \in 1..Len(rest) : both[i] # rest[j]
      BY <1>5, <1>8
    <2> QED
      BY <1>5, <1>7, <2>1, JoinedPages
  <1> QED
    BY <1>d, <1>9 DEF both

\* What stays when neither the pages nor what was asked for change.
LEMMA CrawlStays ==
    ASSUME CrawlInv, UNCHANGED <<crawl, crawlMode, contacts, fetches>>,
           crawlPhase' \in {"deep", "done", "failed"}, crawlPhase \in {"drain", "redrain", "deep"},
           deep' \in [todo : Seq(Records), outcomes : Seq(Outcomes)], WhenReading'
    PROVE  CrawlInv'
  <1>1. CrawlShape' /\ SoundState(crawl)' /\ AskedAllowed' /\ IsInjective(contacts)'
    BY DEF CrawlInv, CrawlShape, SoundState, AskedAllowed, Asked
  <1>2. LinksCovered(crawl, Asked)'
    BY DEF CrawlInv, LinksCovered, Asked, Handled, Waits, HasPage, SkipsContact
  <1>3. AsksCounted'
    <2> SUFFICES ASSUME NEW url \in Site PROVE fetches'[url] + Due(crawl', url) <= Len(crawl'.pages) + Rounds'
      BY DEF AsksCounted, Due
    <2>1. Rounds \in {2, 3} /\ Rounds' = 3 /\ Due(crawl, url) \in {0, 1} /\ Len(crawl.pages) \in Nat /\ fetches[url] \in Nat
      BY DEF Rounds, Due, CrawlInv, CrawlShape, States
    <2>2. fetches[url] + Due(crawl, url) <= Len(crawl.pages) + Rounds
      BY DEF CrawlInv, AsksCounted
    <2> QED
      BY <2>1, <2>2
  <1> QED
    BY <1>1, <1>2, <1>3 DEF CrawlInv, BeforeStart, AfterStart, NothingRead, Asked

\* The ranking of what was found (rank_pages, select_key_pages, prioritize_contacts).
LEMMA EndDiscoveryKeeps == CrawlInv /\ EndDiscovery => CrawlInv'
  <1> SUFFICES ASSUME CrawlInv, EndDiscovery PROVE CrawlInv'
    OBVIOUS
  <1> DEFINE todo == PrioritizeContacts(SelectKeyPages(CheckedPages, Cardinality(CheckedPages), <<>>))
  <1>1. /\ UNCHANGED <<crawl, crawlMode, contacts, fetches>> /\ crawlPhase' \in {"deep", "failed"} /\ crawlPhase \in {"drain", "redrain"}
        /\ crawl.queue = <<>> /\ crawl.error = "none" /\ deep' = [deep EXCEPT !.todo = todo]
    BY DEF EndDiscovery
  <1>2. IsFiniteSet(CheckedPages) /\ CheckedPages \subseteq Records /\ \A p, q \in CheckedPages : p.url = q.url => p = q
    BY InventoryIsOfThePages
  <1>3. SomePages(todo, CheckedPages)
    <2>1. SomePages(RankPages(CheckedPages, <<>>), CheckedPages)
      <3>1. Rankable(CheckedPages)
        <4>1. \A p \in Records : p.url \in Range(UrlOrder) /\ p.depth \in Nat /\ p.matches \in Nat
          BY DEF Records, Site
        <4> QED
          BY <1>2, <4>1 DEF Rankable
      <3>2. Counted(<<>>)
        BY DEF Counted
      <3> QED
        BY <3>1, <3>2, RankingIsSo
    <2>2. SomePages(SelectKeyPages(CheckedPages, Cardinality(CheckedPages), <<>>), CheckedPages)
      <3>1. Cardinality(CheckedPages) \in Nat
        BY <1>2, FS_CardinalityType
      <3> QED
        BY <2>1, <3>1, KeyPagesAreSo DEF SelectKeyPages
    <2> QED
      BY <2>2, PrioritizedIsSo
  <1> HIDE DEF todo
  <1>4. /\ deep \in [todo : Seq(Records), outcomes : Seq(Outcomes)] /\ deep.outcomes = <<>>
        /\ todo \in Seq(Records) /\ todo \in Seq(CheckedPages)
    BY <1>1, <1>2, <1>3 DEF CrawlInv, CrawlShape, NothingRead, SomePages
  <1>5. deep' \in [todo : Seq(Records), outcomes : Seq(Outcomes)] /\ deep'.todo = todo /\ deep'.outcomes = <<>>
    BY <1>1, <1>4
  <1>6. CheckedPages' = CheckedPages
    BY <1>1 DEF CheckedPages, Inventory
  <1>7. DeepOnce'
    <2>1. ReadPages' = <<>>
      BY <1>5 DEF ReadPages
    <2>2. (ReadPages \o deep.todo)' = todo
      BY <1>4, <1>5, <2>1
    <2>3. Len(Read(deep'.outcomes)) = 0
      <3> DEFINE none == <<>>
                 at == {i \in DOMAIN none : none[i].read}
      <3>1. at = {} /\ none \in Seq({}) /\ at \in SUBSET (1..Len(none))
        OBVIOUS
      <3>2. Read(deep'.outcomes) = Picked(none, at)
        BY <1>5 DEF Read, Filtered
      <3> HIDE DEF none, at
      <3>3. Len(Picked(none, at)) = Cardinality(at)
        BY <3>1, PickedItems
      <3> QED
        BY <3>1, <3>2, <3>3, FS_EmptySet
    <2>4. DeepLimit \in Nat
      BY SiteCrawlAssumption
    <2> QED
      BY <1>3, <1>6, <2>2, <2>3, <2>4 DEF DeepOnce, SomePages
  <1> QED
    BY <1>1, <1>5, <1>7, CrawlStays DEF WhenReading

\* Of a list, what is left without the first item.
LEMMA RestOfPages ==
    ASSUME NEW pages, NEW a \in Seq(pages), NEW b \in Seq(pages), b # <<>>, SomePages(a \o b, pages)
    PROVE  SomePages(a \o Tail(b), pages) /\ Append(a, Head(b)) \o Tail(b) = a \o b
  <1>1. Tail(b) \in Seq(pages) /\ Len(Tail(b)) = Len(b) - 1 /\ Len(a) \in Nat /\ Len(b) \in Nat /\ Len(b) > 0
        /\ \A i \in 1..(Len(b) - 1) : Tail(b)[i] = b[i + 1]
    OBVIOUS
  <1>2. JoinedIsSo(a, b, pages) /\ JoinedIsSo(a, Tail(b), pages)
    BY <1>1, JoinedLists
  <1> DEFINE all == a \o b
             some == a \o Tail(b)
  <1>3. /\ \A i \in 1..Len(a) : some[i] = all[i]
        /\ \A i \in (Len(a) + 1)..(Len(a) + Len(b) - 1) : some[i] = all[i + 1]
        /\ some \in Seq(pages) /\ Len(some) = Len(a) + Len(b) - 1 /\ Len(all) = Len(a) + Len(b)
    <2>1. \A i \in 1..Len(a) : some[i] = all[i]
      BY <1>1, <1>2 DEF JoinedIsSo
    <2>2. ASSUME NEW i \in (Len(a) + 1)..(Len(a) + Len(b) - 1) PROVE some[i] = all[i + 1]
      <3>1. some[i] = Tail(b)[i - Len(a)]
        BY <1>1, <1>2 DEF JoinedIsSo
      <3>2. all[i + 1] = b[i + 1 - Len(a)]
        BY <1>1, <1>2 DEF JoinedIsSo
      <3>3. i - Len(a) \in 1..(Len(b) - 1) /\ (i - Len(a)) + 1 = i + 1 - Len(a)
        BY <1>1
      <3> HIDE DEF some, all
      <3> QED
        BY <1>1, <3>1, <3>2, <3>3
    <2> QED
      BY <1>1, <1>2, <2>1, <2>2 DEF JoinedIsSo
  <1>4. SomePages(some, pages)
    <2> HIDE DEF some, all
    <2>1. \A i, j \in 1..Len(all) : all[i] = all[j] => i = j
      BY DEF SomePages, all
    <2> DEFINE from == [i \in 1..Len(some) |-> IF i <= Len(a) THEN i ELSE i + 1]
    <2>2. ASSUME NEW i \in 1..Len(some) PROVE from[i] \in 1..Len(all) /\ some[i] = all[from[i]]
      BY <1>1, <1>3
    <2>3. \A i, j \in 1..Len(some) : from[i] = from[j] => i = j
      BY <1>1, <1>3
    <2> HIDE DEF from
    <2>4. ASSUME NEW i \in 1..Len(some), NEW j \in 1..Len(some), some[i] = some[j] PROVE i = j
      <3>1. from[i] \in 1..Len(all) /\ from[j] \in 1..Len(all) /\ all[from[i]] = all[from[j]]
        BY <2>2, <2>4
      <3>2. from[i] = from[j]
        BY <2>1, <3>1
      <3> QED
        BY <2>3, <3>2
    <2> QED
      BY <1>3, <2>4 DEF SomePages
  <1>5. Append(a, Head(b)) \o Tail(b) = a \o b
    OBVIOUS
  <1> QED
    BY <1>4, <1>5

\* The pages that were read are counted.
ReadAt(outcomes) == {i \in DOMAIN outcomes : outcomes[i].read}
LEMMA ReadIsCounted ==
    ASSUME NEW outcomes \in Seq(Outcomes)
    PROVE  /\ Read(outcomes) \in Seq(Outcomes) /\ Len(Read(outcomes)) = Cardinality(ReadAt(outcomes))
           /\ IsFiniteSet(ReadAt(outcomes)) /\ Cardinality(ReadAt(outcomes)) \in Nat /\ ReadAt(outcomes) \in SUBSET (1..Len(outcomes))
  <1> DEFINE at == {i \in DOMAIN outcomes : outcomes[i].read}
  <1>1. Read(outcomes) = Picked(outcomes, at) /\ at = ReadAt(outcomes) /\ at \in SUBSET (1..Len(outcomes))
    BY DEF Read, Filtered, ReadAt
  <1> HIDE DEF at
  <1> QED
    BY <1>1, PickedItems

\* One page more is one more at most.
LEMMA ReadGrowsByOne ==
    ASSUME NEW outcomes \in Seq(Outcomes), NEW outcome \in Outcomes
    PROVE  Len(Read(Append(outcomes, outcome))) <= Len(Read(outcomes)) + 1
  <1> DEFINE more == Append(outcomes, outcome)
             n == Len(outcomes) + 1
  <1>1. /\ more \in Seq(Outcomes) /\ Len(more) = n /\ n \in Nat
        /\ \A i \in 1..Len(outcomes) : more[i] = outcomes[i]
        /\ \A i \in 1..n : i \in 1..Len(outcomes) \/ i = n
    OBVIOUS
  <1>2. DOMAIN more = 1..n /\ DOMAIN outcomes = 1..Len(outcomes)
    OBVIOUS
  <1> HIDE DEF more
  <1>3. ReadAt(more) \subseteq ReadAt(outcomes) \cup {n}
    BY <1>1, <1>2 DEF ReadAt
  <1>4. /\ IsFiniteSet(ReadAt(outcomes)) /\ Cardinality(ReadAt(outcomes)) \in Nat /\ Cardinality(ReadAt(more)) \in Nat
        /\ Len(Read(outcomes)) = Cardinality(ReadAt(outcomes)) /\ Len(Read(more)) = Cardinality(ReadAt(more))
    BY <1>1, ReadIsCounted
  <1>5. /\ IsFiniteSet(ReadAt(outcomes) \cup {n})
        /\ Cardinality(ReadAt(outcomes) \cup {n}) <= Cardinality(ReadAt(outcomes)) + 1
    <2>1. IsFiniteSet(ReadAt(outcomes))
      BY <1>4
    <2> HIDE DEF n
    <2>2. /\ IsFiniteSet(ReadAt(outcomes) \cup {n})
          /\ Cardinality(ReadAt(outcomes) \cup {n}) = IF n \in ReadAt(outcomes) THEN Cardinality(ReadAt(outcomes))
                                                      ELSE Cardinality(ReadAt(outcomes)) + 1
      BY <2>1, FS_AddElement
    <2> QED
      BY <1>4, <2>2
  <1>6. Cardinality(ReadAt(more)) <= Cardinality(ReadAt(outcomes) \cup {n})
    BY <1>3, <1>5, FS_Subset
  <1>7. Cardinality(ReadAt(outcomes) \cup {n}) \in Nat
    BY <1>5, FS_CardinalityType
  <1> QED
    BY <1>4, <1>5, <1>6, <1>7 DEF more

\* A page of the ranking is read, or skipped (_collect_deep_pages).
LEMMA ReadDeeplyKeeps == CrawlInv /\ ReadDeeply => CrawlInv'
  <1> SUFFICES ASSUME CrawlInv, ReadDeeply PROVE CrawlInv'
    OBVIOUS
  <1> DEFINE page == Head(deep.todo)
             after(read) == [todo |-> Tail(deep.todo), outcomes |-> Append(deep.outcomes, [page |-> page, read |-> read])]
  <1>a. /\ UNCHANGED <<crawl, crawlPhase, crawlMode, contacts, fetches>> /\ crawlPhase = "deep" /\ deep.todo # <<>>
        /\ Len(Read(deep.outcomes)) < DeepLimit /\ DeepLimit \in Nat
    BY SiteCrawlAssumption DEF ReadDeeply
  <1>b. /\ deep \in [todo : Seq(Records), outcomes : Seq(Outcomes)] /\ DeepOnce /\ crawl.queue = <<>> /\ crawl.error = "none"
    BY <1>a DEF CrawlInv, CrawlShape, WhenReading
  <1>c. CheckedPages' = CheckedPages
    BY <1>a DEF CheckedPages, Inventory
  <1> DEFINE todo == deep.todo
             outcomes == deep.outcomes
             pages == ReadPages
  <1>d. /\ todo \in Seq(Records) /\ outcomes \in Seq(Outcomes) /\ todo # <<>>
        /\ Tail(todo) \in Seq(Records) /\ Head(todo) \in Records
    BY <1>a, <1>b
  <1>e. pages \in Seq(Records) /\ Len(pages) = Len(outcomes) /\ Len(outcomes) \in Nat
        /\ \A i \in 1..Len(outcomes) : pages[i] = outcomes[i].page
    <2>1. \A i \in 1..Len(outcomes) : outcomes[i].page \in Records
      <3>1. \A i \in 1..Len(outcomes) : outcomes[i] \in Outcomes
        BY <1>d
      <3> QED
        BY <3>1 DEF Outcomes
    <2>2. pages = [i \in 1..Len(outcomes) |-> outcomes[i].page] /\ Len(outcomes) \in Nat
      BY <1>d DEF ReadPages
    <2> HIDE DEF pages, outcomes
    <2> QED
      BY <2>1, <2>2
  <1>f. pages \in Seq(CheckedPages) /\ todo \in Seq(CheckedPages)
    <2>1. SomePages(pages \o todo, CheckedPages)
      BY <1>b DEF DeepOnce
    <2>2. JoinedIsSo(pages, todo, Records) /\ Len(todo) \in Nat
      BY <1>d, <1>e, JoinedLists
    <2> HIDE DEF pages, todo
    <2>3. \A i \in 1..(Len(pages) + Len(todo)) : (pages \o todo)[i] \in CheckedPages
      BY <2>1, <2>2 DEF SomePages, JoinedIsSo
    <2>4. \A i \in 1..Len(pages) : pages[i] \in CheckedPages
      <3> SUFFICES ASSUME NEW i \in 1..Len(pages) PROVE pages[i] \in CheckedPages
        OBVIOUS
      <3>1. i \in 1..(Len(pages) + Len(todo)) /\ (pages \o todo)[i] = pages[i]
        BY <1>e, <2>2 DEF JoinedIsSo
      <3> QED
        BY <2>3, <3>1
    <2>5. \A i \in 1..Len(todo) : todo[i] \in CheckedPages
      <3> SUFFICES ASSUME NEW i \in 1..Len(todo) PROVE todo[i] \in CheckedPages
        OBVIOUS
      <3>1. Len(pages) + i \in 1..(Len(pages) + Len(todo)) /\ (pages \o todo)[Len(pages) + i] = todo[i]
        BY <1>e, <2>2 DEF JoinedIsSo
      <3> QED
        BY <2>3, <3>1
    <2> QED
      BY <1>d, <1>e, <2>4, <2>5
  <1>g. SomePages(pages \o Tail(todo), CheckedPages) /\ Append(pages, Head(todo)) \o Tail(todo) = pages \o todo
        /\ SomePages(pages \o todo, CheckedPages)
    <2>1. SomePages(pages \o todo, CheckedPages)
      BY <1>b DEF DeepOnce
    <2> HIDE DEF pages, todo
    <2> QED
      BY <1>d, <1>f, <2>1, RestOfPages
  <1>1. ASSUME deep' = [deep EXCEPT !.todo = Tail(@)] PROVE CrawlInv'
    <2>1. deep'.todo = Tail(todo) /\ deep'.outcomes = outcomes /\ deep' \in [todo : Seq(Records), outcomes : Seq(Outcomes)]
      BY <1>1, <1>b, <1>d
    <2>2. ReadPages' = pages
      BY <2>1 DEF ReadPages
    <2>3. DeepOnce'
      <3>1. (ReadPages \o deep.todo)' = pages \o Tail(todo)
        BY <2>1, <2>2
      <3>2. Len(Read(deep.outcomes))' = Len(Read(outcomes)) /\ Len(Read(outcomes)) \in Nat
        BY <1>d, <2>1, ReadIsCounted
      <3>3. Len(Read(deep.outcomes))' <= DeepLimit
        BY <1>a, <3>2
      <3>4. SomePages(pages \o Tail(todo), CheckedPages')
        BY <1>c, <1>g
      <3> HIDE DEF pages, todo
      <3>5. SomePages(ReadPages \o deep.todo, CheckedPages)'
        BY <3>1, <3>4 DEF SomePages
      <3> QED
        BY <3>3, <3>5 DEF DeepOnce
    <2> QED
      BY <1>a, <1>b, <2>1, <2>3, CrawlStays DEF WhenReading
  <1>2. ASSUME NEW read \in BOOLEAN, deep' = after(read) PROVE CrawlInv'
    <2> DEFINE outcome == [page |-> page, read |-> read]
    <2>1. outcome \in Outcomes /\ outcome.page = page
      BY <1>d DEF Outcomes
    <2> HIDE DEF outcome
    <2>2. /\ deep'.todo = Tail(todo) /\ deep'.outcomes = Append(outcomes, outcome)
          /\ Append(outcomes, outcome) \in Seq(Outcomes)
          /\ deep' \in [todo : Seq(Records), outcomes : Seq(Outcomes)]
      BY <1>2, <1>d, <2>1 DEF outcome
    <2>3. ReadPages' = Append(pages, Head(todo))
      <3> DEFINE more == Append(outcomes, outcome)
      <3>1. /\ Len(more) = Len(outcomes) + 1 /\ more[Len(outcomes) + 1] = outcome
            /\ \A i \in 1..Len(outcomes) : more[i] = outcomes[i]
            /\ \A i \in 1..(Len(outcomes) + 1) : i \in 1..Len(outcomes) \/ i = Len(outcomes) + 1
        BY <1>d, <2>1
      <3> HIDE DEF more
      <3>2. ReadPages' = [i \in 1..(Len(outcomes) + 1) |-> more[i].page]
        BY <2>2, <3>1 DEF ReadPages, more
      <3> DEFINE next == Append(pages, Head(todo))
      <3>3. next \in Seq(Records) /\ Len(next) = Len(outcomes) + 1 /\ next[Len(outcomes) + 1] = page
            /\ \A i \in 1..Len(outcomes) : next[i] = pages[i]
        BY <1>d, <1>e
      <3> HIDE DEF next
      <3>4. \A i \in 1..(Len(outcomes) + 1) : next[i] = more[i].page
        BY <1>e, <2>1, <3>1, <3>3
      <3>5. next = [i \in 1..(Len(outcomes) + 1) |-> more[i].page]
        BY <1>e, <3>3, <3>4
      <3> QED
        BY <3>2, <3>5 DEF next
    <2>4. (ReadPages \o deep.todo)' = pages \o todo
      BY <1>g, <2>2, <2>3
    <2>5. Len(Read(deep.outcomes))' <= DeepLimit
      <3>1. Len(Read(Append(outcomes, outcome))) <= Len(Read(outcomes)) + 1
        BY <1>d, <2>1, ReadGrowsByOne
      <3>2. Len(Read(outcomes)) \in Nat /\ Len(Read(Append(outcomes, outcome))) \in Nat
        BY <1>d, <2>2, ReadIsCounted
      <3>3. Len(Read(deep.outcomes))' = Len(Read(Append(outcomes, outcome)))
        BY <2>2
      <3> QED
        BY <1>a, <3>1, <3>2, <3>3
    <2>6. DeepOnce'
      BY <1>c, <1>g, <2>4, <2>5 DEF DeepOnce, SomePages
    <2> QED
      BY <1>a, <1>b, <2>2, <2>6, CrawlStays DEF WhenReading
  <1>3. \/ deep' = [deep EXCEPT !.todo = Tail(@)]
        \/ deep' = after(Usable(page.status, page.final))
        \/ \E answer \in Answers(page.url) :
              deep' = after(answer.ok /\ answer.size <= BytesOf(page) /\ Usable(answer.status, answer.final))
    BY DEF ReadDeeply
  <1>4. CASE \E answer \in Answers(page.url) :
              deep' = after(answer.ok /\ answer.size <= BytesOf(page) /\ Usable(answer.status, answer.final))
    <2>1. PICK answer \in Answers(page.url) :
              deep' = after(answer.ok /\ answer.size <= BytesOf(page) /\ Usable(answer.status, answer.final))
      BY <1>4
    <2>2. answer.ok \in BOOLEAN
      <3>1. page.url \in Site
        BY <1>d DEF Records
      <3> QED
        BY <3>1, SiteCrawlAssumption DEF IsAnswer, Site
    <2> DEFINE read == answer.ok /\ answer.size <= BytesOf(page) /\ Usable(answer.status, answer.final)
    <2>3. read \in BOOLEAN /\ deep' = after(read)
      BY <2>1, <2>2
    <2> HIDE DEF read, after
    <2> QED
      BY <1>2, <2>3
  <1>5. CASE deep' = after(Usable(page.status, page.final))
    <2> DEFINE read == Usable(page.status, page.final)
    <2>1. read \in BOOLEAN /\ deep' = after(read)
      BY <1>5 DEF Usable
    <2> HIDE DEF read, after
    <2> QED
      BY <1>2, <2>1
  <1> QED
    BY <1>1, <1>3, <1>4, <1>5

\* The crawl ends when nothing is left to read, or the limit is met.
LEMMA EndCrawlKeeps == CrawlInv /\ EndCrawl => CrawlInv'
  <1> SUFFICES ASSUME CrawlInv, EndCrawl PROVE CrawlInv'
    OBVIOUS
  <1>1. UNCHANGED <<crawl, crawlMode, contacts, deep, fetches>> /\ crawlPhase = "deep" /\ crawlPhase' = "done"
    BY DEF EndCrawl
  <1>2. deep \in [todo : Seq(Records), outcomes : Seq(Outcomes)] /\ DeepOnce /\ crawl.queue = <<>> /\ crawl.error = "none"
    BY <1>1 DEF CrawlInv, CrawlShape, WhenReading
  <1>3. DeepOnce'
    <2>1. ReadPages' = ReadPages /\ CheckedPages' = CheckedPages
      BY <1>1 DEF ReadPages, CheckedPages, Inventory
    <2> QED
      BY <1>1, <1>2, <2>1 DEF DeepOnce
  <1>4. WhenReading' /\ deep' \in [todo : Seq(Records), outcomes : Seq(Outcomes)]
    BY <1>1, <1>2, <1>3 DEF WhenReading
  <1> QED
    BY <1>1, <1>4, CrawlStays

-----------------------------------------------------------------------------
(* The inventory that the crawl ends with.                                   *)

\* As many positions of a list have some items as there are of these, if no item is there twice.
LEMMA FewPositions ==
    ASSUME NEW S, NEW items \in Seq(S), \A i, j \in 1..Len(items) : items[i] = items[j] => i = j,
           NEW some \in Seq(S), NEW at, at = {i \in 1..Len(items) : \E n \in 1..Len(some) : items[i] = some[n]}
    PROVE  IsFiniteSet(at) /\ Cardinality(at) \in Nat /\ Cardinality(at) <= Len(some)
  <1> DEFINE m == Len(some)
             f == [i \in at |-> CHOOSE n \in 1..m : items[i] = some[n]]
  <1>1. m \in Nat /\ IsFiniteSet(1..m) /\ Cardinality(1..m) = m
    BY FS_Interval
  <1>2. ASSUME NEW i \in at PROVE f[i] \in 1..m /\ items[i] = some[f[i]]
    OBVIOUS
  <1>3. f \in Injection(at, 1..m)
    <2>1. f \in [at -> 1..m]
      BY <1>2
    <2>2. \A i, j \in at : f[i] = f[j] => i = j
      BY <1>2
    <2>3. DOMAIN f = at
      OBVIOUS
    <2> HIDE DEF f
    <2> QED
      BY <2>1, <2>2, <2>3 DEF Injection, IsInjective
  <1> HIDE DEF f, m
  <1>4. IsFiniteSet(at) /\ Cardinality(at) <= m
    BY <1>1, <1>3, FS_Injection
  <1>5. Cardinality(at) \in Nat
    BY <1>4, FS_CardinalityType
  <1> QED
    BY <1>4, <1>5 DEF m

\* What was tried, of which no page was tried twice.
LEMMA TriedOnce ==
    ASSUME CrawlInv, crawlPhase = "done"
    PROVE  /\ deep.outcomes \in Seq(Outcomes) /\ Len(Read(deep.outcomes)) <= DeepLimit
           /\ \A i \in 1..Len(deep.outcomes) : deep.outcomes[i].page \in CheckedPages
           /\ \A i, j \in 1..Len(deep.outcomes) : deep.outcomes[i].page = deep.outcomes[j].page => i = j
  <1> DEFINE outcomes == deep.outcomes
             todo == deep.todo
             pages == ReadPages
             all == pages \o todo
  <1>1. outcomes \in Seq(Outcomes) /\ todo \in Seq(Records) /\ SomePages(all, CheckedPages) /\ Len(Read(outcomes)) <= DeepLimit
    BY DEF CrawlInv, CrawlShape, WhenReading, DeepOnce
  <1>2. pages \in Seq(Records) /\ Len(pages) = Len(outcomes) /\ Len(outcomes) \in Nat
        /\ \A i \in 1..Len(outcomes) : pages[i] = outcomes[i].page
    <2>1. \A i \in 1..Len(outcomes) : outcomes[i].page \in Records
      <3>1. \A i \in 1..Len(outcomes) : outcomes[i] \in Outcomes
        BY <1>1
      <3> QED
        BY <3>1 DEF Outcomes
    <2>2. pages = [i \in 1..Len(outcomes) |-> outcomes[i].page] /\ Len(outcomes) \in Nat
      BY <1>1 DEF ReadPages
    <2> HIDE DEF pages, outcomes
    <2> QED
      BY <2>1, <2>2
  <1> HIDE DEF outcomes, pages, todo
  <1>3. JoinedIsSo(pages, todo, Records) /\ Len(todo) \in Nat
    BY <1>1, <1>2, JoinedLists
  <1>4. \A i \in 1..Len(outcomes) : i \in 1..Len(all) /\ all[i] = outcomes[i].page
    BY <1>2, <1>3 DEF JoinedIsSo
  <1> HIDE DEF all
  <1>5. \A i \in 1..Len(outcomes) : outcomes[i].page \in CheckedPages
    BY <1>1, <1>4 DEF SomePages
  <1>6. \A i, j \in 1..Len(outcomes) : outcomes[i].page = outcomes[j].page => i = j
    BY <1>1, <1>4 DEF SomePages
  <1> QED
    BY <1>1, <1>5, <1>6 DEF outcomes

\* The pages that are kept are checked pages, each once, no more than the limit (_collect_deep_pages).
LEMMA SelectedIsSo ==
    ASSUME CrawlInv, crawlPhase = "done"
    PROVE  /\ SelectedPages \in Seq(Outcomes) /\ Len(SelectedPages) <= DeepLimit
           /\ \A i \in 1..Len(SelectedPages) : SelectedPages[i].page \in CheckedPages
           /\ \A i, j \in 1..Len(SelectedPages) : SelectedPages[i].page = SelectedPages[j].page => i = j
  <1> DEFINE outcomes == deep.outcomes
             at1 == {i \in DOMAIN outcomes : ~outcomes[i].read}
             failed == Picked(outcomes, at1)
             r == Len(Read(outcomes))
             k == Min({Len(failed), Max({0, DeepLimit - r})})
             fill == SubSeq(failed, 1, k)
             at2 == {i \in DOMAIN outcomes : outcomes[i].read \/ outcomes[i] \in Range(fill)}
             selected == Picked(outcomes, at2)
             extra == {i \in 1..Len(outcomes) : \E n \in 1..Len(fill) : outcomes[i] = fill[n]}
  <1>1. /\ outcomes \in Seq(Outcomes) /\ r <= DeepLimit
        /\ \A i \in 1..Len(outcomes) : outcomes[i].page \in CheckedPages
        /\ \A i, j \in 1..Len(outcomes) : outcomes[i].page = outcomes[j].page => i = j
    BY TriedOnce
  <1>2. SelectedPages = selected
    BY DEF SelectedPages, Filtered
  <1>3. r = Cardinality(ReadAt(outcomes)) /\ r \in Nat /\ IsFiniteSet(ReadAt(outcomes)) /\ DeepLimit \in Nat
    BY <1>1, ReadIsCounted, SiteCrawlAssumption
  <1>4. failed \in Seq(Outcomes)
    <2>1. at1 \in SUBSET (1..Len(outcomes))
      BY <1>1
    <2> HIDE DEF at1, outcomes
    <2> QED
      BY <1>1, <2>1, PickedItems
  <1> HIDE DEF failed, r
  <1>5. k \in 0..Len(failed) /\ k <= DeepLimit - r /\ Len(failed) \in Nat
    <2>1. DeepLimit - r \in Nat /\ Len(failed) \in Nat
      BY <1>1, <1>3, <1>4
    <2>2. Max({0, DeepLimit - r}) = DeepLimit - r
      BY <2>1, MaxOfRest
    <2> QED
      BY <2>1, <2>2, MinOfTwo
  <1> HIDE DEF k
  <1>6. fill \in Seq(Outcomes) /\ Len(fill) = k
    BY <1>4, <1>5
  <1> HIDE DEF fill
  <1>7. at2 \subseteq ReadAt(outcomes) \cup extra /\ at2 \in SUBSET (1..Len(outcomes))
    BY <1>1, <1>6 DEF ReadAt, Range
  <1>8. IsFiniteSet(extra) /\ Cardinality(extra) \in Nat /\ Cardinality(extra) <= k
    <2>1. \A i, j \in 1..Len(outcomes) : outcomes[i] = outcomes[j] => i = j
      BY <1>1
    <2> DEFINE e == extra
    <2>2. e = {i \in 1..Len(outcomes) : \E n \in 1..Len(fill) : outcomes[i] = fill[n]}
      OBVIOUS
    <2> HIDE DEF e, outcomes
    <2>3. IsFiniteSet(e) /\ Cardinality(e) \in Nat /\ Cardinality(e) <= Len(fill)
      BY <1>1, <1>6, <2>1, <2>2, FewPositions
    <2> QED
      BY <1>6, <2>3 DEF e
  <1> HIDE DEF extra, at2, outcomes
  <1>9. Cardinality(at2) <= DeepLimit
    <2>1. /\ IsFiniteSet(ReadAt(outcomes) \cup extra)
          /\ Cardinality(ReadAt(outcomes) \cup extra)
               = Cardinality(ReadAt(outcomes)) + Cardinality(extra) - Cardinality(ReadAt(outcomes) \cap extra)
      BY <1>3, <1>8, FS_Union
    <2>2. Cardinality(ReadAt(outcomes) \cap extra) \in Nat
      <3>1. IsFiniteSet(ReadAt(outcomes) \cap extra)
        BY <1>8, FS_Subset
      <3> QED
        BY <3>1, FS_CardinalityType
    <2>3. IsFiniteSet(at2) /\ Cardinality(at2) <= Cardinality(ReadAt(outcomes) \cup extra)
      BY <1>7, <2>1, FS_Subset
    <2>4. Cardinality(at2) \in Nat /\ Cardinality(ReadAt(outcomes) \cup extra) \in Nat
      BY <2>1, <2>3, FS_CardinalityType
    <2> QED
      BY <1>3, <1>5, <1>8, <2>1, <2>2, <2>3, <2>4
  <1>10. selected \in Seq(Outcomes) /\ Len(selected) = Cardinality(at2)
    BY <1>1, <1>7, PickedItems
  <1>11a. PICK from : PickedFrom(outcomes, at2, from)
    <2>1. outcomes \in Seq(Outcomes) /\ at2 \in SUBSET (1..Len(outcomes))
      BY <1>1, <1>7
    <2> QED
      BY <2>1, PickedHasOrder
  <1>11. /\ from \in [1..Cardinality(at2) -> at2]
         /\ \A n \in 1..Cardinality(at2) : Picked(outcomes, at2)[n] = outcomes[from[n]]
         /\ \A m, n \in 1..Cardinality(at2) : m < n => from[m] < from[n]
    BY <1>11a DEF PickedFrom
  <1> HIDE DEF selected
  <1>16. \A n \in 1..Cardinality(at2) : selected[n] = outcomes[from[n]]
    BY <1>11 DEF selected
  <1>12. \A n \in 1..Len(selected) : from[n] \in 1..Len(outcomes) /\ selected[n] = outcomes[from[n]]
    BY <1>7, <1>10, <1>11, <1>16
  <1>13. \A m, n \in 1..Len(selected) : from[m] = from[n] => m = n
    <2> SUFFICES ASSUME NEW m \in 1..Len(selected), NEW n \in 1..Len(selected), from[m] = from[n] PROVE m = n
      OBVIOUS
    <2>1. from[m] \in Nat /\ from[n] \in Nat /\ m \in Nat /\ n \in Nat
      BY <1>1, <1>12
    <2>2. ~(m < n) /\ ~(n < m)
      BY <1>10, <1>11, <2>1
    <2> QED
      BY <2>1, <2>2
  <1>14. \A i \in 1..Len(selected) : selected[i].page \in CheckedPages
    BY <1>1, <1>12
  <1>15. \A i, j \in 1..Len(selected) : selected[i].page = selected[j].page => i = j
    BY <1>1, <1>12, <1>13
  <1> QED
    BY <1>2, <1>9, <1>10, <1>14, <1>15

\* The inventory that is handed over passes its validation (validate_inventory_counts).
LEMMA InventoryIsValid == CrawlInv /\ crawlPhase = "done" => ValidInventory(Inventory, SelectedPages)
  <1> SUFFICES ASSUME CrawlInv, crawlPhase = "done" PROVE ValidInventory(Inventory, SelectedPages)
    OBVIOUS
  <1> DEFINE selected == SelectedPages
             checked == {p \in Range(Inventory) : p.checked}
             pageOf == [i \in 1..Len(selected) |-> selected[i].page]
  <1>1. /\ Inventory \in Seq(Records) /\ Len(Inventory) <= DiscoveryLimit /\ Len(Inventory) <= Len(crawl.pages)
        /\ \A i \in 1..Len(Inventory) : Inventory[i] = crawl.pages[i]
        /\ IsFiniteSet(CheckedPages) /\ \A p, q \in CheckedPages : p.url = q.url => p = q
    BY InventoryIsOfThePages
  <1>2. /\ selected \in Seq(Outcomes) /\ Len(selected) <= DeepLimit
        /\ \A i \in 1..Len(selected) : selected[i].page \in CheckedPages
        /\ \A i, j \in 1..Len(selected) : selected[i].page = selected[j].page => i = j
    BY SelectedIsSo
  <1>3. checked = CheckedPages
    BY DEF CheckedPages
  <1>a. Len(crawl.pages) \in Nat /\ \A i, j \in 1..Len(crawl.pages) : crawl.pages[i].url = crawl.pages[j].url => i = j
    BY DEF CrawlInv, CrawlShape, States, SoundState
  <1> HIDE DEF selected, checked
  <1>4. IsInjective(Urls(Inventory))
    <2>1. DOMAIN Urls(Inventory) = 1..Len(Inventory) /\ \A i \in 1..Len(Inventory) : Urls(Inventory)[i] = Inventory[i].url
      BY <1>1 DEF Urls
    <2>2. \A i \in 1..Len(Inventory) : i \in 1..Len(crawl.pages)
      BY <1>1, <1>a
    <2> QED
      BY <1>1, <1>a, <2>1, <2>2 DEF IsInjective
  <1>5. IsInjective([i \in DOMAIN selected |-> selected[i].page.url])
    <2> DEFINE urls == [i \in DOMAIN selected |-> selected[i].page.url]
    <2>1. DOMAIN urls = 1..Len(selected) /\ \A i \in 1..Len(selected) : urls[i] = selected[i].page.url
      BY <1>2
    <2> HIDE DEF urls
    <2>2. \A i, j \in 1..Len(selected) : urls[i] = urls[j] => i = j
      BY <1>1, <1>2, <2>1
    <2>3. IsInjective(urls)
      BY <2>1, <2>2 DEF IsInjective
    <2> QED
      BY <2>3 DEF urls
  <1>6. \A i \in DOMAIN selected : selected[i].page.url \in {p.url : p \in checked}
    BY <1>2, <1>3
  <1>7. Len(Read(selected)) <= Cardinality(checked)
    <2>1. /\ Len(Read(selected)) = Cardinality(ReadAt(selected)) /\ ReadAt(selected) \in SUBSET (1..Len(selected))
          /\ Cardinality(ReadAt(selected)) \in Nat
      BY <1>2, ReadIsCounted
    <2>2. IsFiniteSet(1..Len(selected)) /\ Len(selected) \in Nat
      BY <1>2, FS_Interval
    <2>3. pageOf \in Injection(1..Len(selected), CheckedPages)
      <3>1. pageOf \in [1..Len(selected) -> CheckedPages] /\ DOMAIN pageOf = 1..Len(selected)
        BY <1>2
      <3>2. \A i, j \in 1..Len(selected) : pageOf[i] = pageOf[j] => i = j
        BY <1>2
      <3> HIDE DEF pageOf
      <3> QED
        BY <3>1, <3>2 DEF Injection, IsInjective
    <2>4. Cardinality(1..Len(selected)) <= Cardinality(CheckedPages)
      <3> HIDE DEF pageOf
      <3> QED
        BY <1>1, <2>3, FS_Injection
    <2>5. Cardinality(ReadAt(selected)) <= Cardinality(1..Len(selected))
      BY <2>1, <2>2, FS_Subset
    <2>6. Cardinality(CheckedPages) \in Nat /\ Cardinality(1..Len(selected)) \in Nat
      BY <1>1, <2>2, FS_CardinalityType
    <2> QED
      BY <1>3, <2>1, <2>4, <2>5, <2>6
  <1>8. ValidInventory(Inventory, selected)
    BY <1>1, <1>2, <1>4, <1>5, <1>6, <1>7 DEF ValidInventory, checked
  <1> QED
    BY <1>8 DEF selected

\* A sound crawl is what the collector promises.
LEMMA CrawlInvIsSound == CrawlInv => CrawlIsSound
  <1> SUFFICES ASSUME CrawlInv PROVE CrawlIsSound
    OBVIOUS
  <1>a. crawl \in States /\ SoundState(crawl) /\ fetches \in [Site -> Nat] /\ Len(crawl.pages) \in Nat /\ crawl.pages \in Seq(Records)
    BY DEF CrawlInv, CrawlShape, States
  <1>1. ASSUME NEW url \in DOMAIN fetches
        PROVE  fetches[url] <= Len(crawl.pages) + 3 /\ (fetches[url] > 0 => url = Root \/ url \notin Disallowed)
    <2>1. url \in Site /\ fetches[url] \in Nat
      BY <1>a, <1>1
    <2>2. fetches[url] + Due(crawl, url) <= Len(crawl.pages) + Rounds
      BY <2>1 DEF CrawlInv, AsksCounted
    <2>3. Due(crawl, url) \in {0, 1} /\ Rounds \in {0, 2, 3}
      BY DEF Due, Rounds
    <2>4. fetches[url] > 0 => url = Root \/ url \notin Disallowed
      BY <2>1 DEF CrawlInv, AskedAllowed, Asked
    <2> QED
      BY <1>a, <2>1, <2>2, <2>3, <2>4
  <1>2. IsInjective(Urls(crawl.pages))
    <2>1. DOMAIN Urls(crawl.pages) = 1..Len(crawl.pages) /\ \A i \in 1..Len(crawl.pages) : Urls(crawl.pages)[i] = crawl.pages[i].url
      BY <1>a DEF Urls
    <2> QED
      BY <1>a, <2>1 DEF IsInjective, SoundState
  <1>3. ASSUME crawlPhase = "done", ~crawl.cut, NEW i \in DOMAIN crawl.pages, crawl.pages[i].follow,
               NEW url \in Range(crawl.pages[i].links) \ Disallowed
        PROVE  fetches[url] > 0 \/ PageAt(crawl, url) # {} \/ SkipsContact(crawl, url) \/ IsAdminPage(url)
    <2>1. crawl.queue = <<>> /\ crawl.error = "none" /\ i \in 1..Len(crawl.pages)
      BY <1>3, <1>a DEF CrawlInv, WhenReading
    <2>2. Handled(crawl, Asked, url)
      BY <1>3, <2>1 DEF CrawlInv, LinksCovered
    <2>3. ~Waits(crawl, url)
      BY <1>a, <2>1 DEF SoundState, Waits
    <2>4. HasPage(crawl, url) => PageAt(crawl, url) # {}
      BY <1>a DEF HasPage, PageAt
    <2> QED
      BY <2>2, <2>3, <2>4 DEF Handled, Asked
  <1>4. crawlPhase = "done" => ValidInventory(Inventory, SelectedPages)
    BY InventoryIsValid
  <1> QED
    BY <1>1, <1>2, <1>3, <1>4 DEF CrawlIsSound

\* The type invariant of the crawl is part of it.
LEMMA CrawlInvIsTyped == CrawlInv => CrawlTypeOK
  <1> SUFFICES ASSUME CrawlInv PROVE CrawlTypeOK
    OBVIOUS
  <1>1. /\ crawlPhase \in {"start", "drain", "redrain", "deep", "done", "failed"} /\ crawlMode \in Modes
        /\ crawl.cut \in BOOLEAN /\ crawl.seen \in BOOLEAN /\ crawl.queue \in Seq(Site) /\ SoundState(crawl)
    BY DEF CrawlInv, CrawlShape, States
  <1>2. Range(crawl.queue) \subseteq Site /\ \A i \in 1..Len(crawl.queue) : crawl.queue[i] \in Range(crawl.queue)
    BY <1>1 DEF Range
  <1>3. {c.url : c \in crawl.cands} \subseteq Range(crawl.queue)
    BY <1>1, <1>2 DEF SoundState
  <1> QED
    BY <1>1, <1>2, <1>3 DEF CrawlTypeOK, Site

\* Before anything was asked for, the crawl is sound.
LEMMA CrawlInitIsSound == CrawlInit => CrawlInv
  <1> SUFFICES ASSUME CrawlInit PROVE CrawlInv
    OBVIOUS
  <1>1. /\ crawl = [queue |-> <<>>, cands |-> {}, pages |-> <<>>, cut |-> FALSE, seen |-> FALSE, error |-> "none"]
        /\ crawlPhase = "start" /\ crawlMode \in Modes
        /\ contacts = <<>> /\ deep = [todo |-> <<>>, outcomes |-> <<>>]
        /\ fetches = [url \in Site |-> 0]
    BY DEF CrawlInit, Site
  <1>2. CrawlShape
    BY <1>1 DEF CrawlShape, States
  <1>3. Asked = {} /\ Len(crawl.pages) = 0
    BY <1>1 DEF Asked
  <1>4. SoundState(crawl) /\ LinksCovered(crawl, Asked)
    BY <1>1, <1>3 DEF SoundState, LinksCovered
  <1>5. AsksCounted
    BY <1>1, <1>3 DEF AsksCounted, Due, Rounds
  <1>6. IsInjective(contacts)
    BY <1>1 DEF IsInjective
  <1> QED
    BY <1>1, <1>2, <1>3, <1>4, <1>5, <1>6 DEF CrawlInv, AskedAllowed, BeforeStart, AfterStart, NothingRead, WhenReading

\* Each step keeps the crawl sound.
LEMMA CrawlInvHolds == CrawlSpec => []CrawlInv
  <1>1. CrawlInv /\ [CrawlNext]_crawlVars => CrawlInv'
    <2> SUFFICES ASSUME CrawlInv, [CrawlNext]_crawlVars PROVE CrawlInv'
      OBVIOUS
    <2>1. CASE CrawlNext
      BY <2>1, StartCrawlKeeps, CheckBatchKeeps, CrawlRaisesKeeps, MapSiteKeeps, EndDiscoveryKeeps, ReadDeeplyKeeps, EndCrawlKeeps
         DEF CrawlNext
    <2>2. CASE UNCHANGED crawlVars
      <3>1. UNCHANGED <<crawl, crawlPhase, crawlMode, contacts, deep, fetches>>
        BY <2>2 DEF crawlVars
      <3>2. CrawlShape' /\ SoundState(crawl)' /\ AskedAllowed' /\ IsInjective(contacts)'
        BY <3>1 DEF CrawlInv, CrawlShape, SoundState, AskedAllowed, Asked
      <3>3. LinksCovered(crawl, Asked)'
        BY <3>1 DEF CrawlInv, LinksCovered, Asked, Handled, Waits, HasPage, SkipsContact
      <3>4. AsksCounted' /\ BeforeStart' /\ AfterStart' /\ NothingRead'
        BY <3>1 DEF CrawlInv, AsksCounted, Due, Rounds, BeforeStart, AfterStart, NothingRead, Asked
      <3>5. ReadPages' = ReadPages /\ CheckedPages' = CheckedPages
        BY <3>1 DEF ReadPages, CheckedPages, Inventory
      <3>6. WhenReading'
        BY <3>1, <3>5 DEF CrawlInv, WhenReading, DeepOnce
      <3> QED
        BY <3>2, <3>3, <3>4, <3>6 DEF CrawlInv
    <2> QED
      BY <2>1, <2>2
  <1> QED
    BY <1>1, CrawlInitIsSound, PTL DEF CrawlSpec

\* The crawl is of the form that the collector's records have, whatever pages answer.
THEOREM CrawlIsTyped == CrawlSpec => []CrawlTypeOK
  BY CrawlInvHolds, CrawlInvIsTyped, PTL

\* Whatever pages name each other as canonical while they wait or are in the same batch,
\* the inventory that is handed over is valid, nothing forbidden is asked for, no address
\* is asked for more often than there are pages, and no link is lost below the limits.
THEOREM CrawlStaysSound == CrawlSpec => []CrawlIsSound
  BY CrawlInvHolds, CrawlInvIsSound, PTL
=============================================================================
