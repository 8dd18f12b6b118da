------------------------------ MODULE SiteCrawl ------------------------------
(***************************************************************************)
(* The inventory of a site (SiteInventoryCollector): a bounded crawl that  *)
(* checks pages in batches, merges addresses that name the same page, and  *)
(* then reads the key pages in depth.  What a page answers is chosen when  *)
(* it is asked, so that a site may change while it is read.                *)
(***************************************************************************)
EXTENDS SiteInventory

CONSTANTS
    Modes,              \* of "v1", "v2" (resource limits) and "v3" (and contact pages)
    DiscoveryLimit, DeepLimit, BatchSize,
    KnownLimit,         \* of how many addresses a small site has, whose contact pages are sought
    StructuralBytes,    \* of a page that is checked, that is read in depth, and that is a
    DeepBytes,          \* contact page: no more is kept
    ContactBytes,
    Answers(_),         \* what the page at an address may send
    Disallowed,         \* addresses that robots.txt forbids
    SitemapResults,     \* sequences of addresses that reading sitemaps may come to
    MapResults          \* sequences of links that the mapping service may answer

\* A canonical address as a link that names it.
LinkTo(url) == [web |-> TRUE, login |-> FALSE, host |-> "site", port |-> 0, path |-> url.path, query |-> url.query]

\* What is named is an address of the site in its form, or is not followed.
NamesPages(links) ==
    /\ links \in Seq(Range(links))
    /\ \A link \in Range(links) : Canonicalize(link) \in Range(UrlOrder) \cup {NoUrl}

\* What a page sends: nothing of it is cut before it is read.
IsAnswer(answer) ==
    /\ DOMAIN answer = {"ok", "status", "truncated", "size", "robots", "signals", "canonical", "links", "named", "final"}
    /\ answer.ok \in BOOLEAN /\ answer.truncated = FALSE /\ answer.size \in Nat
    /\ NamesPages(answer.links) /\ answer.canonical \in Range(UrlOrder) \cup {NoUrl}

ASSUME SiteCrawlAssumption ==
    /\ {DiscoveryLimit, DeepLimit, BatchSize} \subseteq Nat \ {0}
    /\ {KnownLimit, StructuralBytes, DeepBytes, ContactBytes} \subseteq Nat
    /\ UrlOrder \in Seq(Range(UrlOrder)) /\ Root \in Range(UrlOrder)
    /\ \A url \in Range(UrlOrder) :
          /\ url # NoUrl /\ Canonicalize(LinkTo(url)) = url /\ url.path \in Seq(Range(url.path))
          /\ \A answer \in Answers(url) : IsAnswer(answer)
    /\ SitemapResults \subseteq Seq(Range(UrlOrder))
    /\ \A links \in MapResults : NamesPages(links)

VARIABLES
    crawl,      \* [queue, cands, pages, cut, seen, error]: the addresses waiting, the records,
                \* whether the limit was met and whether a contact page was checked
    crawlPhase, \* "start", "drain", "map", "redrain", "deep", "done" or "failed"
    crawlMode,
    contacts,   \* the addresses of contact pages that are wanted
    deep,       \* [todo, outcomes]: ranked pages to read, and those that were tried
    fetches     \* how often each address was asked for as a candidate, a count for the properties

crawlVars == <<crawl, crawlPhase, crawlMode, contacts, deep, fetches>>

CrawlInit ==
    /\ crawl = [queue |-> <<>>, cands |-> {}, pages |-> <<>>, cut |-> FALSE, seen |-> FALSE, error |-> "none"]
    /\ crawlPhase = "start" /\ crawlMode \in Modes
    /\ contacts = <<>>
    /\ deep = [todo |-> <<>>, outcomes |-> <<>>]
    /\ fetches = [url \in Range(UrlOrder) |-> 0]

-----------------------------------------------------------------------------
PageAt(st, url) == {i \in DOMAIN st.pages : st.pages[i].url = url}
SamplingQuality == crawlMode \in {"v2", "v3"}

\* One contact page that was checked is enough: no other is wanted any more.
SkipsContact(st, url) ==
    crawlMode = "v3" /\ st.seen /\ contacts # <<>> /\ url \in Range(Tail(contacts))

Candidate(url, source, depth) == [url |-> url, sources |-> {source}, depth |-> depth, kept |-> {}]

\* add_candidate: a link joins the record or the candidate with its address, or waits.
AddCandidate(st, link, source, depth) ==
    LET url == Canonicalize(link)
        known == {c \in st.cands : c.url = url}
        here == PageAt(st, url)
    IN  CASE \/ SkipsContact(st, url) \/ url = NoUrl
             \/ SamplingQuality /\ IsAdminPage(link)
             \/ source # "seed" /\ url \in Disallowed -> st
          [] OTHER ->
             CASE here # {} -> [st EXCEPT !.pages[Min(here)].sources = @ \cup {source}]
               [] here = {} /\ known # {} ->
                    [st EXCEPT !.cands = (@ \ known) \cup
                        {[c EXCEPT !.sources = @ \cup {source}, !.depth = Min({@, depth})] : c \in known}]
               [] here = {} /\ known = {} /\ Len(st.pages) + Cardinality(st.cands) >= DiscoveryLimit ->
                    [st EXCEPT !.cut = TRUE]
               [] OTHER ->
                    [st EXCEPT !.cands = @ \cup {Candidate(url, source, depth)},
                               !.queue = Append(@, url)]

AddAll(st, links, source, depth) ==
    FoldLeft(LAMBDA s, link : AddCandidate(s, link, source, depth), st, links)

LinksTo(urls) == [i \in DOMAIN urls |-> LinkTo(urls[i])]

\* What is kept of an answer: all of it, its beginning if that is enough, or nothing.
Fetched(answer, limit, prefix) ==
    [answer EXCEPT !.ok = @ /\ (prefix \/ answer.size <= limit), !.truncated = answer.size > limit]

\* What a candidate may be answered; the home page was asked for before.
Responses(cand) ==
    LET contact == cand.url \in Range(contacts)
        limit == IF contact THEN ContactBytes ELSE StructuralBytes
    IN  IF cand.kept # {} THEN cand.kept
        ELSE {Fetched(answer, limit, crawlMode # "v1" /\ ~contact) : answer \in Answers(cand.url)}

\* A page that was wanted as a contact page is one if its headings or markup say so.
CheckedType(url, shown) ==
    LET type == ClassifyPage(url, shown)
    IN  CASE url \notin Range(contacts) -> type
          [] url \in Range(contacts) /\ {"contact_page", "contact_heading"} \cap shown # {} -> "contact"
          [] OTHER -> IF type = "contact" THEN "other" ELSE type

\* _check_candidate: the record of a page that was asked for.  A page of which only
\* the beginning was read shows its links and nothing else.
Checked(cand, response) ==
    LET whole == response.ok /\ ~response.truncated
    IN  [url |-> cand.url, sources |-> cand.sources, depth |-> cand.depth, checked |-> response.ok,
         status |-> response.status, cut |-> response.truncated, size |-> response.size, final |-> response.final,
         matches |-> 0,
         noindex |-> whole /\ "noindex" \in response.robots,
         follow |-> response.ok /\ (whole => "nofollow" \notin response.robots),
         canonical |-> IF whole THEN response.canonical ELSE NoUrl,
         links |-> IF response.ok THEN Addresses(response.links, TRUE) ELSE <<>>,
         contactPage |-> whole /\ "contact_page" \in response.signals,
         type |-> CASE whole -> CheckedType(cand.url, response.signals)
                    [] response.ok /\ ~whole -> ClassifyPage(cand.url, {})
                    [] OTHER -> "other"]

\* A contact page that was wanted was checked, all of it.
Confirms(record) ==
    record.url \in Range(contacts) /\ record.checked /\ record.type = "contact" /\ record.status < 400 /\ ~record.cut

\* Mutant: the canonical address is taken without looking for a record that has it.
RecordUnmerged(st, record) ==
    [st EXCEPT !.pages = Append(@, [record EXCEPT !.url = IF record.canonical # NoUrl THEN record.canonical ELSE @])]

\* One result of a batch: stored under its canonical address, merged with the record
\* that is there already, and its links followed unless the page forbids it.
RecordChecked(st, record) ==
    LET chosen == IF "seed" \notin record.sources /\ record.canonical # NoUrl THEN record.canonical ELSE record.url
        alias == IF chosen = record.url THEN {} ELSE {c \in st.cands : c.url = chosen}
        sources == record.sources \cup UNION {c.sources : c \in alias}
        depth == Min({record.depth} \cup {c.depth : c \in alias})
        here == PageAt(st, chosen)
        popped == [st EXCEPT !.cands = @ \ alias]
        stored == [record EXCEPT !.url = chosen, !.sources = sources, !.depth = depth]
        listed == [popped EXCEPT !.pages = Append(@, stored), !.seen = @ \/ Confirms(record)]
    IN  CASE st.error # "none" -> st
          [] st.error = "none" /\ here # {} ->
                [popped EXCEPT !.pages[Min(here)].sources = @ \cup sources, !.pages[Min(here)].depth = Min({@, depth})]
          [] st.error = "none" /\ here = {} /\ chosen # record.url /\ crawlMode # "v1" ->
                \* the record of the later schema is validated against the first one
                [popped EXCEPT !.error = "extra_forbidden"]
          [] OTHER ->
                IF ~record.follow THEN listed
                ELSE AddAll(listed, LinksTo(record.links), "internal_link", depth + 1)

RecordAll(st, records) == FoldLeft(RecordChecked, st, records)

\* The next address of the queue joins the batch while there is one and room for it, if
\* its candidate was not merged away in the meantime and is still wanted.
TakeNext(taken, size) ==
    LET url == Head(taken.st.queue)
        found == {c \in taken.st.cands : c.url = url}
        rest == [taken.st EXCEPT !.queue = Tail(@), !.cands = @ \ found]
    IN  CASE taken.st.queue = <<>> \/ Len(taken.batch) = size -> taken
          [] taken.st.queue # <<>> /\ Len(taken.batch) # size /\ (found = {} \/ SkipsContact(taken.st, url)) -> [taken EXCEPT !.st = rest]
          [] OTHER -> [st |-> rest, batch |-> Append(taken.batch, CHOOSE c \in found : TRUE)]

\* What a batch takes from the front of the queue, which gets no longer meanwhile.
TakeBatch(st, size) ==
    FoldLeft(LAMBDA taken, url : TakeNext(taken, size), [st |-> st, batch |-> <<>>], st.queue)

ContactPath(url) == url.path # <<>> /\ Last(url.path) = "contact"

\* discover_contacts: the pages that the home page names, and those of them where to get
\* in touch, the ones that a link calls so first.
NamedBy(home) == {url \in Range(Addresses(home.links, TRUE)) : ~IsAdminPage(url)}
ContactLinks(home) ==
    LET found == {url \in NamedBy(home) \ {Root} : url \in home.named \/ ContactPath(url)}
        rank(url) == (IF url \in home.named THEN 0 ELSE 2) + (IF ContactPath(url) THEN 0 ELSE 1)
        before(a, b) == \/ rank(a) < rank(b)
                        \/ rank(a) = rank(b) /\ Len(a.path) < Len(b.path)
                        \/ rank(a) = rank(b) /\ Len(a.path) = Len(b.path) /\ Place(a) < Place(b)
    IN  Arranged(found, {p \in found \X found : before(p[1], p[2])})

RoomForContacts == DiscoveryLimit >= 2 /\ DeepLimit >= 2
Allowed(urls) == Filtered(urls, LAMBDA url : url \notin Disallowed)
FirstTwo(urls) == SubSeq(EachOnce(urls), 1, Min({2, Len(EachOnce(urls))}))

\* Contact pages are sought for unless the home page has all that one should.
SeeksContacts(home) ==
    crawlMode = "v3" /\ RoomForContacts /\ (home.truncated \/ ~({"contact_page", "contact_details"} \subseteq home.signals))

\* A second look at a home page that was cut before a contact page was named.
Scanned(home) ==
    IF crawlMode = "v3" /\ ContactLinks(home) = <<>> /\ home.truncated /\ Root \notin Disallowed /\ RoomForContacts
    THEN {home} \cup {a \in {Fetched(answer, ContactBytes, FALSE) : answer \in Answers(Root)} : a.ok /\ a.status < 400}
    ELSE {home}

\* What is found before the first batch is [st, urls, known]: the state, the contact pages
\* that are wanted, and the addresses that were named.  First the home page's.
FollowHome(home) ==
    LET small == Cardinality(NamedBy(home) \cup {Root}) <= KnownLimit
        urls == IF SeeksContacts(home) /\ small THEN FirstTwo(Allowed(ContactLinks(home))) ELSE <<>>
        seeded == [crawl EXCEPT !.queue = <<Root>>, !.cands = {[Candidate(Root, "seed", 0) EXCEPT !.kept = {home}]}]
    IN  [st |-> AddAll(seeded, LinksTo(urls), "internal_link", 1), urls |-> urls, known |-> NamedBy(home)]

\* Then a sitemap's, of a small site the contact pages before the others.
FollowSitemap(found, home, all) ==
    LET limit == IF crawlMode = "v3" THEN Max({DiscoveryLimit, KnownLimit + 1}) ELSE DiscoveryLimit
        listed == SubSeq(all, 1, Min({Len(all), limit}))
        named == found.known \cup {c.url : c \in found.st.cands} \cup Range(listed)
        urls == FirstTwo(found.urls \o Allowed(Filtered(UrlOrder, LAMBDA url : url \in Range(listed) /\ ContactPath(url))))
        with(wanted, order) ==
            [st |-> AddAll(found.st, LinksTo(order), "sitemap", 1), urls |-> wanted, known |-> found.known \cup Range(order)]
    IN  CASE Cardinality(found.st.cands) >= DiscoveryLimit -> found
          [] Cardinality(found.st.cands) < DiscoveryLimit /\ SeeksContacts(home) /\ Cardinality(named) <= KnownLimit ->
                with(urls, urls \o Filtered(listed, LAMBDA url : url \notin Range(urls)))
          [] OTHER -> with(found.urls, listed)

\* The sitemaps that robots.txt declares, if it does, and the default one unless it is of them.
FollowSitemaps(found, home) ==
    LET once == {FollowSitemap(found, home, listed) : listed \in SitemapResults}
    IN  once \cup {FollowSitemap(f, home, listed) : f \in once, listed \in SitemapResults}

\* Everything up to the first batch: the home page, the contacts it names, sitemaps.
StartCrawl ==
    /\ crawlPhase = "start"
    /\ \E answer \in Answers(Root) : \E root \in {Fetched(answer, StructuralBytes, crawlMode # "v1")} :
        IF ~root.ok \/ root.status >= 400
        THEN crawlPhase' = "failed" /\ UNCHANGED <<crawl, contacts>>
        ELSE \E home \in Scanned(root) : \E found \in FollowSitemaps(FollowHome(home), home) :
                crawl' = found.st /\ contacts' = found.urls /\ crawlPhase' = "drain"
    /\ fetches' = [fetches EXCEPT ![Root] = @ + 1]
    /\ UNCHANGED <<crawlMode, deep>>

\* _drain_candidates: the pages of a batch are asked for together and then recorded
\* one by one, with no step of another task in between.
CheckBatch ==
    /\ crawlPhase \in {"drain", "redrain"} /\ crawl.error = "none" /\ crawl.queue # <<>>
    /\ LET taken == TakeBatch(crawl, IF contacts # <<>> THEN 1 ELSE BatchSize)
           batch == taken.batch
       IN  \E given \in {f \in [DOMAIN batch -> UNION {Responses(batch[i]) : i \in DOMAIN batch}] :
                            \A i \in DOMAIN batch : f[i] \in Responses(batch[i])} :
             /\ crawl' = RecordAll(taken.st, [i \in DOMAIN batch |-> Checked(batch[i], given[i])])
             /\ fetches' = [url \in DOMAIN fetches |->
                    fetches[url] + Cardinality({i \in DOMAIN batch : batch[i].url = url /\ batch[i].kept = {}})]
    /\ UNCHANGED <<crawlPhase, crawlMode, contacts, deep>>

\* The model validation of a record fails, which nothing in the collector handles.
CrawlRaises ==
    /\ crawlPhase \in {"drain", "redrain"} /\ crawl.error # "none"
    /\ crawlPhase' = "failed"
    /\ UNCHANGED <<crawl, crawlMode, contacts, deep, fetches>>

\* The mapping service is asked once, for what is missing.
MapSite ==
    /\ crawlPhase = "drain" /\ crawl.queue = <<>> /\ crawl.error = "none" /\ Len(crawl.pages) < DiscoveryLimit
    /\ \E links \in MapResults :
          crawl' = AddAll(crawl, SubSeq(links, 1, Min({Len(links), DiscoveryLimit - Len(crawl.pages)})), "firecrawl_map", 1)
    /\ crawlPhase' = "redrain"
    /\ UNCHANGED <<crawlMode, contacts, deep, fetches>>

Inventory == SubSeq(crawl.pages, 1, Min({Len(crawl.pages), DiscoveryLimit}))
CheckedPages == {p \in Range(Inventory) : p.checked}

\* The contact pages of a small site that are reserved, unless its home page is one.
HomeIsContact == \E p \in CheckedPages : p.type = "home" /\ p.status < 400 /\ ~p.noindex /\ p.contactPage
Reserved ==
    LET found == Filtered(contacts, LAMBDA url :
                    \E p \in CheckedPages : p.url = url /\ p.type = "contact" /\ p.status < 400)
    IN  IF crawlMode # "v3" \/ Len(Inventory) > KnownLimit \/ DeepLimit < 2 \/ HomeIsContact THEN <<>>
        ELSE [i \in DOMAIN found |-> CHOOSE p \in CheckedPages : p.url = found[i]]

\* prioritize_contacts: what is reserved comes right after the home page.
PrioritizeContacts(ranked) ==
    LET home == Filtered(ranked, LAMBDA p : p.type = "home")
    IN  IF Reserved = <<>> THEN ranked
        ELSE home \o Reserved \o Filtered(ranked, LAMBDA p : p \notin Range(home) \cup Range(Reserved))

\* The crawl is over: what was found is ranked, or there is nothing to rank.
EndDiscovery ==
    /\ crawlPhase \in {"drain", "redrain"} /\ crawl.queue = <<>> /\ crawl.error = "none"
    /\ crawlPhase = "redrain" \/ Len(crawl.pages) >= DiscoveryLimit
    /\ crawlPhase' = IF \E i \in DOMAIN crawl.pages : crawl.pages[i].checked THEN "deep" ELSE "failed"
    /\ deep' = [deep EXCEPT !.todo = PrioritizeContacts(SelectKeyPages(CheckedPages, Cardinality(CheckedPages), <<>>))]
    /\ UNCHANGED <<crawl, crawlMode, contacts, fetches>>

Read(outcomes) == Filtered(outcomes, LAMBDA o : o.read)
SkipsDeep(page) ==
    \/ SamplingQuality /\ (IsAdminPage(page.url) \/ IsAdminPage(page.final))
    \/ page \in Range(Reserved) /\ \E i \in DOMAIN deep.outcomes : deep.outcomes[i].read /\ deep.outcomes[i].page.type = "contact"

\* What was read before is used unless it was cut, or may have been.
Reused(page) == ~page.cut /\ page.status < 400 /\ (page.size >= StructuralBytes => crawlMode = "v3")
BytesOf(page) == IF crawlMode = "v3" /\ page.type \in {"home", "contact"} THEN ContactBytes ELSE DeepBytes

\* What was read is evidence, for the contact pages only of a page in the scope.
Usable(status, final) == status < 400 /\ (crawlMode = "v3" => Canonicalize(final) # NoUrl /\ ~IsAdminPage(final))

\* _collect_deep_pages, one page.
ReadDeeply ==
    /\ crawlPhase = "deep" /\ deep.todo # <<>> /\ Len(Read(deep.outcomes)) < DeepLimit
    /\ LET page == Head(deep.todo)
           try(read) == [todo |-> Tail(deep.todo), outcomes |-> Append(deep.outcomes, [page |-> page, read |-> read])]
       IN  \/ SkipsDeep(page) /\ deep' = [deep EXCEPT !.todo = Tail(@)]
           \/ ~SkipsDeep(page) /\ Reused(page) /\ deep' = try(Usable(page.status, page.final))
           \/ /\ ~SkipsDeep(page) /\ ~Reused(page)
              /\ \E answer \in Answers(page.url) :
                    deep' = try(answer.ok /\ answer.size <= BytesOf(page) /\ Usable(answer.status, answer.final))
    /\ UNCHANGED <<crawl, crawlPhase, crawlMode, contacts, fetches>>

\* Failed pages fill the room that is left, in the order of the ranking.
SelectedPages ==
    LET failed == Filtered(deep.outcomes, LAMBDA o : ~o.read)
        fill == SubSeq(failed, 1, Min({Len(failed), Max({0, DeepLimit - Len(Read(deep.outcomes))})}))
    IN  Filtered(deep.outcomes, LAMBDA o : o.read \/ o \in Range(fill))

EndCrawl ==
    /\ crawlPhase = "deep" /\ (deep.todo = <<>> \/ Len(Read(deep.outcomes)) >= DeepLimit)
    /\ crawlPhase' = "done"
    /\ UNCHANGED <<crawl, crawlMode, contacts, deep, fetches>>

CrawlNext ==
    \/ StartCrawl \/ CheckBatch \/ CrawlRaises \/ MapSite \/ EndDiscovery \/ ReadDeeply \/ EndCrawl

CrawlSpec == CrawlInit /\ [][CrawlNext]_crawlVars

-----------------------------------------------------------------------------
CrawlTypeOK ==
    /\ crawlPhase \in {"start", "drain", "redrain", "deep", "done", "failed"} /\ crawlMode \in Modes
    /\ crawl.cut \in BOOLEAN /\ crawl.seen \in BOOLEAN /\ Range(crawl.queue) \subseteq Range(UrlOrder)
    /\ {c.url : c \in crawl.cands} \subseteq Range(crawl.queue)

Urls(pages) == [i \in DOMAIN pages |-> pages[i].url]

\* validate_inventory_counts, with the counts that the collector computes from these.
ValidInventory(pages, selected) ==
    /\ IsInjective(Urls(pages)) /\ Len(pages) <= DiscoveryLimit
    /\ IsInjective([i \in DOMAIN selected |-> selected[i].page.url]) /\ Len(selected) <= DeepLimit
    /\ \A i \in DOMAIN selected : selected[i].page.url \in {p.url : p \in {q \in Range(pages) : q.checked}}
    /\ Len(Read(selected)) <= Cardinality({p \in Range(pages) : p.checked})

\* Whatever pages name each other as canonical while they wait or are in the same
\* batch, the inventory has each page once, within the limits, and the pages that are
\* read in depth are checked pages of it (validate_inventory_counts); no page is asked
\* for that robots.txt forbids; an address that is merged away is asked for again only
\* when another page names it, so that the crawl ends; and unless the limit was met,
\* every link of a page that may be followed was asked for or has a record.
CrawlIsSound ==
    /\ \A url \in DOMAIN fetches : /\ fetches[url] <= Len(crawl.pages) + 3
                                 /\ fetches[url] > 0 => url = Root \/ url \notin Disallowed
    /\ IsInjective(Urls(crawl.pages))
    /\ crawlPhase = "done" =>
          /\ ValidInventory(Inventory, SelectedPages)
          /\ ~crawl.cut => \A i \in DOMAIN crawl.pages : crawl.pages[i].follow =>
                \A url \in Range(crawl.pages[i].links) \ Disallowed :
                    fetches[url] > 0 \/ PageAt(crawl, url) # {} \/ SkipsContact(crawl, url) \/ IsAdminPage(url)

\* A page that names another address as its canonical one is merged with the page
\* there, in every mode of the collector (_drain_candidates).
AliasesAreMerged == crawl.error = "none"
=============================================================================
