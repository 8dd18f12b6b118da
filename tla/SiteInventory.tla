---------------------------- MODULE SiteInventory ----------------------------
(***************************************************************************)
(* The algorithms that the collection of a site's pages is built from:     *)
(* addresses are brought to one form, a request follows redirects inside   *)
(* the site, robots.txt and sitemaps are read within limits, pages are     *)
(* classified and the key pages among them are selected.                   *)
(***************************************************************************)
EXTENDS Integers, FiniteSets, SequencesExt, FiniteSetsExt, Ordering

CONSTANTS
    SiteHosts,      \* the canonical host with and without www
    UrlOrder,       \* the addresses of the site in the order of their text
    MaxSitemaps, SitemapDepth, SitemapPages,
    MaxRedirects, MaxBytes

ASSUME SiteInventoryAssumption ==
    /\ MaxRedirects \in Nat /\ MaxBytes \in Nat
    /\ MaxSitemaps \in Nat /\ SitemapDepth \in Nat /\ SitemapPages \in Nat
    /\ UrlOrder \in Seq(Range(UrlOrder))

-----------------------------------------------------------------------------
(* Addresses.  A link is [web, login, host, port, path, query]; a path is a
   sequence of segments, a query a set of keys.                              *)

DefaultDocuments == {"index.html", "index.php"}
RejectedSegments == {"cart", "login", "wp-admin", "unsubscribe"}
StaticFiles == {"map.pdf", "logo.png"}
TrackingKeys == {"utm", "gclid"}
RejectedKeys == {"sort", "session"}
NoUrl == [path |-> <<>>, query |-> {"none"}]
Root == [path |-> <<>>, query |-> {}]

ResolveSegment(done, segment) ==
    CASE segment = "." -> done
      [] segment = ".." -> IF done = <<>> THEN done ELSE Front(done)
      [] OTHER -> Append(done, segment)
ResolvedPath(path) == FoldLeft(ResolveSegment, <<>>, path)

NormalizedPath(path) ==
    LET resolved == ResolvedPath(path)
    IN  IF resolved # <<>> /\ Last(resolved) \in DefaultDocuments THEN Front(resolved) ELSE resolved

PathIsExcluded(path) ==
    \/ Range(path) \cap RejectedSegments # {}
    \/ path # <<>> /\ Last(path) \in StaticFiles

\* What both forms of address have in common.
InSite(link) == link.web /\ ~link.login /\ link.host \in SiteHosts /\ link.port \in {0, 80, 443}

\* Mutant: the path is judged as it was written.
CanonicalizeRaw(link) ==
    IF ~InSite(link) \/ PathIsExcluded(link.path) \/ link.query \cap RejectedKeys # {} THEN NoUrl
    ELSE [path |-> NormalizedPath(link.path), query |-> link.query \ TrackingKeys]

Canonicalize(link) ==
    LET form(path) == IF PathIsExcluded(path) THEN NoUrl ELSE [path |-> path, query |-> link.query \ TrackingKeys]
    IN  IF InSite(link) /\ link.query \cap RejectedKeys = {} THEN form(NormalizedPath(link.path)) ELSE NoUrl

\* Of robots.txt and sitemaps: nothing is rejected, the query is kept.
ResourceUrl(link) ==
    IF InSite(link) THEN [path |-> NormalizedPath(link.path), query |-> link.query] ELSE NoUrl

IsAdminPage(link) == "wp-login.php" \in Range(link.path) \/ "wp-admin" \in Range(link.path) \/ "action" \in link.query

\* The links of a page or a file in their order, each once: to pages, or to files.
AddAddress(found, url) == IF url = NoUrl \/ url \in Range(found) THEN found ELSE Append(found, url)
EachOnce(urls) == FoldLeft(AddAddress, <<>>, urls)
Addresses(links, toPages) ==
    EachOnce([i \in DOMAIN links |-> IF toPages THEN Canonicalize(links[i]) ELSE ResourceUrl(links[i])])

\* An address is in scope whatever the link was, and stays what it is: it is brought to
\* its form when a page is parsed and again when the link is followed.  (The address of
\* a default document inside another one is the exception.)
AddressesAreStable(link) ==
    LET url == Canonicalize(link)
    IN  url # NoUrl /\ (url.path = <<>> \/ Last(url.path) \notin DefaultDocuments) =>
            /\ ~PathIsExcluded(url.path) /\ link.host \in SiteHosts
            /\ url.query \cap (TrackingKeys \cup RejectedKeys) = {}
            /\ Range(url.path) \cap {".", ".."} = {}
            /\ Canonicalize([link EXCEPT !.path = url.path, !.query = url.query]) = url

-----------------------------------------------------------------------------
(* A request: what the servers answer one after the other.  The kinds are
   "redirect", "nowhere" (a redirect without a destination), "page",
   "timeout" and "broken".                                                   *)

LeavesSite(hops, i) == hops[i].host \notin SiteHosts \/ ~hops[i].public

\* Where the loop over redirects ends.
LastHop(hops) ==
    Min({i \in 1..Len(hops) : LeavesSite(hops, i) \/ hops[i].kind # "redirect" \/ i > MaxRedirects})

Fetch(hops, html, prefix) ==
    LET n == LastHop(hops)
        hop == hops[n]
        failure(code) == [ok |-> FALSE, code |-> code, asked |-> n, size |-> 0, cut |-> FALSE]
    IN  IF LeavesSite(hops, n) THEN [failure("unsafe_target") EXCEPT !.asked = n - 1]
        ELSE IF hop.kind = "timeout" THEN failure("page_timeout")
        ELSE IF hop.kind \in {"broken", "nowhere", "redirect"} THEN failure("http_error")
        ELSE IF html /\ ~hop.html THEN failure("content_unsupported")
        ELSE IF ~prefix /\ (hop.declared > MaxBytes \/ hop.size > MaxBytes) THEN failure("response_too_large")
        ELSE [ok |-> TRUE, code |-> "none", asked |-> n, size |-> Min({hop.size, MaxBytes}), cut |-> hop.size > MaxBytes]

\* No server outside the site is asked, no more of them than the limit, no more is
\* kept than the limit, and a page that is cut is marked.
RequestsAreBounded(hops, html, prefix) ==
    LET answer == Fetch(hops, html, prefix)
    IN  /\ \A i \in 1..answer.asked : hops[i].host \in SiteHosts /\ hops[i].public
        /\ answer.asked <= MaxRedirects + 1
        /\ answer.ok => /\ answer.size <= MaxBytes /\ (answer.cut => prefix)
                        /\ answer.cut \/ answer.size = hops[answer.asked].size

-----------------------------------------------------------------------------
(* robots.txt: [found, status, disallowed, sitemaps].                        *)

AllowAll(note) == [disallowed |-> {}, sitemaps |-> <<>>, notes |-> note]

LoadRobots(file) ==
    IF ~file.found THEN AllowAll({"robots_unavailable"})
    ELSE IF file.status \in {404, 410} THEN AllowAll({})
    ELSE IF file.status >= 400 THEN AllowAll({"robots_unavailable"})
    ELSE [disallowed |-> file.disallowed, sitemaps |-> Addresses(file.sitemaps, FALSE), notes |-> {}]

(* Sitemaps: a file is [kind, locs] with kind "urlset", "index" or "bad",
   which stands for an error, an unknown root and all that the parser refuses. *)

ParseSitemap(file) ==
    [pages |-> IF file.kind = "urlset" THEN Addresses(file.locs, TRUE) ELSE <<>>,
     children |-> IF file.kind = "index" THEN Addresses(file.locs, FALSE) ELSE <<>>]

\* The pages that are new and allowed, no more than there is room for.
TakePage(taken, url, robots) ==
    IF Len(taken) >= SitemapPages \/ url \in Range(taken) \cup robots.disallowed THEN taken ELSE Append(taken, url)
TakePages(found, pages, robots) == FoldLeft(LAMBDA taken, url : TakePage(taken, url, robots), found, pages)

\* The sitemaps that a file names, unless they were read or wait already.
NewSitemap(new, url, entry, st) ==
    IF url \in st.visited \cup {entry.url} \/ \E i \in 1..Len(st.queue) : st.queue[i].url = url THEN new
    ELSE Append(new, [url |-> url, depth |-> entry.depth + 1])
NewSitemaps(file, entry, st) ==
    FoldLeft(LAMBDA new, url : NewSitemap(new, url, entry, st), <<>>, ParseSitemap(file).children)

VisitSitemap(file, entry, robots, st) ==
    [st EXCEPT !.visited = @ \cup {entry.url},
               !.notes = IF file.kind = "bad" THEN @ \cup {"sitemap_unavailable"} ELSE @,
               !.pages = TakePages(@, ParseSitemap(file).pages, robots),
               !.queue = IF entry.depth >= SitemapDepth THEN @
                         ELSE @ \o NewSitemaps(file, entry, st)]

SitemapStep(files, robots, st) ==
    LET entry == Head(st.queue)
        rest == [st EXCEPT !.queue = Tail(@)]
    IN  IF st.queue = <<>> \/ Cardinality(st.visited) >= MaxSitemaps \/ Len(st.pages) >= SitemapPages THEN st
        ELSE IF entry.url \in st.visited THEN rest ELSE VisitSitemap(files[entry.url], entry, robots, rest)

\* The loop over the queue, which a file that was read or waits does not enter again.
ReadSitemaps(files, robots, starts) ==
    LET last == Len(starts) + Cardinality(DOMAIN files)
        after[n \in 0..last] ==
            IF n = 0 THEN [queue |-> [i \in 1..Len(starts) |-> [url |-> starts[i], depth |-> 0]],
                           visited |-> {}, pages |-> <<>>, notes |-> {}]
            ELSE SitemapStep(files, robots, after[n - 1])
    IN  after[last]

LimitsReported(st) ==
    [st EXCEPT !.notes = @ \cup (IF st.queue # <<>> /\ Cardinality(st.visited) >= MaxSitemaps
                                 THEN {"sitemap_file_limit_reached"} ELSE {})
                            \cup (IF Len(st.pages) >= SitemapPages THEN {"sitemap_page_limit_reached"} ELSE {})]

DiscoverSitemaps(files, robots, starts) == LimitsReported(ReadSitemaps(files, robots, starts))

\* The sitemaps that are named within a depth.
Children(files, urls) == UNION {Range(ParseSitemap(files[u]).children) : u \in urls}
SitemapsWithin(files, urls, depth) ==
    LET within[n \in 0..depth] == IF n = 0 THEN urls ELSE urls \cup Children(files, within[n - 1])
    IN  within[depth]

\* The limits hold, and unless one of them is reported, or a file that could not be
\* read, every allowed page of the sitemaps within the depth has been found.
SitemapsAreRead(files, robots, starts) ==
    \A found \in {DiscoverSitemaps(files, robots, starts)},
       reachable \in {SitemapsWithin(files, Range(starts), SitemapDepth)} :
        \A listed \in {(UNION {Range(ParseSitemap(files[u]).pages) : u \in reachable}) \ robots.disallowed} :
            /\ Cardinality(found.visited) <= MaxSitemaps /\ Len(found.pages) <= SitemapPages
            /\ IsInjective(found.pages) /\ Range(found.pages) \subseteq listed
            /\ found.notes = {} => Range(found.pages) = listed

-----------------------------------------------------------------------------
(* Classification: the signals of a page's path, headings and markup, in the
   order in which they are looked for.                                       *)

ClassificationRules ==
    <<<<"legal_path", "legal">>, <<"faq_signal", "faq">>, <<"schema_product", "product_detail">>,
      <<"schema_article", "blog_post">>, <<"contact_path", "contact">>, <<"about_path", "about">>,
      <<"team_path", "team">>, <<"review_path", "review_testimonial">>, <<"case_study_path", "case_study_portfolio">>,
      <<"service_area_path", "service_area">>, <<"location_path", "location">>, <<"service_index_path", "service_index">>,
      <<"service_detail_signal", "service_detail">>, <<"blog_index_path", "blog_index">>, <<"blog_path", "blog_post">>,
      <<"product_index_path", "product_category">>, <<"product_path", "product_detail">>>>

ClassifyPage(url, signals) ==
    LET hits == {i \in DOMAIN ClassificationRules : ClassificationRules[i][1] \in signals}
    IN  CASE url = Root -> "home"
          [] url # Root /\ hits = {} -> "other"
          [] OTHER -> ClassificationRules[Min(hits)][2]

TypeScore(type) ==
    CASE type = "home" -> 10000 [] type = "service_index" -> 700 [] type = "service_detail" -> 680
      [] type = "service_area" -> 650 [] type = "location" -> 640 [] type = "about" -> 560 [] type = "contact" -> 550
      [] type = "team" -> 520 [] type = "review_testimonial" -> 540 [] type = "case_study_portfolio" -> 530
      [] type = "faq" -> 510 [] type = "blog_index" -> 260 [] type = "blog_post" -> 180
      [] type = "product_category" -> 450 [] type = "product_detail" -> 300 [] type = "legal" -> 80 [] OTHER -> 100

CoverageOrder ==
    <<"service_index", "service_detail", "service_area", "location", "about", "contact", "team",
      "review_testimonial", "case_study_portfolio", "faq", "product_category", "blog_index">>

\* Search data of the client, summed per page: only of a source that is healthy,
\* matched and not out of date.  Impressions and clicks are on the code's log scale.
GscPriorities(snapshots, now) ==
    LET usable == {s \in snapshots : s.source = "gsc" /\ s.healthy /\ s.matched /\ (s.expires = 0 \/ s.expires > now)}
        rows == UNION {{[from |-> s.id, row |-> r] : r \in {q \in s.rows :
                            Canonicalize(q.link) # NoUrl /\ (q.impressions > 0 \/ q.clicks > 0)}} : s \in usable}
        of(url) == {r \in rows : Canonicalize(r.row.link) = url}
    IN  [url \in {Canonicalize(r.row.link) : r \in rows} |->
            [impressions |-> MapThenSumSet(LAMBDA r : r.row.impressions, of(url)),
             clicks |-> MapThenSumSet(LAMBDA r : r.row.clicks, of(url))]]

PageScore(page, priorities) ==
    TypeScore(page.type) - 2 * Min({page.depth, 20}) + 50 * Min({page.matches, 5})
      + IF page.url \in DOMAIN priorities
        THEN Min({250, 12 * priorities[page.url].impressions + 24 * priorities[page.url].clicks}) ELSE 0

Place(url) == CHOOSE i \in DOMAIN UrlOrder : UrlOrder[i] = url

RankPages(pages, priorities) ==
    LET eligible == {p \in pages : p.checked /\ p.status < 400 /\ ~p.noindex}
        before(p, q) == LET a == PageScore(p, priorities)
                            b == PageScore(q, priorities)
                        IN  a > b \/ (a = b /\ Place(p.url) < Place(q.url))
    IN  Arranged(eligible, {p \in eligible \X eligible : before(p[1], p[2])})

TypeCap(type, limit) ==
    IF type \in {"blog_post", "product_detail"} THEN Max({2, limit \div 5}) ELSE limit

\* One page of each type, in the order of the types.
CoverType(chosen, type, ranked, limit) ==
    IF Len(chosen) >= limit THEN chosen ELSE Append(chosen, ranked[Min({i \in DOMAIN ranked : ranked[i].type = type})])
CoverTypes(types, ranked, limit) ==
    FoldLeft(LAMBDA chosen, type : CoverType(chosen, type, ranked, limit), <<>>, types)

\* The best of the rest, within the share of its type.
FillRoom(chosen, page, limit) ==
    IF \/ Len(chosen) >= limit \/ page \in Range(chosen)
       \/ Cardinality({i \in DOMAIN chosen : chosen[i].type = page.type}) >= TypeCap(page.type, limit)
    THEN chosen ELSE Append(chosen, page)
FillUp(chosen, ranked, limit) == FoldLeft(LAMBDA some, page : FillRoom(some, page, limit), chosen, ranked)

KeyPages(ranked, limit) ==
    LET types == Filtered(<<"home">> \o CoverageOrder, LAMBDA t : \E i \in DOMAIN ranked : ranked[i].type = t)
    IN  FillUp(CoverTypes(types, ranked, limit), ranked, limit)

SelectKeyPages(pages, limit, priorities) == KeyPages(RankPages(pages, priorities), limit)

\* The home page is first, no type is left out for a second page of another one,
\* articles and products stay within their share, and no room is left while a page
\* is outside that its type's share would admit.
SelectionIsBalanced(pages, limit, priorities) ==
    \A chosen \in {SelectKeyPages(pages, limit, priorities)}, ranked \in {Range(RankPages(pages, priorities))} :
        LET types == {p.type : p \in Range(chosen)}
            number(t) == Cardinality({i \in DOMAIN chosen : chosen[i].type = t})
        IN  /\ IsInjective(chosen) /\ Range(chosen) \subseteq ranked /\ Len(chosen) <= limit
            /\ (\E p \in ranked : p.type = "home") /\ limit > 0 => chosen[1].type = "home"
            /\ \A p \in ranked : p.type \in Range(CoverageOrder) /\ p.type \notin types =>
                  Len(chosen) = limit /\ \A t \in types : number(t) = 1
            /\ \A t \in {"blog_post", "product_detail"} : number(t) <= TypeCap(t, limit)
            /\ \A p \in ranked \ Range(chosen) : Len(chosen) = limit \/ number(p.type) = TypeCap(p.type, limit)
=============================================================================
