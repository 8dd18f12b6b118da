----------------------------- MODULE MCAlgorithms -----------------------------
(***************************************************************************)
(* The pure algorithms of the program, each run once on every input of a   *)
(* small set.  A state holds the algorithm, its input and, once it has     *)
(* run, its output; an invariant compares the output with what is promised *)
(* or with a definition that takes no short cuts.                          *)
(***************************************************************************)
EXTENDS CompetitorRanking, VerifiedReport, Measurement, SiteInventory, MarketCollection, Capability, CopyContract

CONSTANTS
    Algorithms,                             \* the names of those to run
    NodeLimit, PageBytes, SiteBytes,        \* limits of SiteFacts
    AlignAge, PairLimit,                    \* limits of SiteAlignment
    AssetWindow, CompetitorCount,           \* limits of PublicFindings
    BusinessCap, MeasurementCap, EvaluationLimit, EvidenceMax,                  \* limits of FirstPartyFindings
    PageAddress, WeekDays, MinWeeks, PageCap, PairCap, ConflictCap, CrossCap    \* of CrossSourceFindings

Facts == INSTANCE SiteFacts
Alignment == INSTANCE SiteAlignment
Rules == INSTANCE PublicFindings
Client == INSTANCE CrossSourceFindings

VARIABLES algorithm, input, output, done

algVars == <<algorithm, input, output, done>>

Given(name, inputs) == algorithm = name /\ input \in inputs
Yields(name, result) == algorithm = name /\ output' = result
Ran(name) == done /\ algorithm = name

-----------------------------------------------------------------------------
(* Competitor ranking: two places of a franchise that share website 1, results
   with a website or an address only, a blocked platform 3, the client 4.     *)

Result(ids, dom, who, q, pos, type, rel) ==
    [ids |-> ids, dom |-> dom, who |-> who, q |-> q, pos |-> pos, type |-> type, near |-> FALSE, rel |-> rel]

SearchResults ==
    {Result({1}, 1, 1, 1, 1, "maps", 60), Result({2}, 1, 2, 1, 3, "maps", 60), Result({1, 3}, 2, 1, 2, 3, "maps", 20),
     Result({3}, 0, 2, 2, 1, "local_pack", 20), Result({2, 3}, 2, 0, 1, 1, "maps", 20), Result({}, 1, 0, 1, 1, "organic", 60),
     Result({}, 2, 0, 2, 1, "local_pack", 60), Result({}, 2, 2, 1, 7, "local_pack", 10), Result({}, 0, 1, 2, 1, "maps", 20),
     Result({}, 0, 2, 1, 3, "organic", 60), [Result({}, 5, 3, 2, 7, "organic", 20) EXCEPT !.near = TRUE],
     Result({}, 3, 0, 1, 3, "local_pack", 60), Result({5}, 4, 5, 2, 1, "maps", 60), Result({}, 5, 1, 2, 1, "local_pack", 60),
     Result({6}, 5, 3, 1, 1, "maps", 60)}

RankingInputs ==
    [obs : UNION {{s \in [1..n -> SearchResults] : IsInjective(s)} : n \in 0..3}, supplements : SUBSET {1, 5}]

\* A business is what its results say it is: the way the loop over loose results extends
\* the places it has found changes nothing, so that no result with a website only makes one
\* business of two places; the validator accepts the ranking; and businesses that the client
\* named are offered and displace the last candidates only (_groups, rank_competitor_candidates).
RankingIsSound ==
    Ran("ranking") =>
        /\ output.groups = GroupsByDefinition(input.obs)
        /\ ValidRanking(output.ranking, input.supplements) /\ SupplementsKept(output.ranking, input.supplements)

-----------------------------------------------------------------------------
(* Public actions: findings on pages 1 and 2 of the site and 3 elsewhere, on
   queries 8 and 9.  Evidence 1-9 is public, 11-19 of the client's sources.   *)

PublicFinding(id, rule, sev, cls, urls, queries, ptype) ==
    [id |-> id, rule |-> rule, version |-> 1, sev |-> sev, conf |-> 2, cls |-> cls, urls |-> urls, queries |-> queries,
     ptype |-> ptype, ev |-> {id}, cmp |-> IF rule = "asset" THEN {id + 100} ELSE {}]

PublicFindings ==
    {PublicFinding(1, "http", 2, 1, {1}, {}, 0), PublicFinding(2, "noindex", 1, 2, {3}, {}, 0),
     PublicFinding(3, "title", 3, 1, {1, 2}, {}, 0), PublicFinding(4, "domain", 3, 1, {}, {8, 9}, 0),
     PublicFinding(5, "ahead", 1, 1, {}, {8}, 0), PublicFinding(6, "asset", 2, 1, {}, {}, 1),
     PublicFinding(7, "asset", 2, 1, {}, {}, 2), PublicFinding(8, "name", 2, 1, {}, {}, 0)}

\* A finding's own evidence is found where the finding is; what it is compared with elsewhere.
FindingSource(f) == CASE f.rule \in {"domain", "ahead"} -> "serp" [] f.rule \in {"name", "hours"} -> "gbp" [] OTHER -> "site"
PublicResult(findings) ==
    [findings |-> findings, rollup |-> {f.id : f \in findings}, traces |-> UNION {f.ev \cup f.cmp : f \in findings},
     index |-> UNION {[id : f.ev, source : {FindingSource(f)}, urls : {f.urls}, queries : {f.queries}] : f \in findings}
                 \cup [id : UNION {f.cmp : f \in findings}, source : {"competitor"}, urls : {{}}, queries : {{}}],
     evaluations |-> {[finding |-> f.id, state |-> "triggered", rule |-> f.rule, version |-> f.version, urls |-> f.urls,
                       queries |-> f.queries, ptype |-> f.ptype, ev |-> f.ev, cmp |-> f.cmp] : f \in findings}]

\* Stored results that do not fit together.
Whole == PublicResult(PublicFindings)
Changed(id, Change(_)) == PublicResult({IF f.id = id THEN Change(f) ELSE f : f \in PublicFindings})
ErrorPages(n) == {PublicFinding(k, "http", 2, 3, {k}, {}, 0) : k \in 101..(100 + n)}
BrokenResults ==
    {[Whole EXCEPT !.evaluations = {e \in @ : e.finding # 3}], [Whole EXCEPT !.rollup = {1}], [Whole EXCEPT !.traces = @ \cup {99}],
     [Whole EXCEPT !.evaluations = {IF e.finding = 3 THEN [e EXCEPT !.ev = {2}] ELSE e : e \in @}],
     [Whole EXCEPT !.index = {IF x.id = 3 THEN [x EXCEPT !.urls = {1}] ELSE x : x \in @}],
     [Whole EXCEPT !.index = {IF x.id = 8 THEN [x EXCEPT !.source = "serp"] ELSE x : x \in @}],
     [Whole EXCEPT !.index = @ \cup {[id |-> 1, source |-> "gbp", urls |-> {}, queries |-> {}]}],
     Changed(4, LAMBDA f : [f EXCEPT !.rule = "other"]), Changed(8, LAMBDA f : [f EXCEPT !.version = 4]),
     Changed(3, LAMBDA f : [f EXCEPT !.version = 2]), Changed(6, LAMBDA f : [f EXCEPT !.ptype = 0]), Changed(3, LAMBDA f : [f EXCEPT !.urls = {}]),
     PublicResult({f \in PublicFindings : f.id < 4} \cup {PublicFinding(1, "name", 2, 1, {}, {}, 0)}),
     PublicResult(PublicFindings \cup ErrorPages(MaxActionFindings)), PublicResult(ErrorPages(MaxPlanFindings + 1))}

PlanInputs == {PublicResult(fs) : fs \in SUBSET PublicFindings} \cup BrokenResults

(* Verified evidence *)

Evaluation(id, rule, kind, target, dir, src, ev) ==
    [id |-> id, rule |-> rule, kind |-> kind, target |-> target, dir |-> dir, src |-> src, issue |-> "none", ev |-> ev]

FirstEvaluations ==
    {Evaluation(21, "opportunity", "page", 1, "none", "gsc", {11, 12}),
     Evaluation(22, "growth", "aggregate", 0, "none", "gsc", {13}),
     Evaluation(23, "change", "query", 8, "decrease", "gsc", {12}),
     Evaluation(24, "change", "page", 1, "increase", "ga4", {15}),
     Evaluation(25, "measurement", "aggregate", 0, "none", "ga4", {16})}

CrossEvaluations ==
    {Evaluation(31, "page_opportunity", "page", 3, "none", "gsc_ga4", {11, 15}),
     Evaluation(32, "trend", "aggregate", 0, "decrease", "gsc_gbp", {13, 17}),
     Evaluation(33, "conflict", "aggregate", 0, "none", "gsc_gbp", {13, 17}),
     [Evaluation(34, "conflict", "aggregate", 0, "none", "gsc_ga4", {11, 16}) EXCEPT !.issue = "WINDOW"]}

MCEvidenceIndex ==
    [i \in 1..17 |->
        CASE i \in {2, 8} -> [source |-> "site", healthy |-> FALSE, field |-> "status", exact |-> FALSE]
          [] i \in (1..9) \ {2, 8} -> [source |-> "site", healthy |-> TRUE, field |-> "status", exact |-> FALSE]
          [] i = 10 -> [source |-> "gbp", healthy |-> TRUE, field |-> "other", exact |-> FALSE]
          [] i \in {11, 13} -> [source |-> "gsc", healthy |-> TRUE, field |-> "impressions", exact |-> TRUE]
          [] i \in {12, 14} -> [source |-> "gsc", healthy |-> TRUE, field |-> "clicks", exact |-> TRUE]
          [] i \in {15, 16} -> [source |-> "ga4", healthy |-> i = 15, field |-> "sessions", exact |-> TRUE]
          [] i = 17 -> [source |-> "gbp", healthy |-> TRUE, field |-> "change_band", exact |-> FALSE]]

\* Parents with three to five candidates; few verified findings at once.
ParentFindings ==
    {fs \in SUBSET {f \in PublicFindings : f.id # 5} : Cardinality(fs) \in {3, 5} /\ Succeeded(BuildPlan(PublicResult(fs)))}

VerifiedSets(sizes) == {s \in SUBSET (FirstEvaluations \cup CrossEvaluations) : Cardinality(s) \in sizes}
ReportInputs ==
    [findings : ParentFindings, verified : VerifiedSets({3}), unhealthy : {{}}]
      \cup [findings : ParentFindings, verified : VerifiedSets(0..2), unhealthy : {{}, {"ga4"}, {"gbp"}}]
ReportInput(in) ==
    [public |-> PublicResult(in.findings), plan |-> BuildPlan(PublicResult(in.findings)), first |-> in.verified \cap FirstEvaluations,
     cross |-> in.verified \cap CrossEvaluations, unhealthy |-> in.unhealthy, snapshots |-> {"gsc", "ga4", "gbp"}]

Reported(request, v, d) == [verified |-> v, diff |-> d, report |-> BuildReport(request, v, d)]
RunVerified(request, v) ==
    IF ~Succeeded(v) THEN [verified |-> v] ELSE Reported(request, v, BuildDiff(request, v))
RunReport(request) == RunVerified(request, BuildVerified(request))

\* Actions are selected and ordered for a reason; verified evidence reorders them and nothing
\* else does, a repair in front and a hard fact where it was; every change that the report shows
\* has its reason; and the verified report meets the contract or is refused for a known reason,
\* and its actions can be done in their order (build_public_action_plan,
\* build_verified_reprioritization, build_version_diff, build_execution_plan).
PlansAreSound ==
    /\ Ran("plan") /\ Succeeded(output) => PlanAccepted(output) /\ OrderedForReason(output.actions)
    /\ Ran("report") /\ Succeeded(output.verified) =>
          /\ VerifiedAccepted(output.verified) /\ RanksAreDecided(output.verified) /\ VerifiedOrder(output.verified)
          /\ DiffExplained(output.diff, output.verified)
          /\ RefusalsAreKnown(output.report) /\ (Succeeded(output.report) => ActionsCanBeDone(output.report))

(* Copy: plans as they are and changed, and answers that leave the contract in one
   way for one action, over up to three calls.                                     *)

Bind(n, slot, ids, answer) == [answer EXCEPT !.actions[n].explanation.bind[slot] = ids]
CopyEdits == 1..13
\* One way in which the obvious answer is changed for action n.
Edited(request, obvious, n, e) ==
    LET a == request.actions[n]
        b == obvious.actions[n].explanation.bind
        other == obvious.actions[(n % 3) + 1].explanation.bind
    IN  CASE e = 1 -> obvious
          [] e = 2 -> [obvious EXCEPT !.kind = "text", !.actions[n].why.key = "current_finding", !.actions[n].explanation.bind.targets = Reverse(@)]
          [] e = 3 -> [obvious EXCEPT !.actions[n].why.key = "targets_completion"]
          [] e = 4 -> [obvious EXCEPT !.actions[n].why.bind.finding = SetToSeq(FactIds(a, {"statement"}))]
          [] e = 5 -> [obvious EXCEPT !.actions[n].why.bind.finding = <<CHOOSE i \in FactIds(a, {"scope"}) : TRUE>>]
          [] e = 6 -> Bind(n, "targets", other.targets, obvious)
          [] e = 7 -> Bind(n, "targets", Tail(b.targets), obvious)
          [] e = 8 -> Bind(n, "limitations", b.completion, obvious)
          [] e = 9 -> Bind(n, "completion", b.completion \o b.completion, obvious)
          [] e = 10 -> [obvious EXCEPT !.actions[n].explanation.bind = [slot \in {"targets", "completion"} |-> b[slot]]]
          [] e = 11 -> [obvious EXCEPT !.actions = [@ EXCEPT ![n] = obvious.actions[(n % 3) + 1]]]
          [] e = 12 -> [obvious EXCEPT !.checksum.unselected = @ \cup {99}]
          [] e = 13 -> [obvious EXCEPT !.actions[n].explanation.bind.targets = Append(@, CHOOSE i \in FactIds(a, {"statement"}) : TRUE)]

\* Statements and urls of a size that fits, that fits no text, that fits no result together, and that is no fact.
Sizes(statement, url) == [statement |-> [f \in {1} |-> statement], url |-> [u \in {1} |-> url]]
Short == Sizes(1, 1)
CopySizes == {Short, Sizes(MaxText - 1, 1), Sizes(MaxText - 1, 8), Sizes(1, MaxText), Sizes(MaxText, 1), Sizes(MaxText + 1, 1)}
CopyInputs ==
    [findings : ParentFindings, from : {fs \in ParentFindings : Cardinality(fs) = 3}, change : 0..2, sizes : {Short}, attempts : {1}, n : {1}, e : {<<1>>}, kinds : {<<"object">>}]
      \cup UNION {[findings : {fs}, from : {fs}, change : {0}, sizes : sizes, attempts : {1}, n : 1..3,
                  e : {<<i>> : i \in IF sizes = {Short} THEN CopyEdits ELSE {1, 4, 9, 13}}, kinds : {<<"object">>}] :
                 fs \in {gs \in ParentFindings : Cardinality(gs) = 5}, sizes \in {{s} : s \in CopySizes}}
      \cup LET fs == CHOOSE gs \in ParentFindings : TRUE
           IN  [findings : {fs}, from : {fs}, change : {0}, sizes : {Short}, attempts : 0..3, n : {2},
                e : [1..3 -> {1, 7}],
                kinds : [1..3 -> {"object", "missing", "503", "400"}] \cup {<<k, "object", "object">> : k \in {"large", "fenced", "language", "timeout"}}]
\* The plan of some findings, with two actions swapped or one left out.
CopyPlan(in) ==
    LET p == BuildPlan(PublicResult(in.from))
    IN  [p EXCEPT !.actions = CASE in.change = 0 -> @ [] in.change = 1 -> <<@[2], @[1], @[3]>> [] in.change = 2 -> SubSeq(@, 1, 2)]
Sent(answer, kind) == IF kind = "object" THEN answer ELSE [answer EXCEPT !.kind = kind]
CopyRequest(in) == BuildCopyRequest(PublicResult(in.findings), CopyPlan(in), in.sizes)
CopyAnswers(in, request) ==
    [k \in DOMAIN in.e |-> Sent(Edited(request, ObviousAnswer(request), in.n, in.e[k]), in.kinds[k])]

CopyOf(in, request) ==
    IF ~Succeeded(request) THEN [request |-> request]
    ELSE [request |-> request, result |-> GenerateCopy(request, CopyAnswers(in, request), in.attempts)]
RunCopy(in) == CopyOf(in, CopyRequest(in))

\* A request is made only for the plan that its findings give and can be answered unless what
\* must be said is too long, and the first answer that says everything it must, nothing else,
\* and not at too great a length, is the copy
\* (build_copy_request, validate_and_render_copy, generate_public_action_copy).
CopyIsSound ==
    Ran("copy") =>
        /\ Succeeded(output.request) => /\ output.request.checksum = BuildPlan(PublicResult(input.findings))
                                        /\ RequestIsAnswerable(output.request)
                                        /\ input.attempts > 0 => CopyIsFaithful(output.request, CopyAnswers(input, output.request), input.attempts, output.result)
        /\ ~Succeeded(output.request) => CopyPlan(input) # BuildPlan(PublicResult(input.findings)) \/ input.sizes = Sizes(MaxText + 1, 1)

-----------------------------------------------------------------------------
(* Measurement: zones up to a third of a day apart, two days per window; snapshots
   fetched early or late, with at most one date missing.                         *)

Snapshot(start, fetched, missing, healthy, view) ==
    [present |-> TRUE, previous |-> [start |-> start, end |-> start + 1], current |-> [start |-> start + 2, end |-> start + 3],
     dates |-> (start..(start + 3)) \ {missing}, fetched |-> fetched, binding |-> 1, matched |-> TRUE,
     healthy |-> healthy, expires |-> fetched + 12, truncated |-> FALSE, view |-> view]

EarlySnapshots == {NoSnapshot} \cup {Snapshot(st, 21, miss, TRUE, "by_page") : st \in 2..4, miss \in {0, 4}}
LateSnapshots ==
    {NoSnapshot} \cup {Snapshot(st, hour, miss, TRUE, "by_page") : st \in 5..7, hour \in {24, 26, 27, 33}, miss \in {0, 8}}
                 \cup {Snapshot(st, 27, 0, FALSE, "by_page") : st \in 5..7}
Comparisons(kind, channels, filtered, flaws, dimensions, evaluated) ==
    [day : {6}, own : -1..1, source : -1..1, days : 1..2, kind : {kind}, channel : channels, filtered : filtered,
     flaws : flaws, dimension : dimensions, evaluated : evaluated, before : EarlySnapshots, after : LateSnapshots]
ComparisonInputs ==
    Comparisons("gsc", {"organic_search"}, {FALSE}, {{}}, {"property", "page"}, {21, 27, 33})
      \cup Comparisons("gsc", {"organic_search"}, BOOLEAN, {{}}, {"property", "landing_page"}, {33})
      \cup Comparisons("ga4", {"organic_search", "all"}, {FALSE}, {{}, {"hosts", "events"}, {"zones"}, {"restricted"}, {"events"}}, {"property"}, {33})

HealthInputs ==
    [source : {"gsc", "ga4", "gbp"}, dates : SUBSET (1..7), end : {7},
     facts : {{}, {"CURRENT_DATA", "QUERY_ROWS", "PAGE_ROWS"}, ProfileChecks \cup {"CURRENT_IMPRESSIONS"},
              {"CURRENT_SESSIONS", "LANDING_PAGE_ROWS", "DATE_ROWS", "CONFIGURED_KEY_EVENTS"}}]

SessionInputs ==
    LET period == [totals : {0, 1}, dates : {1..2}, expected : {1..2, 1..3}, flags : {{}, {"SAMPLED"}}, sessions : {0, 3, 8}]
    IN  [zone : {0}, started : {9, 12}, after : {[end |-> 3]}, previous : period, current : period]

\* Windows leave the implementation out in every time zone, figures are shown only for
\* days that were over, a healthy source has been active all along, and sessions are shown
\* once their window is over, with their change to two decimals (plan_windows, compare_implementation, evaluate_health,
\* read_sessions).
MeasurementIsSound ==
    /\ Ran("compare") => /\ WindowsAccepted(PlanWindows(input.day, input.own, input.source, input.days), input.days)
                         /\ ImplementationIsExcluded(input, PlanWindows(input.day, input.own, input.source, input.days))
                         /\ ComparableIsCovered(input, output)
    /\ Ran("health") => ActivityIsSteady(input)
    /\ Ran("sessions") => (output.state = "available" =>
            /\ DateOf(input.started, input.zone) > input.after.end
            /\ \A change \in output.change : ChangeIsRounded(output.before, output.after, change))

-----------------------------------------------------------------------------
(* Site inventory: links, redirects, sitemaps that name each other, key pages. *)

LinkInputs ==
    [web : {TRUE}, login : BOOLEAN, host : {"site", "www.site", "other"}, port : {0, 443, 8080},
     path : BoundedSeq({"a", "..", "cart", "index.html", "map.pdf"}, 3), query : SUBSET {"utm", "sort", "id"}]

Hop(host, kind, size) ==
    [host |-> host, public |-> host # "hidden", kind |-> kind, html |-> size # 3, declared |-> size, size |-> size]
Redirects == {Hop(host, "redirect", 0) : host \in {"site", "other", "hidden"}}
Endings == {Hop(e[1], e[2], e[3]) : e \in {"site", "other"} \X {"page", "nowhere", "timeout", "broken"} \X {1, 4, 3}}
RequestInputs ==
    [hops : {Append(p[1], p[2]) : p \in BoundedSeq(Redirects, 2) \X Endings}, html : BOOLEAN, prefix : BOOLEAN]

FileUrl(name) == [path |-> <<name>>, query |-> {}]
SiteLink(name) == [web |-> TRUE, login |-> FALSE, host |-> "site", port |-> 0, path |-> <<name>>, query |-> {}]
MCUrlOrder == <<Root, FileUrl("a"), FileUrl("b"), FileUrl("c"), FileUrl("d")>>
\* The run's addresses are among those that the ranking breaks ties by.
ASSUME UrlOrderAssumption == Range(MCUrlOrder) \subseteq Range(UrlOrder)
SitemapFile ==
    [kind : {"urlset"}, locs : {<<>>, <<SiteLink("a"), SiteLink("b")>>, <<SiteLink("cart"), SiteLink("c"), SiteLink("a")>>}]
      \cup [kind : {"index"}, locs : {<<SiteLink("x"), SiteLink("y")>>, <<SiteLink("z"), SiteLink("x")>>}]
      \cup [kind : {"bad"}, locs : {<<>>}]
SitemapInputs ==
    [files : [{FileUrl(f) : f \in {"x", "y", "z"}} -> SitemapFile], starts : {<<FileUrl("x")>>, <<FileUrl("x"), FileUrl("y")>>},
     disallowed : {{}, {FileUrl("c")}}]

PageKinds == {"home", "about", "contact", "blog_post", "other"}
SelectionInputs ==
    [types : [2..4 -> {"about", "contact", "blog_post", "other"}], home : {200, 404}, limit : 1..5,
     matches : {0, 5}, hidden : {0, 3}]
SelectionPages(in) ==
    {[url |-> MCUrlOrder[i], type |-> IF i = 1 THEN "home" ELSE in.types[i], depth |-> i - 1, matches |-> IF i = 4 THEN in.matches ELSE 0,
      checked |-> TRUE, status |-> IF i = 1 THEN in.home ELSE 200, noindex |-> i = in.hidden] : i \in 1..4}

\* Links become addresses of the site or nothing, requests stay on the site, sitemaps
\* are read completely or a limit is reported, and the key pages are a balanced choice
\* (canonicalize_inventory_url, _fetch_redirects, discover_sitemap_urls, select_key_pages).
InventoryIsSound ==
    /\ Ran("link") => AddressesAreStable(input)
    /\ Ran("request") => RequestsAreBounded(input.hops, input.html, input.prefix)
    /\ Ran("sitemap") => SitemapsAreRead(input.files, [disallowed |-> input.disallowed], input.starts)
    /\ Ran("selection") => SelectionIsBalanced(SelectionPages(input), input.limit, <<>>)

-----------------------------------------------------------------------------
(* Search market: places of three kinds around the target, and a job whose calls
   are answered, refused or lost over three runs.                                *)

Offer(id, type, postal, city, display, gps, country) ==
    [id |-> id, place |-> id % 5, type |-> type, postal |-> postal, city |-> city, display |-> display, words |-> Cardinality(display),
     region |-> id % 2 = 0, gps |-> gps, country |-> country, named |-> TRUE]

Offers ==
    {Offer(1, "city", FALSE, "exact", {}, <<-120, 37>>, TRUE), Offer(2, "county", FALSE, "within", {"name", "canonical"}, <<-120, 36>>, TRUE),
     Offer(3, "postal", TRUE, "absent", {"name"}, <<-119, 37>>, TRUE), Offer(4, "postal", FALSE, "within", {}, <<-119, 37>>, TRUE),
     Offer(6, "city", FALSE, "exact", {"name"}, <<-120, 37>>, FALSE), Offer(7, "city", TRUE, "exact", {}, <<200, 37>>, TRUE),
     Offer(8, "county", TRUE, "within", {"canonical"}, <<-119, 36>>, TRUE), Offer(11, "city", FALSE, "exact", {}, <<-121, 37>>, TRUE),
     Offer(0, "city", FALSE, "exact", {"name"}, <<-120, 37>>, TRUE), Offer(9, "dma", FALSE, "within", {"name"}, <<-120, 36>>, TRUE)}

LocationInputs ==
    [market : [coordinates : {"none", "half", "both"}, postal : BOOLEAN, city : BOOLEAN, region : BOOLEAN],
     answer : [kind : {"ok"}, status : {200}, items : BoundedSeq(Offers, 3)]
                \cup [kind : {"timeout", "large", "invalid", "no provider"}, status : {200}, items : {<<>>}]
                \cup [kind : {"ok"}, status : {404, 429, 503}, items : {<<>>}]]

Query(n) == [text |-> n, fold |-> n % 10]
Item(name, position, site) == [name |-> name, position |-> position, site |-> site, place |-> name]
Sections(valid, maps, pack, organic) ==
    [t \in {"maps", "local_pack", "organic"} |->
        [valid |-> valid, items |-> CASE t = "maps" -> maps [] t = "local_pack" -> pack [] OTHER -> organic]]
FullAnswer ==
    [kind |-> "results", sections |-> Sections(TRUE, <<Item(1, 0, "a"), Item(2, 2, "unsafe"), Item(2, 2, "none"), Item(3, 4, "c")>>,
                                               <<Item(1, 1, "a"), Item(0, 2, "b")>>, <<Item(4, 1, "d"), Item(4, 0, "d")>>)]
OddAnswers ==
    {[FullAnswer EXCEPT !.kind = k] : k \in {"empty", "status", "transient", "rejected", "open"}}
      \cup {[FullAnswer EXCEPT !.sections = Sections(FALSE, <<>>, <<>>, <<>>)]}
Answers(n, odd) ==
    {[k \in 1..n |-> FullAnswer]}
      \cup UNION {{[k \in 1..n |-> IF k \in ks THEN f[k] ELSE FullAnswer] : f \in [ks -> OddAnswers]} :
                     ks \in {s \in SUBSET (1..n) : Cardinality(s) \in 1..odd}}
MarketInputs ==
    [queries : {<<Query(1), Query(2)>>}, rounds : {<<a, b, c>> : a \in Answers(4, 2), b \in Answers(4, 1), c \in Answers(4, 0)}]
      \cup [queries : {<<Query(1), Query(2), Query(3)>>}, rounds : {<<a, b>> : a \in Answers(6, 2), b \in Answers(6, 0)}]
      \cup [queries : {<<Query(1)>>, <<Query(1), Query(11)>>, <<Query(0), Query(1)>>}, rounds : {<<>>}]

\* Businesses are ranked as RankingIsSound says, the point is the one that the market
\* means, the plan and the snapshot are accepted, and the snapshot accounts for the
\* requests of every run (resolve_target_point, build_serp_search_plan,
\* CheckpointedSerpMarketStage.collect_context).
MarketIsSound ==
    /\ RankingIsSound
    /\ Ran("location") => PointIsMeant(input.market, input.answer)
    /\ Ran("market") => MarketIsAccepted(input.queries, input.rounds)

-----------------------------------------------------------------------------
(* Capability reports: every manifest that is accepted, with repairs, titles that
   wait for them, inferences, profile and measurement work; and lists at their limits. *)

EvidenceItem(id, source, state) ==
    [id |-> id, source |-> source, urls |-> {}, queries |-> {}, healthy |-> id # 204, state |-> state,
     kind |-> IF source = "gbp" THEN "public_gbp" ELSE source]
CapFinding(f, cls, conf, ev) == [f EXCEPT !.cls = cls, !.conf = conf, !.ev = ev]
CapFindings ==
    {CapFinding(PublicFinding(1, "http", 3, 3, {1}, {}, 0), 3, 2, {1}), CapFinding(PublicFinding(2, "noindex", 2, 3, {3}, {}, 0), 3, 2, {2, 24}),
     CapFinding(PublicFinding(3, "title", 1, 3, {1, 2}, {}, 0), 3, 2, {3, 25}), CapFinding(PublicFinding(4, "domain", 1, 3, {}, {8}, 0), 3, 1, {4}),
     CapFinding(PublicFinding(6, "asset", 1, 2, {}, {}, 1), 2, 1, {6})}
NameFinding == CapFinding(PublicFinding(8, "name", 2, 3, {}, {}, 0), 3, 1, {8, 28})
HoursFindings == {CapFinding(PublicFinding(9, "hours", 2, 3, {}, {}, 0), 3, 2, {9} \cup more) : more \in {{}, {28}, {29}}}
FindingSets(rules) ==
    {fs \cup gbp : fs \in SUBSET CapFindings, gbp \in {{}, {NameFinding}} \cup (IF Public(rules, 11..13) THEN {{h} : h \in HoursFindings} ELSE {})}

CapState(id) == CASE id = 28 -> "not_returned" [] id = 29 -> "returned_empty" [] OTHER -> ""
CapResult(findings, sample) ==
    LET result == PublicResult(findings)
        own == {[healthy |-> TRUE, state |-> CapState(x.id), kind |-> EvidenceItem(x.id, x.source, "").kind] @@ x : x \in result.index}
    IN  [result EXCEPT !.index = own \cup sample, !.traces = @ \cup {x.id : x \in sample}]
SiteSample == {EvidenceItem(n, "site", "") : n \in 201..205}
Sample(m) == SiteSample \cup (IF "rendered" \in m.sources THEN {EvidenceItem(n, "rendered", "") : n \in 211..213} ELSE {})

TitlePage(page) == [page |-> page, named |-> page # 7, ev |-> {EvidenceItem(220 + page, "site", ""), EvidenceItem(230 + page, "site", "")}]
ContactEvidence == {EvidenceItem(241, "gbp", "returned_empty"), EvidenceItem(242, "site", "")}

OwnEvidence(id, source) == {[id |-> n, kind |-> source, state |-> ""] : n \in (10 * id)..(10 * id + 1)}
Own(id, rule, cls, place, target, source) ==
    [id |-> id, rule |-> rule, cls |-> cls, sev |-> 1 + (id % 3), conf |-> 2 + (id % 2), place |-> place, target |-> {target}, ev |-> OwnEvidence(id, source)]
OwnFindings ==
    {Own(31, "measurement", 3, "site", <<"code", 1>>, "gsc"), Own(32, "engagement", 1, "site", <<"url", 1>>, "ga4"),
     Own(33, "engagement", 1, "site", <<"url", 1>>, "ga4"), Own(34, "page_opportunity", 2, "site", <<"url", 2>>, "gsc"), Own(35, "conflict", 3, "site", <<"url", 1>>, "ga4")}
OtherFindings ==
    {Own(36, "page_opportunity", 2, "foreign", <<"url", 9>>, "gsc"), Own(37, "growth", 3, "unset", <<"unset", 0>>, "ga4"), Own(38, "query_opportunity", 2, "site", <<"query", 8>>, "gsc"),
     Own(39, "profile_missing", 3, "site", <<"code", 2>>, "official_gbp")}
\* Another reading of evidence that is listed already.
Conflicting == {[Own(40, "growth", 3, "site", <<"url", 1>>, "gsc") EXCEPT !.ev = {[id |-> 310, kind |-> "gsc", state |-> "failed"]}]}
OwnSets ==
    SUBSET OwnFindings \cup {OtherFindings, OwnFindings \cup Conflicting}
      \cup {{[f EXCEPT !.ev = @ \cup OwnEvidence(f.id + more, "ga4")] : f \in {g \in OwnFindings : g.id \in 32..33}} : more \in {20, 60}}

CapManifests ==
    {m \in [schema : 1..3, mode : {"acquisition", "first_service", "after_acquisition"}, rules : [kind : {"public"}, v : 1..13] \cup [kind : {"service"}, v : 1..5],
            sources : {PublicSources, PublicSources \cup {"rendered"}, PublicSources \cup {"gsc", "ga4"}}, siteSchema : {1, 3}, gbpSchema : {1},
            bound : {{}, {"gsc", "ga4"}}, fresh : {TRUE}, previous : {"none", "prospect"}, implementation : {FALSE},
            identity : BOOLEAN, reassessment : BOOLEAN, base : {"none", "prospect"}, asOf : {1, 2}, now : {2}] :
        /\ ValidManifest(m) /\ (m.siteSchema = 3) = Public(m.rules, 11..13) /\ (m.rules.kind = "public") = (m.mode = "acquisition")}
CapBusiness(pages) == [pages : pages, objective : {"none", "contact_path"}, capacity : {"limited"}, access : {"needs_approval"}]

Sources(in) ==
    [result |-> CapResult(in.findings, in.sample), titles |-> in.titles, contact |-> ContactEvidence, own |-> in.own, totals |-> in.totals, business |-> in.business]

\* n findings with so much evidence each.
Listing(n, evidence) ==
    {CapFinding(PublicFinding(k, CASE k <= 4 -> "http" [] k <= 8 -> "title" [] OTHER -> "ahead", 2, 3, IF k <= 8 THEN {k} ELSE {}, {8}, 0), 3, 2,
                {100 * k + i : i \in 1..evidence}) : k \in 1..n}
LimitSets ==
    {{}} \cup {Listing(n, evidence) : n \in (ReportFindings - 2)..(ReportFindings + 1), evidence \in 1..3} \cup {Listing(1, n) : n \in ListLimit..(ListLimit + 2)}
      \cup {ErrorPages(n) : n \in ListLimit..(ListLimit + 1)}
      \cup {{PublicFinding(3, "title", 1, 3, 1..n, {}, 0)} : n \in TextTargets..(TextTargets + 1)}
      \cup {{PublicFinding(n, "title", 1, 3, {2 * n, 2 * n + 1}, {}, 0) : n \in 1..k} : k \in 2..3}
PlainBusiness == [pages |-> {2}, objective |-> "none", capacity |-> "limited", access |-> "granted"]

CapabilityInputs ==
    UNION {[m : {m}, findings : FindingSets(m.rules), sample : {Sample(m)}, titles : {{}}, totals : {TRUE}, business : CapBusiness({{}, {2}}),
            own : IF m.mode = "acquisition" THEN {{}} ELSE {{}, {o \in OwnFindings : o.id # 34}}] : m \in CapManifests}
      \cup [m : CapManifests, findings : LimitSets, sample : {{}}, titles : {{}, {TitlePage(2)}}, own : {{}}, totals : {TRUE}, business : {PlainBusiness}]
      \cup [m : {m \in CapManifests : Public(m.rules, {4, 5, 8, 11, 13})}, findings : {{f \in CapFindings : f.id \in ids} : ids \in {{}, {1, 3}}}, sample : {SiteSample},
            titles : SUBSET {TitlePage(p) : p \in {1, 5, 6, 7}}, own : {{}}, totals : {TRUE}, business : CapBusiness({{}, {1, 5}, 1..7})]
      \cup [m : {m \in CapManifests : m.mode # "acquisition"}, findings : {{f \in CapFindings : f.id \in ids} : ids \in {{}, {1, 3}}}, sample : {SiteSample},
            titles : {{}}, own : OwnSets, totals : BOOLEAN, business : CapBusiness({{2}})]
SelectionOfEvidence == SUBSET {EvidenceItem(n, <<"site", "serp", "gbp">>[1 + (n % 3)], "") : n \in 1..9}

RunCapability(in) == IF in.m.mode = "acquisition" THEN BuildPublic(in.m, Sources(in)) ELSE BuildService(in.m, Sources(in))

\* Whatever the ruleset, a report is refused only if it lists or joins more than it may, has
\* nothing to show or sources that disagree; one that is built can be delivered as it is without
\* leaving a repair out, and rests on facts that were observed (build_public_capability_report,
\* build_service_capability_report, select_evidence, _merge_service_work).
CapabilityIsSound ==
    /\ Ran("capability") => CapabilityAccepted(input.m, Sources(input), output) /\ WorkIsMerged(input.own)
    /\ Ran("evidence") => SourcesAreRepresented(input, ListLimit)

-----------------------------------------------------------------------------
(* Findings: documents with up to two edits, pages of a site, a field of a profile
   with candidates of the site, and saved pages, results and samples.              *)

Open(tag, hide, doc) == [kind |-> "open", tag |-> tag, hide |-> hide, dup |-> FALSE, word |-> "", doc |-> doc]
Close(tag) == [kind |-> "close", tag |-> tag, hide |-> "no", dup |-> FALSE, word |-> "", doc |-> 0]
Text(word) == [kind |-> "text", tag |-> "", hide |-> "no", dup |-> FALSE, word |-> word, doc |-> 0]
Wrap(tag, inner) == <<Open(tag, "no", 0)>> \o inner \o <<Close(tag)>>

Documents ==
    <<Wrap("dl", Wrap("dt", <<Text("Phone")>>) \o Wrap("dd", <<Text("5551")>>)),
      Wrap("div", Wrap("p", Wrap("a", <<Text("5552")>>))),
      Wrap("h", <<Text("Areas")>>) \o Wrap("ul", Wrap("li", <<Text("north")>>) \o Wrap("li", <<Text("south")>>)),
      Wrap("address", <<Text("street"), Open("br", "no", 0), Text("town")>>) \o Wrap("p", <<Text("5551")>>),
      Wrap("div", <<Open("script", "no", 1), Text("5552"), Close("script")>> \o Wrap("p", <<Text("5551")>>))>>
EditKinds == {"none", "remove", "swap", "attr", "style", "dup"}
Edit(doc, e) ==
    LET i == e.at
        inside == i \in DOMAIN doc
        opens == inside /\ doc[i].kind = "open"
    IN  CASE e.kind = "remove" /\ inside -> RemoveAt(doc, i)
          [] e.kind = "swap" /\ i + 1 \in DOMAIN doc -> [doc EXCEPT ![i] = doc[i + 1], ![i + 1] = doc[i]]
          [] e.kind \in {"attr", "style"} /\ opens -> [doc EXCEPT ![i].hide = e.kind]
          [] e.kind = "dup" /\ opens -> [doc EXCEPT ![i].dup = TRUE]
          [] OTHER -> doc
Edits == {e \in [kind : EditKinds, at : 1..12] : e.kind = "none" => e.at = 1}
HtmlInputs == [doc : 1..5, first : Edits, second : Edits, patterns : {TRUE}]
HtmlPieces(in) == Edit(Edit(Documents[in.doc], in.first), in.second)

JsonRecord(id, field, shape, words) ==
    [business |-> TRUE, id |-> id, url |-> "own", props |-> {[field |-> field, shape |-> shape, words |-> words]}]
JsonDocs ==
    <<[state |-> "read", records |-> <<JsonRecord("own", "phone", "text", <<"5551">>), JsonRecord("external", "phone", "text", <<"5552">>),
                                       JsonRecord("invalid", "address", "object", <<>>)>>],
      [state |-> "jsonld_parse_failed", records |-> <<>>]>>
SitePage(checked, deep, size, pieces) == [checked |-> checked, deep |-> deep, limited |-> size = 4, size |-> size, pieces |-> pieces]
SitePages ==
    {SitePage(TRUE, "ok", n, d) : n \in 1..4, d \in {Wrap("p", <<Text("5551")>>), <<Open("script", "no", 1), Close("script")>>, <<Open("script", "no", 2), Close("script"), Close("p")>>}}
      \cup {SitePage(c, d, 1, <<>>) : c \in BOOLEAN, d \in {"none", "error", "redirected", "blank"}} \cup {SitePage(TRUE, "none", 4, <<>>)}
FactInputs ==
    {in \in [source : {"ready", "missing"}, pages : [1..3 -> SitePages], patterns : {TRUE}, limited : BOOLEAN] : in.limited => in.source = "ready"}

Parts(house, street, locality, postal) == [house |-> house, street |-> street, locality |-> locality, postal |-> postal]
Value(field, n) ==
    [words |-> CASE n = 0 -> <<>> [] field = "service_area" -> <<<<"town">>, <<"town", "usa">>, <<"north">>>>[n]
                 [] field = "business_name" -> <<<<"acme", "co">>, <<"acme">>, <<"other">>>>[n]
                 [] OTHER -> <<<<"1">>, <<"1">>, <<"2">>>>[n],
     ext |-> IF field = "phone" /\ n = 2 THEN 7 ELSE 0,
     parts |-> IF n = 0 THEN Parts(0, 0, 0, 0) ELSE <<Parts(1, 1, 1, 1), Parts(1, 1, 0, 0), Parts(2, 1, 1, 1)>>[n], form |-> n]
Candidates(field) ==
    LET own == IF field \in {"phone", "address"} THEN "dom_value" ELSE "dom_label"
        One(page, kind, owner, entity, n) ==
            [page |-> page, final |-> page, field |-> field, kind |-> kind, owner |-> owner, entity |-> entity,
             external |-> entity = 9, value |-> Value(field, n)]
    IN  {One("home", "jsonld_property", "declared_entity", 1, 1), One("home", "jsonld_property", "unresolved", 9, 3), One("blog", "jsonld_property", "declared_entity", 2, 3),
         One("contact", "dom_label", "unresolved", 0, 3), One("blog", own, "unresolved", 0, 1), One("contact", own, "unresolved", 0, 2), One("home", own, "unresolved", 0, 0)}
          \cup IF field \in {"phone", "address"} THEN {One("home", "text_pattern", "unresolved", 0, 1), One("contact", "text_pattern", "unresolved", 0, 3)} ELSE {}
NamedEntity ==
    {{}, {[page |-> "blog", final |-> "blog", field |-> "business_name", kind |-> "jsonld_property", owner |-> "declared_entity", entity |-> 2,
           external |-> FALSE, value |-> Value("business_name", 2)]}}
ReadPages(status, blocked) ==
    {[type |-> "home", status |-> "parsed", blocked |-> {}], [type |-> "contact", status |-> status, blocked |-> blocked]}
AlignIdentity(version, model, place) ==
    [model |-> model, version |-> version, place |-> place, matched |-> TRUE, facing |-> TRUE, branch |-> TRUE, country |-> version # "v4" \/ place,
     region |-> {<<"ny">>}, town |-> <<"town">>, locality |-> 1, name |-> Value("business_name", 1), city |-> <<"town">>]
AlignIdentities ==
    {AlignIdentity(v, "hybrid", TRUE) : v \in {"v1", "v2", "v3", "v4"}}
      \cup {AlignIdentity("v4", "hybrid", FALSE), AlignIdentity("v3", "none", TRUE), AlignIdentity("v2", "storefront", TRUE)}
AlignInputs(f) ==
    {in \in [field : {f}, id : AlignIdentities, cands : {s \in SUBSET Candidates(f) : Cardinality(s) <= 2}, named : NamedEntity,
            values : {{}, {0}, {1}, {3}, {1, 3}}, read : BOOLEAN, render : BOOLEAN, reviewed : BOOLEAN, at : {1}] :
        Cardinality(in.cands \cup in.named) <= 2}
AlignInput(in) ==
    [id |-> in.id, site |-> "ready", gbp |-> "ready", siteAt |-> 1, gbpAt |-> in.at, cands |-> in.cands \cup in.named, reviewed |-> in.reviewed,
     pages |-> IF in.read THEN ReadPages("parsed", {}) ELSE ReadPages("partial", {in.field}),
     state |-> [f \in Alignment!AlignFields |-> IF in.values = {} THEN "absent" ELSE "observed"],
     values |-> [f \in Alignment!AlignFields |-> {Value(f, n) : n \in in.values}],
     rendered |-> [state |-> "ready", at |-> 1, cands |-> {c \in Candidates(in.field) : in.render /\ c.final = "home" /\ c.entity # 9}]]
CompareInputs ==
    LET values == {[words |-> w, ext |-> e, parts |-> Parts(1, p, 0, p), form |-> p] :
                      w \in BoundedSeq({"acme", "llc", "town", "usa"}, 3), e \in 0..1, p \in 0..1}
    IN  [a : values, b : {v \in values : v.ext = 1 /\ Len(v.words) < 3}, city : {<<"town">>}, region : {{<<"town">>}}]

Bound(present, expires, health, fetched) ==
    [present |-> present, expires |-> expires, health |-> health, identity |-> "matched", fetched |-> fetched, sound |-> TRUE]
Saved(url, final, status, robots, title, type, admin, deep) ==
    [url |-> url, final |-> final, checked |-> status # 1, status |-> IF status = 1 THEN 0 ELSE status, html |-> status # 204, truncated |-> deep = "cut",
     robots |-> robots, title |-> title, type |-> type, admin |-> admin, deep |-> IF deep = "cut" THEN "none" ELSE deep]
SavedPages(url) ==
    {Saved(url, f, 200, {}, t, "location", FALSE, "ok") : f \in {1, url}, t \in 0..2}
      \cup {Saved(url, url, s, {"noindex"}, 1, "service_detail", FALSE, "none") : s \in {1, 200, 404, 204}}
      \cup {Saved(url, url, 200, {"noindex"}, 1, "blog", TRUE, "failed"), Saved(url, url, 200, {}, 2, "blog", FALSE, "cut")}
Found(type, url, host, position, basis, place, vague) ==
    [type |-> type, url |-> url, host |-> host, position |-> position, basis |-> basis, places |-> place, vague |-> vague, terms |-> IF vague THEN {} ELSE {"plumber"}]
At(town, state) == {[town |-> town, state |-> state]}
FoundResults(type) ==
    {Found(type, 1, "mine", 2, "absolute", At(1, 1), FALSE), Found(type, 2, "mine", 1, "local", At(0, 2), FALSE), Found(type, 3, "rival", 1, "absolute", At(2, 2), FALSE),
     Found(type, 3, "rival", 3, "absolute", At(2, 2), FALSE), Found(type, 4, "second", 1, "absolute", At(1, 0) \cup At(1, 2), TRUE), Found(type, 4, "second", 2, "absolute", At(1, 0) \cup At(1, 2), TRUE),
     Found(type, 5, "second", 1, "local", At(2, 1), FALSE), Found(type, 6, "far", 4, "absolute", At(3, 3), FALSE), Found(type, 0, "none", 1, "absolute", {}, FALSE)}
SearchRun(results, answered) ==
    [query |-> 7, calls |-> [maps_call |-> answered, google_call |-> "succeeded"], results |-> results, terms |-> {"plumber"}]
Sampled(id, status, n, at) ==
    [id |-> id, status |-> status, at |-> at,
     pages |-> IF n = 0 THEN <<>> ELSE IF n = 1 THEN <<Saved(1, 1, 200, {}, 1, "blog", FALSE, "ok")>> ELSE <<Saved(1, 1, 200, {}, 1, "location", FALSE, "ok"), Saved(2, 2, 404, {}, 1, "location", FALSE, "ok")>>]
FindingBase ==
    [bind |-> [k \in Rules!SourceKinds |-> Bound(k = "site", 9, "healthy", 1)], now |-> 5, evidence |-> {}, market |-> 1, pages |-> <<>>, runs |-> <<>>, samples |-> {},
     client |-> "mine", rivals |-> {"rival", "second"}, town |-> {}, quality |-> TRUE, reviewed |-> FALSE]
MarketBound == [FindingBase.bind EXCEPT !["serp"] = Bound(TRUE, 0, "healthy", 1), !["competitor"] = Bound(TRUE, 0, "healthy", 2)]
PageInputs == [pages : {<<a, b, c>> : a \in SavedPages(1), b \in SavedPages(2), c \in SavedPages(3)}, quality : BOOLEAN]
ResultInputs ==
    [type : {"organic"}, results : [1..4 -> FoundResults("organic")], answered : {"succeeded"}, reviewed : BOOLEAN]
      \cup [type : {"maps"}, results : [1..2 -> FoundResults("maps")], answered : {"succeeded", "failed"}, reviewed : {FALSE}]
SampleInputs ==
    [health : {"healthy", "unavailable"}, expires : {0, 5}, page : SavedPages(1), first : [status : {"available", "partial", "unavailable"}, n : 0..2],
     second : [n : 0..2, at : {2, 4}], third : [status : {"available", "none"}, n : {0, 2}]]
FindingInput(in) ==
    CASE "quality" \in DOMAIN in -> [FindingBase EXCEPT !.pages = in.pages, !.quality = in.quality]
      [] "answered" \in DOMAIN in -> [FindingBase EXCEPT !.bind = MarketBound, !.runs = <<SearchRun(in.results, in.answered)>>, !.reviewed = in.reviewed]
      [] OTHER -> [FindingBase EXCEPT !.bind = [MarketBound EXCEPT !["competitor"].health = in.health, !["site"].expires = in.expires], !.pages = <<in.page>>,
                                      !.samples = {Sampled(1, in.first.status, in.first.n, 2), Sampled(2, "available", in.second.n, in.second.at),
                                                   Sampled(3, in.third.status, in.third.n, 2)}]

-----------------------------------------------------------------------------
(* The client's sources: one page that both know, by one address or by two,
   addresses that are no page, and sessions without a page.                    *)

Address(absolute, host, params) == [absolute |-> absolute, host |-> host, port |-> "standard", unsafe |-> FALSE, path |-> "/a", params |-> params]
MCPageAddress ==
    [raw \in {"site/a", "site/a?gclid", "other/a", "/a", "(not set)"} |->
        CASE raw = "site/a" -> Address(TRUE, "site", {})
          [] raw = "site/a?gclid" -> Address(TRUE, "site", {"gclid"})
          [] raw = "other/a" -> Address(TRUE, "other", {})
          [] OTHER -> Address(FALSE, "", {})]

Searched(clicks, imp, pos) == [clicks |-> clicks, imp |-> imp, pos |-> pos]
Visited(sessions, engaged, events, converting) ==
    [sessions |-> sessions, engaged |-> engaged, events |-> events, converting |-> converting]
SearchRows == {Searched(12, 120, 5), Searched(2, 120, 5), Searched(20, 60, 10), Searched(9, 200, 21)}
VisitRows == {Visited(30, 20, 3, 2), Visited(60, 20, 3, 1), Visited(24, 20, 0, 0), Visited(19, 5, 1, 1)}

Snap(present, expires, matched, health, codes) ==
    [present |-> present, expires |-> expires, matched |-> matched, health |-> health, codes |-> codes, intact |-> TRUE]
Fresh == Snap(TRUE, 9, TRUE, "healthy", {})
Absent == Snap(FALSE, 9, FALSE, "not_checked", {})
SnapKinds == {Fresh, [Fresh EXCEPT !.expires = 5], [Fresh EXCEPT !.matched = FALSE],
              [Fresh EXCEPT !.health = "unhealthy", !.codes = {"no_data", "activity_gap", "other"}], [Fresh EXCEPT !.intact = FALSE]}

Window(last) == [current |-> [first |-> last - 89, last |-> last], previous |-> [first |-> last - 179, last |-> last - 90]]
Both(now, before, cut) == [current |-> now, previous |-> before, cut |-> cut]
NoRestriction == [v \in {"totals", "pages", "dates", "events"} |-> {}]
Measured(now, before) == [current |-> now, previous |-> before]
Week == [d \in 0..5 |-> d]

\* What the inputs below change.
ClientBase ==
    [now |-> 5, snap |-> [gsc |-> Fresh, ga4 |-> Fresh, gbp |-> Absent], window |-> [s \in {"gsc", "ga4", "gbp"} |-> Window(0)],
     domain |-> "site", hosts |-> {"site"}, resource |-> [host |-> "site", path |-> ""],
     gsc |-> [query |-> Both([q \in {} |-> 0], [q \in {} |-> 0], FALSE), page |-> Both([q \in {} |-> 0], [q \in {} |-> 0], FALSE),
              totals |-> Measured(<<Searched(30, 300, 6)>>, <<Searched(30, 300, 6)>>)],
     ga4 |-> [pages |-> Both([q \in {} |-> 0], [q \in {} |-> 0], FALSE), totals |-> Measured(<<Visited(100, 70, 30, 20)>>, <<Visited(100, 70, 30, 20)>>),
              restricted |-> NoRestriction, degraded |-> {}, configured |-> TRUE],
     gbp |-> [impressions |-> Measured(60, 60), actions |-> Measured(12, 12), keywords |-> {0}],
     days |-> [gsc |-> Week, ga4 |-> Week, start |-> 0, end |-> 7, lag |-> 2]]

\* One page in both sources; another address of it, or of no page; restrictions and samples.
ClientPages ==
    [gc : SearchRows, gp : SearchRows, ac : VisitRows, ap : {Visited(60, 20, 3, 1), Visited(24, 20, 0, 0)}, second : {"none", "site/a?gclid", "other/a"}, third : BOOLEAN,
     gone : BOOLEAN, flaw : {"none", "sampled", "pages", "dates", "no_events", "no_clicks"}]
WithSecond(in, row) == IF in.second = "none" THEN [q \in {"site/a"} |-> row] ELSE [q \in {"site/a", in.second} |-> IF q = "site/a" THEN row ELSE Searched(15, 60, 30)]
WithThird(in, row) == IF in.third THEN [q \in {"/a", "(not set)"} |-> IF q = "/a" THEN row ELSE Visited(25, 25, 0, 0)] ELSE [q \in {"/a"} |-> row]
PagesInput(in) ==
    [ClientBase EXCEPT
        !.gsc.page = Both(WithSecond(in, in.gc), IF in.gone THEN [q \in {} |-> 0] ELSE WithSecond(in, in.gp), in.gone /\ in.third),
        !.gsc.totals.current = IF in.flaw = "no_clicks" THEN <<Searched(0, 300, 6)>> ELSE @,
        !.ga4.pages = Both(WithThird(in, in.ac), WithThird(in, in.ap), FALSE),
        !.ga4.restricted = IF in.flaw \in {"pages", "dates"} THEN [@ EXCEPT ![in.flaw] = {"sessions"}] ELSE @,
        !.ga4.degraded = IF in.flaw = "sampled" THEN {"dates"} ELSE @,
        !.ga4.configured = in.flaw # "no_events"]

\* Sources in every condition, with windows that end some days apart; and totals that move or are missing.
ClientSources(kinds, profiles, hosts, apart, clicks, sessions, seen, acted) ==
    [gsc : kinds, ga4 : kinds, gbp : profiles, apart : apart, host : hosts, clicks : clicks, sessions : sessions, seen : seen,
     acted : acted, words : {{0}, {0, 5}, {120}}]
ClientStates == ClientSources(SnapKinds, SnapKinds \cup {Absent}, {"site", "other"}, {0, 3, 4}, {60}, {150}, {20}, {30})
ClientTotals == ClientSources({Fresh}, {Fresh, Absent}, {"site"}, {0, 4}, {0, 12, 30, 60}, {19, 30, 150}, {20, 60, 90}, {2, 12, 30})
SourcesInput(in) ==
    [ClientBase EXCEPT
        !.snap = [gsc |-> in.gsc, ga4 |-> in.ga4, gbp |-> in.gbp], !.window["ga4"] = Window(in.apart), !.hosts = {in.host},
        !.gsc.query = Both([q \in {"q"} |-> Searched(in.clicks, 60, 6)], [q \in {"q"} |-> Searched(20, 60, 6)], FALSE),
        !.gsc.totals.current = IF in.clicks = 0 THEN <<>> ELSE <<Searched(in.clicks, 6 * in.clicks, 6)>>,
        !.ga4.totals.current = <<Visited(in.sessions, in.sessions, 3, 2)>>,
        !.gbp = [impressions |-> Measured(in.seen, 60), actions |-> Measured(in.acted, 12), keywords |-> in.words]]

ClientInput(in) == IF "gc" \in DOMAIN in THEN PagesInput(in) ELSE SourcesInput(in)

\* Two daily series, the second with days missing.
WeekInputs == [left : [0..5 -> 0..1], right : UNION {[d -> 0..1] : d \in {0..5, 1..5, 0..4}}, start : {0, 1}, end : {6, 7}]
InputWeeks(in) == Client!WeekPairs(in.left, in.right, in.start, in.end, 2)

\* Snapshots that are what they claim to be are judged, sampled ones included.
SampledDataIsJudged == Ran("client") => output.error # "ID_CONFLICT"

\* Only what a visitor can see is offered and what could not be read says so; a profile is said
\* to differ only on the business's own evidence, which text and rendered pages never add to; and
\* the validator accepts every outcome of the rules, each of them real; what two sources of the
\* client say together each of them says alone, and limits leave out the least (parse_html_tree,
\* build_site_business_facts, align_site_gbp, run_public_findings, build_cross_source_findings).
FindingsAreSound ==
    /\ Ran("html") => Facts!OnlyVisibleWords(HtmlPieces(input), input.patterns)
    /\ Ran("facts") => Facts!FactsAreHonest(output, input.source, input.pages)
    /\ Ran("align") => \A in \in {AlignInput(input)} :
                           /\ Alignment!ConclusionIsGrounded(in, input.field) /\ Alignment!TextOnlyCorroborates(in, input.field)
                           /\ Alignment!SameValuesAgree(in, input.field)
    /\ Ran("values") => Alignment!ComparatorsAgree(input.a, input.b, input.city, input.region)
    /\ Ran("findings") => \A in \in {FindingInput(input)} :
                              /\ Rules!OutcomesAreValid(in, output)
                              /\ \A o \in output.outcomes : o.state = "triggered" => Rules!FindingIsReal(in, o)
    /\ Ran("client") => \A in \in {ClientInput(input)} :
                            /\ Client!CrossIsSound(in, output)
                            /\ output.error \in {"ID_CONFLICT", "REFERENCE_INVALID", "RESULT_INVALID"} => Client!SampledNotSet(in)
    /\ Ran("weeks") => Client!WeeksAgree(input.left, input.right, InputWeeks(input), output)

-----------------------------------------------------------------------------
Init ==
    /\ done = FALSE /\ output = <<>> /\ algorithm \in Algorithms
    /\ \/ Given("ranking", RankingInputs)
       \/ Given("plan", PlanInputs)
       \/ Given("report", ReportInputs)
       \/ Given("compare", ComparisonInputs)
       \/ Given("health", HealthInputs)
       \/ Given("sessions", SessionInputs)
       \/ Given("link", LinkInputs)
       \/ Given("request", RequestInputs)
       \/ Given("sitemap", SitemapInputs)
       \/ Given("selection", SelectionInputs)
       \/ Given("location", LocationInputs)
       \/ Given("market", MarketInputs)
       \/ Given("capability", CapabilityInputs)
       \/ Given("evidence", SelectionOfEvidence)
       \/ Given("copy", CopyInputs)
       \/ Given("html", HtmlInputs)
       \/ Given("facts", FactInputs)
       \/ \E f \in Alignment!AlignFields : Given("align", AlignInputs(f))
       \/ Given("values", CompareInputs)
       \/ Given("findings", PageInputs)
       \/ Given("findings", ResultInputs)
       \/ Given("findings", SampleInputs)
       \/ Given("client", ClientPages)
       \/ Given("client", ClientStates)
       \/ Given("client", ClientTotals)
       \/ Given("weeks", WeekInputs)

Run ==
    \/ Yields("ranking", [groups |-> Groups(input.obs), ranking |-> RankCandidates(input.obs, input.supplements)])
    \/ Yields("plan", BuildPlan(input))
    \/ Yields("report", RunReport(ReportInput(input)))
    \/ Yields("compare", Compare(input))
    \/ Yields("health", Health(input))
    \/ Yields("sessions", ReadSessions(input))
    \/ Yields("link", Canonicalize(input))
    \/ Yields("request", Fetch(input.hops, input.html, input.prefix))
    \/ Yields("sitemap", DiscoverSitemaps(input.files, [disallowed |-> input.disallowed], input.starts))
    \/ Yields("selection", SelectKeyPages(SelectionPages(input), input.limit, <<>>))
    \/ Yields("location", ResolveTargetPoint(input.market, input.answer))
    \/ Yields("market", BuildSearchPlan(input.queries))
    \/ Yields("capability", RunCapability(input))
    \/ Yields("evidence", SelectEvidence(input, ListLimit))
    \/ Yields("copy", RunCopy(input))
    \/ Yields("html", Facts!ParseTree(HtmlPieces(input)))
    \/ Yields("facts", Facts!BuildFacts(input.source, input.pages, JsonDocs, input.patterns, input.limited))
    \/ Yields("align", Alignment!AlignmentOutcome(AlignInput(input), input.field))
    \/ Yields("values", Alignment!CompareNames(input.a, input.b, TRUE, input.city))
    \/ Yields("findings", Rules!RunFindings(FindingInput(input)))
    \/ Yields("client", Client!CrossFindings(ClientInput(input)))
    \/ Yields("weeks", Client!Correlation(input.left, input.right, InputWeeks(input)))

Next ==
    \/ ~done /\ done' = TRUE /\ Run /\ UNCHANGED <<algorithm, input>>
    \/ done /\ UNCHANGED algVars

Spec == Init /\ [][Next]_algVars
=============================================================================
