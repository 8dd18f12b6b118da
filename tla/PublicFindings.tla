--------------------------- MODULE PublicFindings ---------------------------
(***************************************************************************)
(* Findings from public sources: saved snapshots become evidence, rules    *)
(* judge pages, search results and page types from that evidence, and a    *)
(* validator checks every outcome again before the findings are rolled up. *)
(*                                                                         *)
(* A piece of evidence is named by its snapshot, record and field, as its  *)
(* digest is; a coverage record says what could not be observed.           *)
(***************************************************************************)
EXTENDS Integers, Sequences, SequencesExt, FiniteSets, FiniteSetsExt

CONSTANTS
    AssetWindow,        \* WINDOW of the page type rule, in hours
    CompetitorCount     \* the number of competitors with a sample that make it complete

AssetTypes == {"service_detail", "location"}
ResultTypes == {"maps", "organic"}
SourceKinds == {"site", "serp", "competitor"}

-----------------------------------------------------------------------------
(* Bindings *)

\* Why a source cannot be used, "none" when it can.
Ineligible(kind, b, now) ==
    IF b.expires # 0 /\ b.expires <= now THEN "expired"
    ELSE IF b.health = "expired" THEN "expired"
    ELSE IF kind = "public_gbp" /\ b.health = "unavailable" THEN "unavailable"
    ELSE IF kind = "public_gbp" /\ b.identity = "mismatch" THEN "identity_mismatch"
    ELSE IF kind = "public_gbp" /\ b.identity # "matched" THEN "identity_unconfirmed"
    ELSE IF kind # "public_gbp" /\ b.health = "unavailable" THEN "unavailable"
    ELSE IF kind # "public_gbp" /\ b.health \notin {"healthy", "not_checked"} THEN "unhealthy"
    ELSE "none"

\* What must hold of all sources before any is read.
SourcesAreBound(in) ==
    /\ \A k \in SourceKinds : in.bind[k].present => in.bind[k].fetched <= in.now /\ in.bind[k].sound
    /\ in.bind["competitor"].present => in.bind["serp"].present /\ in.market = in.bind["serp"].fetched

-----------------------------------------------------------------------------
(* Evidence *)

Piece(snap, cover, rec, field, n, well) ==
    [snap |-> snap, cover |-> cover, rec |-> rec, field |-> field, n |-> n, well |-> well]
Observed(snap, rec, fields) == {Piece(snap, FALSE, rec, f, 0, TRUE) : f \in fields}
Covered(snap, rec, field, well) == {Piece(snap, TRUE, rec, field, 0, well)}

EligibleHtml(page) == ~page.truncated /\ page.checked /\ page.status \in 200..299 /\ page.html

\* One page of an inventory: what was observed, and what was not.
PageEvidence(snap, rec, page) ==
    LET response == {"url", "check_status", "content_type", "final_url"} \cup (IF page.status = 0 THEN {} ELSE {"status_code"})
        content == {"page_type"} \cup (IF page.title = 0 THEN {} ELSE {"title"}) \cup (IF page.robots = {} THEN {} ELSE {"meta_robots"})
    IN  IF ~page.checked THEN Covered(snap, rec, "check_status", FALSE)
        ELSE (Observed(snap, rec, response \ {"url"})
                \cup (IF page.truncated THEN Covered(snap, rec, "structural_truncated", TRUE) ELSE Observed(snap, rec, content)))
             \cup (CASE page.deep = "none" -> Covered(snap, rec, "deep_snapshot", TRUE)
                     [] page.deep = "failed" -> Covered(snap, rec, "deep_status", FALSE)
                     [] OTHER -> Observed(snap, rec, {"text"}))

\* Counts of the sample, over pages that could be read as HTML.
CountEvidence(snap, owner, pages) ==
    LET read == SelectSeq(pages, EligibleHtml)
        Count(t) == Cardinality({i \in DOMAIN read : read[i].type = t})
    IN  {Piece(snap, FALSE, <<owner, 0>>, "eligible_html", Len(read), TRUE)}
          \cup {Piece(snap, FALSE, <<owner, 0>>, t, Count(t), TRUE) : t \in AssetTypes}

InventoryEvidence(snap, owner, pages) ==
    UNION {PageEvidence(snap, <<owner, i>>, pages[i]) : i \in DOMAIN pages} \cup CountEvidence(snap, owner, pages)

\* Calls and results of the queries; a record has its run and its place in it.
CallOf(type) == IF type = "maps" THEN "maps_call" ELSE "google_call"
RunEvidence(r, run) ==
    UNION {IF run.calls[c] = "succeeded" THEN Observed("serp", <<r, 0>>, {c}) ELSE Covered("serp", <<r, 0>>, c, FALSE) :
               c \in {"maps_call", "google_call"}}
      \cup UNION {Observed("serp", <<r, i>>, {"result_type", "position", "rank_source", "display_name"}
                                               \cup (IF run.results[i].url = 0 THEN {} ELSE {"url"})) : i \in DOMAIN run.results}
      \cup UNION {Covered("serp", <<r, 0>>, t, TRUE) :
                     t \in {x \in ResultTypes : run.calls[CallOf(x)] = "succeeded" /\ \A i \in DOMAIN run.results : run.results[i].type # x}}

SampleEvidence(s) ==
    (IF s.status = "available" THEN {} ELSE Covered("competitor", <<s.id, 0>>, "site_status", s.status = "partial"))
      \cup (IF s.status = "none" THEN {} ELSE InventoryEvidence("competitor", s.id, s.pages))

\* A source that cannot be used leaves one coverage record, of each competitor.
BuildEvidence(in) ==
    LET Of(k) ==
            IF Ineligible(k, in.bind[k], in.now) # "none"
            THEN UNION {Covered(k, <<o, 0>>, "binding", FALSE) : o \in IF k = "competitor" THEN {s.id : s \in in.samples} ELSE {0}}
            ELSE CASE k = "site" -> InventoryEvidence("site", 0, in.pages)
                   [] k = "serp" -> UNION {RunEvidence(r, in.runs[r]) : r \in DOMAIN in.runs}
                   [] OTHER -> UNION {SampleEvidence(s) : s \in in.samples}
    IN  UNION {Of(k) : k \in {s \in SourceKinds : in.bind[s].present}}

\* The request with the index of its evidence, which is built once.
Indexed(in) == [in EXCEPT !.evidence = BuildEvidence(in)]

Available(in, k) == in.bind[k].present /\ Ineligible(k, in.bind[k], in.now) = "none"
MissingReason(in, k) == IF in.bind[k].present THEN "source_ineligible" ELSE "source_missing"

Refs(in, snap, rec, fields) == {e \in in.evidence : ~e.cover /\ e.snap = snap /\ e.rec = rec /\ e.field \in fields}
Counted(in, snap, owner, field) == CHOOSE e \in Refs(in, snap, <<owner, 0>>, {field}) : TRUE

-----------------------------------------------------------------------------
(* Outcomes *)

Target(kind, urls, key, type, rivals) == [kind |-> kind, urls |-> urls, key |-> key, type |-> type, rivals |-> rivals]
Decision(rule, target, state, reason, evidence, comparators) ==
    [rule |-> rule, target |-> target, state |-> state, reason |-> reason, ev |-> evidence, comp |-> comparators]
Unknown(rule, target, reason) == Decision(rule, target, "not_checked", reason, {}, {})
Judged(rule, target, met, evidence, comparators) ==
    Decision(rule, target, IF met THEN "triggered" ELSE "not_triggered", IF met THEN "condition_met" ELSE "condition_not_met", evidence, comparators)

(* Pages *)

PageTarget(page) == Target("page", {page.url}, 0, "", {})
OutOfScope(in, page) == in.quality /\ page.admin
PageRefs(in, i, fields) == Refs(in, "site", <<0, i>>, fields)

HttpOutcome(in, i) ==
    LET page == in.pages[i]
    IN  IF ~page.checked \/ page.status = 0 THEN Unknown("http", PageTarget(page), "field_not_observed")
        ELSE Judged("http", PageTarget(page), page.status \in 400..599, PageRefs(in, i, {"status_code", "check_status"}), {})

NoindexOutcome(in, i) ==
    LET page == in.pages[i]
    IN  IF OutOfScope(in, page) THEN [Unknown("noindex", PageTarget(page), "page_out_of_scope") EXCEPT !.ev = PageRefs(in, i, {"url", "final_url"})]
        ELSE IF ~EligibleHtml(page) THEN Unknown("noindex", PageTarget(page), "field_not_observed")
        ELSE Judged("noindex", PageTarget(page), "noindex" \in page.robots, PageRefs(in, i, {"status_code", "content_type", "meta_robots"}), {})

\* Pages with a title, by their final address; a title that differs there is ambiguous.
Titled(in) == {i \in DOMAIN in.pages : EligibleHtml(in.pages[i]) /\ ~OutOfScope(in, in.pages[i]) /\ in.pages[i].title # 0}
TitleRefs(in, i) == PageRefs(in, i, {"title", "status_code", "final_url", "content_type"})
TitleGroup(in, title) ==
    {i \in Titled(in) : \A j \in Titled(in) : in.pages[j].final = in.pages[i].final => in.pages[j].title = title}
Finals(in, group) == {in.pages[i].final : i \in group}

TitleOutcomes(in) ==
    LET titles == {in.pages[i].title : i \in Titled(in)}
        repeated == {t \in titles : Cardinality(Finals(in, TitleGroup(in, t))) >= 2}
        ambiguous == \E i, j \in Titled(in) : in.pages[i].final = in.pages[j].final /\ in.pages[i].title # in.pages[j].title
        unseen == \E i \in DOMAIN in.pages : ~OutOfScope(in, in.pages[i]) /\ i \notin Titled(in)
        comparable == Cardinality(Finals(in, UNION {TitleGroup(in, t) : t \in titles}))
        whole == Target("site", {}, 0, "", {})
    IN  {Judged("title", Target("title_group", {in.pages[i].url : i \in TitleGroup(in, t)}, t, "", {}), TRUE,
                UNION {TitleRefs(in, i) : i \in TitleGroup(in, t)}, {}) : t \in repeated}
          \cup (IF ambiguous \/ unseen \/ comparable < 2
                THEN {Unknown("title", whole, IF ambiguous THEN "ambiguous_page_observations" ELSE IF unseen THEN "field_not_observed" ELSE "insufficient_sample")}
                ELSE IF repeated = {} THEN {Judged("title", whole, FALSE, UNION {TitleRefs(in, i) : i \in Titled(in)}, {})} ELSE {})

SiteOutcomes(in) ==
    IF ~Available(in, "site")
    THEN {Unknown(r, Target("site", {}, 0, "", {}), MissingReason(in, "site")) : r \in {"http", "noindex", "title"}}
    ELSE UNION {{HttpOutcome(in, i), NoindexOutcome(in, i)} : i \in DOMAIN in.pages} \cup TitleOutcomes(in)

(* Search results *)

\* Where a result says it is: towns with the states that were named for them.
Located(result) ==
    {p \in result.places : p.state = 0 => \A q \in result.places : q.town = p.town => q.state = 0}
Locality(result) ==
    LET places == Located(result)
        place == CHOOSE p \in places : TRUE
    IN  IF places = {} \/ result.vague THEN "unknown"
        ELSE IF Cardinality(places) > 1 THEN IF \A p \in places : p.state \notin {0, 1} THEN "non_local" ELSE "unknown"
        ELSE IF place.state \notin {0, 1} THEN "non_local"
        ELSE IF place.town = 1 THEN "local"
        ELSE IF place.town # 0 /\ place.state = 1 THEN "non_local"
        ELSE "unknown"

\* Every address has one vote; results of one address that disagree have none.
VoteOf(results, url) ==
    LET group == {r \in results : r.url = url}
    IN  IF Cardinality({Locality(r) : r \in group}) = 1 /\ Cardinality({r.places : r \in group}) = 1
        THEN Locality(CHOOSE r \in group : TRUE) ELSE "unknown"
NonLocalMajority(results) ==
    LET urls == {r.url : r \in results}
    IN  Cardinality(urls) >= 3 /\ 2 * Cardinality({u \in urls : VoteOf(results, u) = "non_local"}) > Cardinality(urls)

\* Some result has two words of the query, and the town when the query names it.
ScopeSupported(run, results, town) ==
    /\ run.terms # {}
    /\ \E r \in results : /\ Cardinality(run.terms \cap r.terms) >= Min({2, Cardinality(run.terms)})
                          /\ town \subseteq run.terms => town \subseteq r.terms

Records(run, type) == {i \in DOMAIN run.results : run.results[i].type = type}
Domains(run, type) == {run.results[i].host : i \in {k \in Records(run, type) : run.results[k].url # 0}}
Rows(run, type, host) == {i \in Records(run, type) : run.results[i].url # 0 /\ run.results[i].host = host}
\* The best places of a domain, which has one where all its ranks have one basis.
Basis(run, type, host) == {run.results[i].basis : i \in Rows(run, type, host)}
Ranked(run, type, host) == Cardinality(Basis(run, type, host)) = 1
Best(run, type, host) == Min({run.results[i].position : i \in Rows(run, type, host)})
RankRefs(in, r, type, host) ==
    UNION {Refs(in, "serp", <<r, i>>, {"position", "url", "rank_source", "result_type"}) :
              i \in {k \in Rows(in.runs[r], type, host) : in.runs[r].results[k].position = Best(in.runs[r], type, host)}}

MarketTarget(run, type, rivals) == Target("market", {}, run.query, type, rivals)
CallRefs(in, r, type) == Refs(in, "serp", <<r, 0>>, {CallOf(type)})

DomainOutcome(in, r, type) ==
    LET run == in.runs[r]
        found == Records(run, type)
        absent == in.client \notin Domains(run, type)
        call == CallRefs(in, r, type)
        target == MarketTarget(run, type, {})
    IN  IF \E i \in found : run.results[i].url = 0
        THEN [Unknown("domain", target, "identity_unresolved") EXCEPT !.ev = call]
        ELSE IF in.quality /\ type = "organic" /\ absent /\ NonLocalMajority({run.results[i] : i \in found})
        THEN [Unknown("domain", target, "sample_not_local") EXCEPT !.ev = call \cup UNION {Refs(in, "serp", <<r, i>>, {"display_name", "url"}) : i \in found}]
        ELSE Judged("domain", target, absent, call \cup UNION {Refs(in, "serp", <<r, i>>, {"url"}) : i \in found}, {})

ComparableRivals(in, run, type) ==
    {c \in in.rivals : Rows(run, type, c) # {} /\ Ranked(run, type, c) /\ Basis(run, type, c) = Basis(run, type, in.client)}

AheadOutcome(in, r, type) ==
    LET run == in.runs[r]
        call == CallRefs(in, r, type)
        present == Rows(run, type, in.client) # {}
        comparable == ComparableRivals(in, run, type)
        leaders == {c \in comparable : Best(run, type, c) < Best(run, type, in.client)}
        chosen == IF Cardinality(leaders) >= 2 THEN leaders ELSE comparable
        target == MarketTarget(run, type, chosen)
        evidence == call \cup RankRefs(in, r, type, in.client)
        others == UNION {RankRefs(in, r, type, c) : c \in chosen}
        complete == Cardinality(in.rivals) >= 2 /\ comparable = in.rivals
        odd == \E c \in in.rivals : Rows(run, type, c) # {} /\ c \notin comparable
    IN  IF ~present \/ ~Ranked(run, type, in.client)
        THEN [Unknown("ahead", MarketTarget(run, type, {}), IF present THEN "rank_basis_mismatch" ELSE "identity_unresolved") EXCEPT !.ev = call]
        ELSE IF Cardinality(leaders) >= 2 \/ complete THEN Judged("ahead", target, Cardinality(leaders) >= 2, evidence, others)
        ELSE Decision("ahead", target, "not_checked", IF odd THEN "rank_basis_mismatch" ELSE "insufficient_sample", evidence, others)

RunOutcomes(in, r, type) ==
    LET run == in.runs[r]
        found == {run.results[i] : i \in Records(run, type)}
        Both(reason) == {Unknown(rule, MarketTarget(run, type, {}), reason) : rule \in {"domain", "ahead"}}
    IN  IF run.calls[CallOf(type)] # "succeeded" THEN Both("source_ineligible")
        ELSE IF found = {} THEN Both("insufficient_sample")
        ELSE IF in.reviewed /\ type = "organic" /\ ~ScopeSupported(run, found, in.town) THEN Both("source_ineligible")
        ELSE {DomainOutcome(in, r, type), AheadOutcome(in, r, type)}

MarketOutcomes(in) ==
    IF ~Available(in, "serp")
    THEN {Unknown(rule, MarketTarget(in.runs[r], t, {}), MissingReason(in, "serp")) : rule \in {"domain", "ahead"}, r \in DOMAIN in.runs, t \in ResultTypes}
    ELSE UNION {RunOutcomes(in, r, t) : r \in DOMAIN in.runs, t \in ResultTypes}

(* Page types *)

AssetOutcome(in, type) ==
    LET own == {Counted(in, "site", 0, "eligible_html"), Counted(in, "site", 0, type)}
        Sample(s) == {Counted(in, "competitor", s.id, "eligible_html"), Counted(in, "competitor", s.id, type)}
        usable == {s \in in.samples : s.status \notin {"none", "unavailable"} /\ Counted(in, "competitor", s.id, "eligible_html").n > 0}
        times == {in.bind["site"].fetched} \cup {s.at : s \in usable}
        positive == {s \in usable : Counted(in, "competitor", s.id, type).n > 0}
        Of(samples) == Target("page_type", {}, 0, type, {s.id : s \in samples})
        Others(samples) == UNION {Sample(s) : s \in samples}
    IN  IF ~Available(in, "site") THEN Unknown("asset", Of({}), MissingReason(in, "site"))
        ELSE IF Counted(in, "site", 0, "eligible_html").n = 0 THEN [Unknown("asset", Of({}), "insufficient_sample") EXCEPT !.ev = own]
        ELSE IF Counted(in, "site", 0, type).n > 0 THEN Judged("asset", Of({}), FALSE, own, {})
        ELSE IF ~Available(in, "competitor") THEN [Unknown("asset", Of({}), MissingReason(in, "competitor")) EXCEPT !.ev = own]
        ELSE IF Max(times) - Min(times) > AssetWindow
        THEN Decision("asset", Of(usable), "not_checked", "comparison_time_gap", own, Others(usable))
        ELSE IF Cardinality(positive) >= 2 THEN Judged("asset", Of(positive), TRUE, own, Others(positive))
        ELSE IF Cardinality(usable) = CompetitorCount THEN Judged("asset", Of(usable), FALSE, own, Others(usable))
        ELSE Decision("asset", Of(usable), "not_checked", "insufficient_sample", own, Others(usable))

Outcomes(in) == SiteOutcomes(in) \cup MarketOutcomes(in) \cup {AssetOutcome(in, t) : t \in AssetTypes}

-----------------------------------------------------------------------------
(* Validation and rollups *)

\* The record of a piece of evidence: a page of the site, a result, a sample.
HostAt(in, e) == IF e.rec[2] = 0 THEN in.client ELSE in.runs[e.rec[1]].results[e.rec[2]].host
QueryAt(in, e) == in.runs[e.rec[1]].query
TypeFits(in, e, type) ==
    IF e.rec[2] = 0 THEN e.field = CallOf(type) ELSE in.runs[e.rec[1]].results[e.rec[2]].type = type

ValidOutcome(in, o) ==
    LET fired == o.state = "triggered"
        market == o.rule \in {"domain", "ahead"}
        Usable(e) == e \in in.evidence /\ (fired => ~e.cover /\ e.well /\ Available(in, e.snap))
        owners == IF o.rule = "ahead" THEN {HostAt(in, e) : e \in o.comp} ELSE {e.rec[1] : e \in o.comp}
    IN  /\ \A e \in o.ev \cup o.comp : Usable(e)
        /\ fired => /\ o.ev # {} /\ \A e \in o.ev : e.snap = IF market THEN "serp" ELSE "site"
                    /\ o.rule \in {"http", "noindex", "title"} => \A e \in o.ev : in.pages[e.rec[2]].url \in o.target.urls
                    /\ market => \A e \in o.ev \cup o.comp : QueryAt(in, e) = o.target.key /\ TypeFits(in, e, o.target.type)
                    /\ o.rule = "ahead" => \A e \in o.ev : HostAt(in, e) = in.client
                    /\ o.rule = "asset" => /\ \A e \in o.ev : IF e.field = "eligible_html" THEN e.n > 0 ELSE e.field = o.target.type /\ e.n = 0
                                           /\ \A e \in o.comp : e.n > 0 /\ e.field \in {"eligible_html", o.target.type}
                    /\ o.rule \notin {"ahead", "asset"} => o.comp = {}
                    /\ o.rule \in {"ahead", "asset"} => Cardinality(owners) >= 2 /\ owners = o.target.rivals

\* The findings of a type of page are those of its pages.
Cluster(in, outcomes, type) ==
    LET urls == {in.pages[i].url : i \in {k \in DOMAIN in.pages : in.pages[k].checked /\ in.pages[k].type = type}}
    IN  {o \in outcomes : o.state = "triggered" /\ o.target.kind \in {"page", "title_group"} /\ o.target.urls \cap urls # {}}

Validated(in, outcomes) ==
    [error |-> "none", outcomes |-> outcomes, valid |-> \A o \in outcomes : ValidOutcome(in, o)]
Evaluated(in) == Validated(in, Outcomes(in))
RunFindings(in) ==
    IF SourcesAreBound(in) THEN Evaluated(Indexed(in)) ELSE [error |-> "SNAPSHOT_BINDING_INVALID", outcomes |-> {}, valid |-> TRUE]

-----------------------------------------------------------------------------
(* What is expected. *)

\* The validator never refuses what the rules say, and nothing is said twice in two ways.
OutcomesAreValid(in, result) ==
    /\ result.valid
    /\ \A o, p \in result.outcomes : o.rule = p.rule /\ o.target = p.target => o = p
    /\ \A o \in result.outcomes : o.state = "triggered" /\ o.target.kind \in {"page", "title_group"} =>
           \E t \in {in.pages[i].type : i \in DOMAIN in.pages} : o \in Cluster(in, result.outcomes, t)

\* Competitors are ahead only where each of two has, on the client's one basis, a result before
\* all of the client's.
AheadIsReal(in, o) ==
    \A r \in DOMAIN in.runs :
        LET run == in.runs[r]
            Mine == {run.results[i] : i \in Rows(run, o.target.type, in.client)}
            Theirs(c) == {run.results[i] : i \in Rows(run, o.target.type, c)}
        IN  run.query = o.target.key =>
                \A c \in o.target.rivals : \A mine \in Mine : \E their \in Theirs(c) :
                    their.position < mine.position /\ \A other \in Theirs(c) : other.basis = mine.basis

\* Pages with one title are two pages that were read, each with that title alone.
TitlesAreShared(in, o) ==
    \E i, j \in DOMAIN in.pages :
        /\ {in.pages[i].url, in.pages[j].url} \subseteq o.target.urls /\ in.pages[i].final # in.pages[j].final
        /\ \A k \in Titled(in) : in.pages[k].final \in {in.pages[i].final, in.pages[j].final} => in.pages[k].title = o.target.key

\* A domain is missing from a sample that is local: a result that is listed twice changes nothing.
AbsenceIsLocal(in, o) ==
    \A r \in DOMAIN in.runs :
        LET found == {in.runs[r].results[i] : i \in Records(in.runs[r], "organic")}
            away == {u \in {x.url : x \in found} : \A x \in found : x.url = u => Locality(x) = "non_local"}
        IN  in.quality /\ in.runs[r].query = o.target.key /\ o.target.type = "organic" /\ Cardinality({x.url : x \in found}) >= 3 =>
                2 * Cardinality({u \in away : Cardinality({x.places : x \in {y \in found : y.url = u}}) = 1}) <= Cardinality({x.url : x \in found})

FindingIsReal(in, o) ==
    /\ o.rule = "ahead" => AheadIsReal(in, o)
    /\ o.rule = "title" => TitlesAreShared(in, o)
    /\ o.rule = "domain" => AbsenceIsLocal(in, o)
=============================================================================
