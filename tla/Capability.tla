------------------------------ MODULE Capability ------------------------------
(***************************************************************************)
(* Capability reports (report_v22/capability*.py, candidate_*.py): what an *)
(* input manifest may bind, the report built from findings and actions     *)
(* under each ruleset, how findings are labelled and candidates put in     *)
(* order, the contract that checks the report, and its deliveries.         *)
(*                                                                         *)
(* A ruleset is [kind, v]: public 1-13 or service 1-5.  What a report is   *)
(* built from is given = [result, titles, contact, own, totals, business]: *)
(* the result of the public rules (PublicActions), whose index says of its *)
(* evidence also the snapshot's kind, whether that was healthy and what    *)
(* state was observed, if one was; the pages whose title leaves the        *)
(* service out; what contact details were compared by; the findings of the *)
(* client's sources, and whether these have totals.  Texts count by the    *)
(* targets in them.                                                        *)
(***************************************************************************)
EXTENDS PublicActions, FiniteSetsExt

CONSTANTS
    ListLimit,          \* evidence of a finding, findings of an action, evidence of a material (20)
    ReportFindings,     \* findings of a report (50)
    ReportEvidence,     \* evidence of a report (500)
    RenderedLimit,      \* rendered evidence that a report adds (50)
    TextTargets         \* targets that fit in a text (2000 characters)

\* In the order in which select_evidence takes them.
SourceOrder == <<"competitor", "ga4", "gsc", "official_gbp", "public_gbp", "rendered", "serp", "site">>
PublicSources == {"site", "serp", "competitor", "public_gbp"}
OwnSources == {"gsc", "ga4", "official_gbp"}
SourceIndex(kind) == CHOOSE n \in DOMAIN SourceOrder : SourceOrder[n] = kind

Public(rules, versions) == rules.kind = "public" /\ rules.v \in versions
Labelled(rules) == Public(rules, 8..13) \/ rules = [kind |-> "service", v |-> 5]
IsIdentity(rules) == Public(rules, {13})
HasPool(rules) == Public(rules, 12..13)
HasLimits(rules) == Public(rules, 9..13)

Invalid == Failed("INPUT_OR_RESULT_INVALID")

-----------------------------------------------------------------------------
(* The manifest: [schema, mode, rules, sources, siteSchema, gbpSchema, bound, fresh,
   previous, implementation, identity, reassessment, base, asOf, now].              *)

IdentityIsBound(m) ==
    /\ (m.schema = 3) = IsIdentity(m.rules) /\ m.identity = (m.schema = 3)
    /\ m.schema = 3 => m.mode = "acquisition" /\ (m.reassessment \/ m.asOf = m.now)
    /\ m.reassessment => m.schema = 3 /\ m.base = "prospect" /\ m.asOf <= m.now
    /\ ~m.reassessment => m.base = "none"

RequiredSources(m) ==
    PublicSources \cup (IF m.mode = "acquisition" THEN {} ELSE {"gsc", "ga4"})
      \cup (IF m.schema = 2 \/ (m.schema = 3 /\ "rendered" \in m.sources) THEN {"rendered"} ELSE {})

SourcesAreBound(m) ==
    /\ IF m.schema \in 2..3 THEN m.mode = "acquisition" /\ Public(m.rules, 7..13)
       ELSE "rendered" \notin m.sources /\ ~Public(m.rules, {7})
    /\ RequiredSources(m) \subseteq m.sources
    /\ m.mode = "acquisition" => m.sources = RequiredSources(m)
    /\ m.siteSchema = 3 => Public(m.rules, 11..13)
    /\ m.siteSchema = 2 => Public(m.rules, 9..13)
    /\ m.fresh /\ m.bound = m.sources \cap OwnSources

HistoryIsBound(m) ==
    /\ m.previous = CASE m.mode \in {"acquisition", "first_service"} -> "none"
                      [] m.mode = "after_acquisition" -> "prospect"
                      [] m.mode = "review" -> "verified_execution"
    /\ m.implementation = (m.mode = "review")

\* AnalysisInputManifest.validate_binding
ValidManifest(m) == IdentityIsBound(m) /\ SourcesAreBound(m) /\ HistoryIsBound(m)

-----------------------------------------------------------------------------
(* Labels *)

Unchecked == {"not_returned", "unsupported", "request_failed", "not_checked", "failed"}
Undetected == {"returned_empty", "site_missing", "gbp_missing"}

\* rule_kinds: only the comparison with competitors' pages is no fact; whatever the
\* rules of the client's sources classify their findings as.
RuleKind(rule) == IF rule = "asset" THEN "inference" ELSE "fact"

FindingStatus(f) ==
    LET states == {e.state : e \in f.ev}
    IN  IF RuleKind(f.rule) # "fact" \/ f.rule = "assessment" THEN "not_assessed"
        ELSE IF states \cap Unchecked # {} THEN "not_checked"
        ELSE IF f.rule = "domain" \/ states \cap Undetected # {} THEN "not_detected"
        ELSE IF f.rule = "profile_missing" THEN "not_checked" ELSE "confirmed"

\* annotate_findings
Annotated(rules, findings) ==
    {IF Labelled(rules) /\ "kind" \notin DOMAIN f
     THEN [kind |-> RuleKind(f.rule), status |-> FindingStatus(f), checked |-> {e.kind : e \in {x \in f.ev : x.state \notin Unchecked}}] @@ f
     ELSE f : f \in findings}

\* select_evidence: one of each source in turn, until the limit.
SelectEvidence(ev, limit) ==
    LET rank(e) == Cardinality({x \in ev : x.kind = e.kind /\ x.id < e.id})
        Earlier(x, e) == rank(x) < rank(e) \/ (rank(x) = rank(e) /\ SourceIndex(x.kind) < SourceIndex(e.kind))
    IN  {e \in ev : Cardinality({x \in ev : Earlier(x, e)}) < limit}

-----------------------------------------------------------------------------
(* Priority *)

Ranked(option, options) == CHOOSE n \in DOMAIN options : options[n] = option
Objectives(objective) ==
    CASE objective = "service_visibility" -> {"title_brief", "service_brief"}
      [] objective = "contact_path" -> {"service_brief", "profile_correction"}
      [] objective = "business_identity" -> {"profile_correction"}
      [] OTHER -> {}
PublishingKinds == {"title_brief", "service_brief", "profile_correction"}

QualifiedTechnical(f) ==
    /\ f.rule \in {"http", "noindex"} /\ f.kind = "fact" /\ f.status = "confirmed" /\ f.conf >= 2
    /\ f.support = "supported" /\ f.ev # {}

MeasurementRules == {"measurement", "profile_missing", "conflict"}

Linked(a, findings) == {f \in findings : f.id \in a.findings}

Prerequisite(linked, version) ==
    IF \E f \in linked : f.rule \in {"http", "noindex"} /\ (version = 3 => QualifiedTechnical(f)) THEN "access_indexing"
    ELSE IF \E f \in linked : f.rule \in MeasurementRules THEN "measurement" ELSE "none"

BusinessMatch(a, linked, business, version) ==
    IF \E p \in business.pages : <<"url", p>> \in a.target THEN "confirmed_target"
    ELSE IF \/ a.kind \in Objectives(business.objective)
            \/ version >= 2 /\ business.objective = "contact_path" /\ \E f \in linked : f.rule = "engagement"
         THEN "confirmed_objective"
    ELSE IF business.pages # {} \/ Objectives(business.objective) # {} THEN "not_matched" ELSE "unknown"

Support(linked) ==
    IF \E f \in linked : f.support = "conflicting" THEN "conflicting"
    ELSE IF \E f \in linked : f.support = "needs_verification" \/ f.cls = 1 THEN "needs_verification" ELSE "supported"

Execution(a, business, version) ==
    IF \/ a.ready = "requires_confirmation"
       \/ version >= 2 /\ a.kind \in PublishingKinds /\ business.access = "needs_approval" THEN "confirmation_required"
    ELSE IF a.ready = "ready_to_use" THEN "ready_to_use" ELSE "instructions_only"

PriorityEntry(a, findings, business, version) ==
    LET linked == Linked(a, findings)
    IN  [id |-> a.id, target |-> a.target, findings |-> a.findings, deps |-> a.deps, technical |-> {f.id : f \in {g \in linked : version = 3 /\ QualifiedTechnical(g)}},
         visible |-> version = 3 => \E f \in linked : f.status = "confirmed" /\ f.conf >= 2,
         prerequisite |-> Prerequisite(linked, version),
         match |-> BusinessMatch(a, linked, business, version), support |-> Support(linked),
         execution |-> Execution(a, business, version), sev |-> Max({f.sev : f \in linked}), conf |-> Max({f.conf : f \in linked}),
         reserved |-> version >= 2 /\ business.capacity = "limited" /\ a.kind \in PublishingKinds]

PrerequisiteRank(e) == Ranked(e.prerequisite, <<"access_indexing", "measurement", "none">>)

\* Mutant: repairs of access and indexing have no precedence.
EntryKeyByBusiness(e) ==
    <<IF e.visible THEN 0 ELSE 1, CASE e.match = "confirmed_target" -> 0 [] e.match = "confirmed_objective" -> 1 [] OTHER -> 2, -e.sev, e.id>>

\* The keys of prioritize and of prioritize_candidates.
EntryKey(e) ==
    <<IF e.visible THEN 0 ELSE 1, PrerequisiteRank(e),
      CASE e.match = "confirmed_target" -> 0 [] e.match = "confirmed_objective" -> 1 [] OTHER -> 2,
      Ranked(e.support, <<"supported", "needs_verification", "conflicting">>), -e.sev, -e.conf,
      IF e.reserved THEN 1 ELSE 0, Ranked(e.execution, <<"ready_to_use", "instructions_only", "confirmation_required">>), e.id>>

\* The order that repeatedly takes the best candidate whose dependencies are in it.
PriorityOrder(entries) ==
    LET order[n \in 0..Cardinality(entries)] ==
            IF n = 0 THEN <<>>
            ELSE LET placed == {e.id : e \in ToSet(order[n - 1])}
                     available == {e \in entries : e.id \notin placed /\ e.deps \subseteq placed}
                 IN  IF available = {} THEN order[n - 1]
                     ELSE Append(order[n - 1], CHOOSE e \in available : \A d \in available \ {e} : KeyLess(EntryKey(e), EntryKey(d)))
    IN  order[Cardinality(entries)]

\* prioritize_candidates: of the visible candidates, the first three whose dependencies are chosen.
ChooseVisible(order) ==
    FoldLeft(LAMBDA chosen, e : IF e.visible /\ Len(chosen) < 3 /\ e.deps \subseteq {c.id : c \in ToSet(chosen)}
                                THEN Append(chosen, e) ELSE chosen, <<>>, order)

PriorityVersion(rules) == IF HasPool(rules) THEN 3 ELSE IF rules.v >= 3 THEN 2 ELSE 1

\* prioritize: the trace, or the error for candidates that cannot be put in order.
Prioritize(actions, findings, business, version) ==
    LET Traced(entries, order) ==
            IF Len(order) # Cardinality(entries) THEN Failed("cyclic priority dependencies")
            ELSE [version |-> version, candidates |-> entries, order |-> order,
                  chosen |-> IF version = 3 THEN ChooseVisible(order) ELSE TakeThree(order)]
        Placed(entries) == Traced(entries, PriorityOrder(entries))
    IN  Placed({PriorityEntry(a, findings, business, version) : a \in actions})

-----------------------------------------------------------------------------
(* The reports *)

SchemaVersion(m) ==
    CASE Public(m.rules, {13}) -> 8 [] Public(m.rules, {12}) -> 7 [] Public(m.rules, {11}) -> 6
      [] Labelled(m.rules) /\ ~Public(m.rules, 11..13) -> 5
      [] OTHER -> IF m.schema \in 2..3 THEN 4 ELSE 2

\* The first n of a set, by their ids.
FirstOf(set, n) == {x \in set : Cardinality({y \in set : y.id < x.id}) < n}

\* _target: what the finding is about, else the home page (0).
TargetOf(f) ==
    IF f.urls # {} THEN {"url"} \X f.urls ELSE IF f.queries # {} THEN {"query"} \X f.queries
    ELSE IF f.rule = "asset" THEN {<<"page type", f.ptype>>} ELSE {<<"url", 0>>}

ListedEvidence(result, f, rules) ==
    IF HasLimits(rules) THEN SelectEvidence(Referenced(result, f), ListLimit) ELSE Referenced(result, f)

ReportFinding(result, f, rules) ==
    [id |-> f.id, rule |-> f.rule, cls |-> f.cls, sev |-> f.sev, conf |-> f.conf, target |-> TargetOf(f),
     support |-> IF f.rule \in {"asset", "name"} THEN "needs_verification" ELSE "supported", ev |-> ListedEvidence(result, f, rules)]

\* A sample without a finding is an assessment of the site, not a clean bill.
HealthySample(result) == FirstOf({x \in result.index : x.source = "site" /\ x.healthy}, 3)
Assessment(sample) ==
    [id |-> 0, rule |-> "assessment", cls |-> 3, sev |-> 1, conf |-> 1, target |-> {<<"url", 0>>}, support |-> "needs_verification", ev |-> sample]

\* _MATERIAL
Material(template) ==
    CASE template = 10 -> [title |-> "response and indexing", kind |-> "technical_check", ready |-> "instructions"]
      [] template = 20 -> [title |-> "page titles", kind |-> "title_brief", ready |-> "requires_confirmation"]
      [] template = 30 -> [title |-> "search recheck", kind |-> "technical_check", ready |-> "instructions"]
      [] template = 40 -> [title |-> "service page decision", kind |-> "service_brief", ready |-> "requires_confirmation"]
      [] template = 50 -> [title |-> "public details", kind |-> "profile_correction", ready |-> "requires_confirmation"]

\* The order of the digests is arbitrary: by template and page type here.
ActionId(id) == 10 * id[1] + Max({0} \cup {p[2] : p \in {q \in id[2] : q[1] = "page_type"}})

\* The material of an action lists the evidence of its first finding.
PublicAction(c, findings) ==
    LET linked == {f \in findings : f.id \in c.findings}
        first == CHOOSE f \in linked : \A g \in linked : f.id <= g.id
    IN  Material(c.template) @@ [id |-> ActionId(c.id), target |-> UNION {f.target : f \in linked}, findings |-> c.findings,
                                 deps |-> {ActionId(d) : d \in c.deps}, ev |-> {e.id : e \in first.ev}]

\* extend_report: up to three pages whose title leaves the service out, of the pages that
\* were confirmed, or the one page that is named like the service.
TitleFinding(p) ==
    [id |-> 1000 + p.page, rule |-> "title_review", cls |-> 3, sev |-> 1, conf |-> 2, target |-> {<<"url", p.page>>},
     support |-> "needs_verification", ev |-> p.ev]
TitleAction(p) ==
    [title |-> "title review", kind |-> "title_brief", ready |-> "requires_confirmation", id |-> 1000 + p.page,
     target |-> {<<"url", p.page>>}, findings |-> {1000 + p.page}, deps |-> {}, ev |-> {e.id : e \in p.ev}]
ExtendTitles(raw, titles, pages) ==
    LET candidates == {p \in titles : IF pages = {} THEN p.named ELSE p.page \in pages}
        existing == UNION {a.target : a \in {b \in raw.actions : b.kind = "title_brief"}}
        open == {p \in candidates : <<"url", p.page>> \notin existing}
        room == Min({3, ReportFindings - Cardinality(raw.findings)})
        added == {p \in open : Cardinality({q \in open : q.page < p.page}) < room}
    IN  IF added = {} \/ (pages = {} /\ Cardinality(candidates) > 1) THEN raw
        ELSE [raw EXCEPT !.findings = {f \in @ : f.rule # "assessment"} \cup {TitleFinding(p) : p \in added},
                         !.actions = @ \cup {TitleAction(p) : p \in added}, !.evidence = @ \cup UNION {p.ev : p \in added}]

\* The report of a plan before it is put in order.
Draft(m, given, plan, findings) ==
    LET rules == m.rules
        rendered == IF Public(rules, {7}) \/ (Labelled(rules) /\ m.schema \in 2..3)
                    THEN FirstOf({x \in given.result.index : x.kind = "rendered"}, RenderedLimit) ELSE {}
        compared == IF Public(rules, 8..13) THEN given.contact ELSE {}
    IN  [manifest |-> m, schema |-> SchemaVersion(m), findings |-> findings, pool |-> <<>>, trace |-> <<>>,
         evidence |-> UNION {f.ev : f \in findings} \cup rendered \cup compared,
         actions |-> {PublicAction(c, findings) : c \in ToSet(plan.actions)}, compared |-> compared,
         type |-> IF m.mode = "acquisition" THEN "prospect" ELSE "verified_execution",
         version |-> IF m.base # "none" \/ m.previous # "none" THEN 2 ELSE 1, free |-> m.reassessment,
         checks |-> IF Public(rules, 8..13)
                    THEN {"phone", "address", "business_name", "service_area"} \cup (IF Public(rules, 11..13) THEN {"opening_hours"} ELSE {})
                    ELSE {}]

\* _public_report_content
PublicContent(m, given) ==
    LET rules == m.rules
        Titled(raw) == IF Public(rules, 5..13) THEN ExtendTitles(raw, given.titles, given.business.pages) ELSE raw
        Content(plan, found, sample) ==
            IF ~Succeeded(plan) \/ (found = {} /\ sample = {}) THEN Invalid
            ELSE [Titled(Draft(m, given, plan, IF found = {} THEN {Assessment(sample)} ELSE found)) EXCEPT !.findings = Annotated(rules, @)]
    IN  Content(SelectSkeletons(given.result, rules.v >= 2, HasLimits(rules)),
                {ReportFinding(given.result, f, rules) : f \in given.result.findings}, HealthySample(given.result))

\* _select_actions of the first service ruleset: repairs, measurement, the rest; nothing
\* is dropped to make room for what depends on it.
LegacyKey(a, linked) ==
    <<IF a.title = "response and indexing" THEN 0 ELSE IF a.kind = "measurement_check" THEN 1 ELSE 2,
      -Max({f.sev : f \in linked}), -Max({f.conf : f \in linked}), a.id>>
LegacySelection(actions, findings) ==
    LET key(a) == LegacyKey(a, Linked(a, findings))
        chosen[n \in 0..3] ==
            IF n = 0 THEN <<>>
            ELSE LET prior == ToSet(chosen[n - 1])
                     available == {a \in actions \ prior : a.deps \subseteq {p.id : p \in prior}}
                 IN  IF available = {} THEN chosen[n - 1]
                     ELSE Append(chosen[n - 1], CHOOSE a \in available : \A b \in available \ {a} : KeyLess(key(a), key(b)))
    IN  chosen[3]

\* The actions that these name, in their order.
InOrder(actions, ids) == [n \in DOMAIN ids |-> CHOOSE a \in actions : a.id = ids[n]]
Ids(actions) == [n \in DOMAIN actions |-> actions[n].id]

\* apply_priority
WithOrder(raw, business) ==
    LET rules == raw.manifest.rules
        Ordered(trace) ==
            IF ~Succeeded(trace) THEN Invalid
            ELSE [raw EXCEPT !.actions = InOrder(@, Ids(trace.chosen)), !.trace = <<trace>>,
                             !.pool = IF HasPool(rules) THEN InOrder(raw.actions, Ids(trace.order)) ELSE <<>>]
    IN  Ordered(Prioritize(raw.actions, raw.findings, business, PriorityVersion(rules)))

\* The first public ruleset keeps the order of the plan.
InPlanOrder(raw, plan) == [raw EXCEPT !.actions = InOrder(@, [n \in DOMAIN plan.actions |-> ActionId(plan.actions[n].id)])]

-----------------------------------------------------------------------------
(* The contract, CapabilityReport.validate_references *)

VersionsAgree(r) ==
    LET rules == r.manifest.rules
    IN  /\ (r.schema \in 7..8) = HasPool(rules) /\ (r.schema = 8) = IsIdentity(rules) /\ (r.schema = 6) = Public(rules, {11})
        /\ (r.schema \in 5..8) = Labelled(rules)
        /\ \A f \in r.findings : ("status" \in DOMAIN f) = (r.schema \in 5..8)
        /\ r.schema \in {2, 4} => (r.schema = 4) = (r.manifest.schema = 2)
        /\ r.type = IF r.manifest.mode = "acquisition" THEN "prospect" ELSE "verified_execution"
        /\ r.version = IF r.manifest.base = "none" /\ r.manifest.previous = "none" THEN 1 ELSE 2
        /\ r.free = r.manifest.reassessment
        /\ (r.checks # {}) = Public(rules, 8..13) /\ ("opening_hours" \in r.checks => Public(rules, 11..13))
        /\ (r.trace = <<>>) = (rules.v = 1)

Delivered(r) == ToSet(r.actions) \cup ToSet(r.pool)
TraceEntries(r) == IF r.trace = <<>> THEN {} ELSE r.trace[1].candidates

\* What the models let a report list.
WithinLimits(r) ==
    /\ Cardinality(r.findings) \in 1..ReportFindings /\ Cardinality(r.evidence) \in 1..ReportEvidence
    /\ Len(r.actions) <= 3 /\ Cardinality(r.compared) <= ReportEvidence
    /\ \A f \in r.findings : Cardinality(f.ev) \in 1..ListLimit /\ Cardinality(f.target) <= TextTargets
    /\ \A a \in Delivered(r) \cup TraceEntries(r) : Cardinality(a.findings) \in 1..ListLimit /\ Cardinality(a.deps) <= 2 /\ Cardinality(a.target) <= TextTargets
    /\ \A a \in Delivered(r) : Cardinality(a.ev) \in 1..ListLimit

ReferencesHold(r) ==
    LET listed == IF HasPool(r.manifest.rules) THEN r.pool ELSE r.actions
        ids == {f.id : f \in r.findings}
        Precede(actions) == \A n \in DOMAIN actions : actions[n].deps \subseteq {actions[k].id : k \in 1..(n - 1)}
    IN  /\ Cardinality(ids) = Cardinality(r.findings) /\ Cardinality({e.id : e \in r.evidence}) = Cardinality(r.evidence)
        /\ UNION {f.ev : f \in r.findings} \cup r.compared \subseteq r.evidence
        /\ Precede(listed) /\ Precede(r.actions)
        /\ \A a \in ToSet(listed) :
              a.findings \subseteq ids /\ a.ev \subseteq {e.id : e \in UNION {f.ev : f \in Linked(a, r.findings)}}
        /\ HasPool(r.manifest.rules) => ToSet(r.actions) \subseteq ToSet(r.pool)

Validated(r) == IF Succeeded(r) /\ VersionsAgree(r) /\ WithinLimits(r) /\ ReferencesHold(r) THEN r ELSE Invalid

\* build_public_capability_report
BuildPublic(m, given) ==
    LET Built(raw) ==
            IF ~Succeeded(raw) THEN Invalid
            ELSE Validated(IF m.rules.v = 1 THEN InPlanOrder(raw, SelectSkeletons(given.result, FALSE, FALSE)) ELSE WithOrder(raw, given.business))
    IN  IF m.mode # "acquisition" \/ m.rules.kind # "public" THEN Invalid ELSE Built(PublicContent(m, given))

-----------------------------------------------------------------------------
(* The client's own sources.  A finding is [id, rule, cls, sev, conf, place, target, ev]. *)

\* interpretation
OwnSupport(f) ==
    IF f.rule = "conflict" THEN "conflicting"
    ELSE IF f.rule \in MeasurementRules \cup {"engagement"} \/ f.place = "unset" THEN "needs_verification" ELSE "supported"
OwnFinding(f) ==
    [id |-> f.id, rule |-> f.rule, cls |-> f.cls, sev |-> f.sev, conf |-> f.conf, target |-> f.target, support |-> OwnSupport(f), ev |-> f.ev]

\* action_content, and build_service_capability_report for pages that are none of the site.
OwnWork(f) ==
    LET Work(title, kind, ready) ==
            {[id |-> 100 + f.id, title |-> title, kind |-> kind, ready |-> ready, target |-> f.target, findings |-> {f.id}, deps |-> {}, ev |-> {e.id : e \in f.ev}]}
    IN  CASE f.rule \in MeasurementRules -> Work("measurement basis", "measurement_check", "requires_confirmation")
          [] f.rule \notin MeasurementRules /\ f.place \in {"unset", "foreign"} -> {}
          [] f.rule = "page_opportunity" /\ f.place = "site" -> Work("existing page", "service_brief", "requires_confirmation")
          [] f.rule = "query_opportunity" /\ f.place = "site" -> Work("query to page", "technical_check", "instructions")
          [] f.rule = "engagement" /\ f.place = "site" -> Work("contact journey", "measurement_check", "requires_confirmation")
          [] OTHER -> {}

\* _merge_service_work: one package for the same target, kind and title.
SameWork(a, b) == a.kind = b.kind /\ a.target = b.target /\ a.title = b.title
MergeWork(service) ==
    {LET group == {b \in service : SameWork(a, b)}
     IN  [a EXCEPT !.id = Min({b.id : b \in group}), !.findings = UNION {b.findings : b \in group}, !.ev = UNION {b.ev : b \in group}] : a \in service}

\* _retained_source_checks: the totals of a source are listed even if nothing follows from them.
SourceCheck(source) ==
    LET id == 2000 + 10 * SourceIndex(source)
    IN  [id |-> id, rule |-> "source_check", cls |-> 3, sev |-> 1, conf |-> 3, target |-> {<<"resource", id>>}, support |-> "supported",
         ev |-> {[id |-> id + n, kind |-> source, state |-> ""] : n \in 1..2}]

\* build_service_capability_report
BuildService(m, given) ==
    LET own == {OwnFinding(f) : f \in given.own} \cup {SourceCheck(s) : s \in m.bound \cap {"gsc", "ga4"}}
        Joined(raw) ==
            [raw EXCEPT !.findings = @ \cup Annotated(m.rules, own), !.actions = @ \cup MergeWork(UNION {OwnWork(f) : f \in given.own}),
                        !.evidence = @ \cup UNION {f.ev : f \in own}]
        Selected(whole) ==
            IF Cardinality({e.id : e \in whole.evidence}) # Cardinality(whole.evidence) THEN Invalid
            ELSE IF m.rules.v = 1 THEN [whole EXCEPT !.actions = LegacySelection(@, whole.findings)] ELSE WithOrder(whole, given.business)
        Built(raw) == IF Succeeded(raw) THEN Validated(Selected(Joined(raw))) ELSE Invalid
    IN  IF m.mode \notin {"first_service", "after_acquisition"} \/ m.rules.kind # "service" \/ ~given.totals THEN Invalid
        ELSE Built(PublicContent(m, given))

-----------------------------------------------------------------------------
(* Deliveries: [v, ids, client, confirmed] *)

\* valid_dependencies
DependenciesFirst(ids, actions) ==
    \A n \in DOMAIN ids : \E a \in actions : a.id = ids[n] /\ a.deps \subseteq {ids[k] : k \in 1..(n - 1)}

\* omission_confirmation: the repairs that the client is not shown.
OmittedRepairs(r, client) ==
    LET technical == {e.id : e \in {x \in r.trace[1].candidates : x.technical # {}}}
    IN  IF technical \cap ToSet(client) = {} THEN technical ELSE {}

\* valid_delivery_order of the second priority version: repairs, then measurement, then the rest.
LayersAreKept(ids, trace) ==
    LET layer(n) == PrerequisiteRank(CHOOSE e \in trace.candidates : e.id = ids[n])
    IN  \A n \in 1..(Len(ids) - 1) : layer(n) <= layer(n + 1)

\* DeliveryRevision.validate_report
ValidDelivery(r, d) ==
    LET rules == r.manifest.rules
        visible == SelectSeq(d.ids, LAMBDA id : id \in ToSet(d.client))
    IN  /\ (d.v = 3) = (r.schema \in 7..8) /\ (d.v = 2 => r.schema \in 5..6)
        /\ Len(d.ids) = Len(r.actions) /\ Cardinality(ToSet(d.ids)) = Len(d.ids)
        /\ d.v # 3 => ToSet(d.ids) = {a.id : a \in ToSet(r.actions)}
        /\ d.v = 3 => /\ DependenciesFirst(d.ids, ToSet(r.pool)) /\ DependenciesFirst(visible, ToSet(r.pool))
                      /\ d.client = visible /\ d.confirmed = OmittedRepairs(r, visible)
        /\ r.trace # <<>> /\ PriorityVersion(rules) = 2 => LayersAreKept(d.ids, r.trace[1]) /\ DependenciesFirst(d.ids, ToSet(r.actions))

-----------------------------------------------------------------------------
(* What is promised *)

\* The report as the system selected it can be delivered, and no repair has to be omitted for it.
SelectionIsDeliverable(r) ==
    LET ids == Ids(r.actions)
        version == CASE r.schema \in 7..8 -> 3 [] r.schema \in 5..6 -> 2 [] OTHER -> 1
    IN  ValidDelivery(r, [v |-> version, ids |-> ids, client |-> ids, confirmed |-> {}])

\* What is shown by default rests on a fact that was observed: not on an inference, a
\* collection that failed or a value that was not there.
SelectionRestsOnFacts(r) ==
    HasPool(r.manifest.rules) => \A a \in ToSet(r.actions) :
        \E f \in Linked(a, r.findings) : f.rule \notin {"asset", "assessment", "domain"} /\ f.conf > 1
                                           /\ {e.state : e \in f.ev} \cap (Unchecked \cup Undetected) = {}

\* Work on the same target is one package, and keeps every finding and its evidence.
WorkIsMerged(own) ==
    LET work == UNION {OwnWork(f) : f \in own}
        merged == MergeWork(work)
    IN  /\ UNION {a.findings : a \in merged} = UNION {a.findings : a \in work}
        /\ \A a \in merged : a.ev = {e.id : e \in UNION {f.ev : f \in {g \in own : g.id \in a.findings}}}
        /\ \A a, b \in merged : SameWork(a, b) => a = b

\* Every source of a finding is represented while the limit allows it.
SourcesAreRepresented(ev, limit) ==
    LET selected == SelectEvidence(ev, limit)
    IN  /\ Cardinality(selected) = Min({Cardinality(ev), limit})
        /\ Cardinality({e.kind : e \in ev}) <= limit => {e.kind : e \in selected} = {e.kind : e \in ev}

\* What a report lists beside the actions, however it comes to list it.
ListsTooMuch(m, given) ==
    LET result == given.result
        service == m.rules.kind = "service"
        own == IF service THEN given.own ELSE {}
        found == Cardinality(result.findings) + Cardinality(own) + (IF service THEN Cardinality(m.bound \cap {"gsc", "ga4"}) ELSE 0)
        evidence == UNION ({ListedEvidence(result, f, m.rules) : f \in result.findings} \cup {f.ev : f \in own} \cup {p.ev : p \in given.titles})
                      \cup FirstOf({x \in result.index : x.kind = "rendered"}, RenderedLimit) \cup given.contact
    IN  \/ found + (IF result.findings = {} THEN 1 ELSE 0) > ReportFindings
        \/ Cardinality(evidence) + (IF service THEN 2 * Cardinality(m.bound) ELSE 0) + (IF result.findings = {} THEN 3 ELSE 0) > ReportEvidence
        \/ \E f \in result.findings : Cardinality(TargetOf(f)) > TextTargets \/ (~HasLimits(m.rules) /\ Cardinality(Referenced(result, f)) > ListLimit)

\* What one action would join: the findings of a template, the work on one target.
JoinsTooMuch(m, given) ==
    LET result == given.result
        entries(g) == GroupEntries(result, g)
        service == m.rules.kind = "service"
    IN  \/ \E g \in PlanGroups(result) : Cardinality(entries(g)) > ListLimit \/ Cardinality(UNION {TargetOf(f) : f \in entries(g)}) > TextTargets
        \/ Cardinality(PlanGroups(result)) > 3 /\ m.rules.v > 1 /\ ~HasLimits(m.rules)
        \/ \E f \in given.own : LET same == {g \in given.own : g.target = f.target} IN service /\ Cardinality(UNION {g.ev : g \in same}) > ListLimit

\* A report is refused only if it would have nothing to show, list or join too much, or if its
\* sources disagree or lack totals; what is built can be delivered as it is and rests on facts.
CapabilityAccepted(m, given, r) ==
    LET evidence == given.result.index \cup UNION {f.ev : f \in given.own}
    IN  /\ Succeeded(r) => SelectionIsDeliverable(r) /\ SelectionRestsOnFacts(r)
        /\ Succeeded(r) \/ ListsTooMuch(m, given) \/ JoinsTooMuch(m, given)
              \/ (given.result.findings = {} /\ HealthySample(given.result) = {})
              \/ ~given.totals \/ Cardinality({e.id : e \in evidence}) < Cardinality(evidence)
=============================================================================
