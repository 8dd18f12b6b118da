---------------------------- MODULE PublicActions ----------------------------
(***************************************************************************)
(* The public action plan (report_v22/actions.py): findings are grouped    *)
(* into candidate actions, the best three are selected and put in an order *)
(* that respects their dependencies.                                       *)
(*                                                                         *)
(* A finding is [id, rule, version, sev, conf, cls, urls, queries, ptype,  *)
(* ev, cmp]; the evaluation that it comes from is [finding, state, rule,   *)
(* version, urls, queries, ptype, ev, cmp], with finding 0 when it gave    *)
(* none.  ev and cmp are ids of evidence and of comparators; index holds   *)
(* the evidence itself, [id, source, urls, queries].  A candidate's        *)
(* identity (action_id, candidate_key) is a digest of its template and     *)
(* targets: a pair here.                                                   *)
(***************************************************************************)
EXTENDS Integers, Sequences, FiniteSets, SequencesExt

CONSTANTS
    SiteHost,       \* the host of the client's site
    ForeignUrls,    \* urls on another host (subdomains, redirects)
    MaxPlanFindings,    \* PublicActionLimits.max_findings
    MaxPlanCandidates,  \* PublicActionLimits.max_candidates, max_audit_entries
    MaxActionFindings,  \* PublicActionLimits.max_findings_per_action
    MaxActionTargets    \* PublicActionLimits.max_targets_per_action

Failed(code) == [error |-> code]
Succeeded(result) == "error" \notin DOMAIN result

\* RULE_ACTIONS: the template of a rule, by the order of the templates.
TemplateOf(rule) ==
    CASE rule \in {"http", "noindex"} -> 10      \* restore_site_access_indexing
      [] rule = "title" -> 20                    \* differentiate_page_titles
      [] rule \in {"domain", "ahead"} -> 30      \* review_market_visibility
      [] rule = "asset" -> 40                    \* close_page_type_gap
      [] rule \in {"name", "hours"} -> 50        \* align_public_gbp

\* RULE_ACTIONS, by version; the rules of the profile's name have had several.
Supports(f) ==
    /\ f.rule \in {"http", "noindex", "title", "domain", "ahead", "asset", "name", "hours"}
    /\ f.version \in IF f.rule = "name" THEN 1..4 ELSE {1}

\* allowed_source_types
AllowedSources(template) ==
    CASE template \in {10, 20} -> {"site"} [] template = 30 -> {"serp"}
      [] template = 40 -> {"site", "competitor"} [] template = 50 -> {"site", "gbp", "coverage"}

Referenced(result, f) == {x \in result.index : x.id \in f.ev \cup f.cmp}

\* A finding is what its evaluation says, about what its evidence was found at.
FitsItsEvaluation(result, f) ==
    LET located == Referenced(result, f)
    IN  /\ \A e \in result.evaluations : e.finding = f.id =>
              /\ e.state = "triggered" /\ e.rule = f.rule /\ e.version = f.version /\ e.ev = f.ev /\ e.cmp = f.cmp
              /\ e.urls = f.urls /\ e.queries = f.queries
        /\ f.ev \cup f.cmp \subseteq {x.id : x \in located}
        /\ f.urls \subseteq UNION {x.urls : x \in located} /\ f.queries \subseteq UNION {x.queries : x \in located}

\* _validated_references; of several faulty findings the first is reported.
ReferenceError(result) ==
    LET findings == result.findings
        ids == {f.id : f \in findings}
        bound == {e \in result.evaluations : e.finding # 0}
        faulty == {f \in findings : ~FitsItsEvaluation(result, f) \/ ~Supports(f)}
        first == CHOOSE f \in faulty : \A g \in faulty : f.id <= g.id
    IN  IF Cardinality(findings) > MaxPlanFindings THEN "LIMIT_EXCEEDED"
        ELSE IF Cardinality(ids) # Cardinality(findings) THEN "ID_CONFLICT"
        ELSE IF \/ result.rollup # ids
                \/ Cardinality({x.id : x \in result.index}) # Cardinality(result.index) \/ {x.id : x \in result.index} # result.traces
                \/ \E e \in result.evaluations : e.state = "triggered" /\ e.finding = 0
                \/ Cardinality({e.finding : e \in bound}) # Cardinality(bound) \/ {e.finding : e \in bound} # ids
             THEN "REFERENCE_INVALID"
        ELSE IF faulty = {} THEN "none"
        ELSE IF FitsItsEvaluation(result, first) THEN "UNSUPPORTED_FINDING" ELSE "REFERENCE_INVALID"

\* _group_key: one candidate per template, or per page type.
GroupKey(f) == <<TemplateOf(f.rule), IF f.rule = "asset" THEN f.ptype ELSE 0>>

\* _build_targets: what the findings point at, and the findings that do.
Targets(entries) ==
    LET pairs == UNION {({"url"} \X f.urls) \cup ({"query"} \X f.queries)
                        \cup (IF f.rule = "asset" THEN {<<"page_type", f.ptype>>} ELSE {})
                        \cup (IF f.rule \in {"name", "hours"} THEN {<<"gbp_field", f.rule>>} ELSE {})
                        \cup (IF f.rule \in {"domain", "ahead"} THEN {<<"site", SiteHost>>} ELSE {}) : f \in entries}
        Points(f, p) ==
            \/ p[1] = "url" /\ p[2] \in f.urls
            \/ p[1] = "query" /\ p[2] \in f.queries
            \/ p[1] = "page_type" /\ f.rule = "asset"
            \/ p[1] = "gbp_field" /\ f.rule = p[2]
            \/ p[1] = "site"
    IN  {[kind |-> p[1], value |-> p[2], findings |-> {f.id : f \in {g \in entries : Points(g, p)}}] : p \in pairs}

Impact(n) == IF n < 5 THEN n ELSE 5

\* Lexicographic comparison of sort keys.
KeyLess(a, b) ==
    \E n \in DOMAIN a : n \in DOMAIN b /\ a[n] < b[n] /\ \A k \in 1..(n - 1) : a[k] = b[k]

\* _finding_rank
FindingRank(f) ==
    <<-f.sev, -f.conf, -f.cls, -(Impact(Cardinality(f.urls)) + Impact(Cardinality(f.queries)) + 1), f.id>>

\* _candidate_priority: the anchor's ranks, and the scope of the whole group.
Candidate(group, entries) ==
    LET anchor == CHOOSE f \in entries : \A g \in entries \ {f} : KeyLess(FindingRank(f), FindingRank(g))
        urls == UNION {f.urls : f \in entries}
        queries == UNION {f.queries : f \in entries}
        impact == Impact(Cardinality(urls)) + Impact(Cardinality(queries)) + Impact(Cardinality(entries))
        targets == Targets(entries)
    IN  [template |-> group[1], findings |-> {f.id : f \in entries}, targets |-> targets, anchor |-> anchor.id,
         id |-> <<group[1], {<<t.kind, t.value>> : t \in targets}>>,
         priority |-> <<anchor.sev, anchor.conf, anchor.cls, impact>>,
         \* _candidate_sort_key; targets decide between page types only, the order between the others
         sort |-> <<-anchor.sev, -anchor.conf, -anchor.cls, -impact, group[1], group[2]>>,
         deps |-> {}]

SortsBefore(a, b) == KeyLess(a.sort, b.sort)

\* _build_candidates, in the order of their sort keys.
PlanGroups(result) == {GroupKey(f) : f \in result.findings}
GroupEntries(result, g) == {f \in result.findings : GroupKey(f) = g}
BuildCandidates(result) == SetToSortSeq({Candidate(g, GroupEntries(result, g)) : g \in PlanGroups(result)}, SortsBefore)

\* What a group of findings is refused for.
GroupError(result, g) ==
    LET entries == GroupEntries(result, g)
        targets == Targets(entries)
        sources == {x.source : x \in UNION {Referenced(result, f) : f \in entries}}
    IN  IF Cardinality(entries) > MaxActionFindings THEN "LIMIT_EXCEEDED"
        ELSE IF targets = {} \/ g = <<40, 0>> THEN "REFERENCE_INVALID"
        ELSE IF Cardinality(targets) > MaxActionTargets THEN "LIMIT_EXCEEDED"
        ELSE IF sources = {} \/ ~(sources \subseteq AllowedSources(g[1])) THEN "REFERENCE_INVALID"
        ELSE "none"

\* What _build_candidates refuses; of several faulty groups any is reported.
CandidateError(result, candidates) ==
    LET errors == {GroupError(result, g) : g \in PlanGroups(result)} \ {"none"}
    IN  IF Len(candidates) > MaxPlanCandidates THEN "LIMIT_EXCEEDED"
        ELSE IF errors # {} THEN CHOOSE e \in errors : TRUE
        ELSE IF Cardinality({c.id : c \in Range(candidates)}) # Len(candidates) THEN "ID_CONFLICT"
        ELSE "none"

UrlsOf(c) == {t.value : t \in {u \in c.targets : u.kind = "url"}}
HostOf(url) == IF url \in ForeignUrls THEN "foreign" ELSE SiteHost

\* _add_dependencies: pages must be reachable before their titles or the site's
\* visibility are worked on.
WithDependencies(selected) ==
    LET recovery == {n \in DOMAIN selected : selected[n].template = 10}
        r == selected[Min(recovery)]
        Needs(c) == \/ c.template = 20 /\ UrlsOf(r) \cap UrlsOf(c) # {}
                    \/ c.template = 30 /\ \E u \in UrlsOf(r) : HostOf(u) = SiteHost
    IN  IF recovery = {} THEN selected
        ELSE [n \in DOMAIN selected |->
                IF Needs(selected[n]) THEN [selected[n] EXCEPT !.deps = {r.id}] ELSE selected[n]]

\* _topological_order: again and again the first candidate that waits for nothing.
TopologicalOrder(selected) ==
    LET ordered[n \in 0..Len(selected)] ==
            IF n = 0 THEN <<>>
            ELSE LET done == {c.id : c \in Range(ordered[n - 1])}
                     available == {c \in Range(selected) : c.id \notin done /\ c.deps \subseteq done}
                 IN  IF available = {} THEN ordered[n - 1]
                     ELSE Append(ordered[n - 1],
                            CHOOSE c \in available : \A d \in available \ {c} : SortsBefore(c, d))
    IN  ordered[Len(selected)]

TakeThree(candidates) == SubSeq(candidates, 1, IF Len(candidates) < 3 THEN Len(candidates) ELSE 3)

\* build_public_action_plan
BuildPlan(result) ==
    LET error == ReferenceError(result)
        candidates == BuildCandidates(result)
        selected == WithDependencies(TakeThree(candidates))
        actions == TopologicalOrder(selected)
        chosen == {c.id : c \in Range(selected)}
    IN  IF error # "none" THEN Failed(error)
        ELSE IF CandidateError(result, candidates) # "none" THEN Failed(CandidateError(result, candidates))
        ELSE IF Len(candidates) < 3 THEN Failed("INSUFFICIENT_ACTIONABLE_FINDINGS")
        ELSE IF Len(actions) < Len(selected) THEN Failed("DEPENDENCY_INVALID")
        ELSE [actions |-> actions,
              audit |-> {[id |-> c.id, anchor |-> c.anchor, findings |-> c.findings, priority |-> c.priority,
                          selected |-> c.id \in chosen] : c \in Range(candidates)},
              unselected |-> {f.id : f \in result.findings} \ UNION {c.findings : c \in Range(selected)}]

\* select_public_action_skeletons: without padding to three, or with every candidate
\* in order.  A skeleton's sequence is at most 3; only a candidate's goes on.
SelectSkeletons(result, all, candidateOnly) ==
    LET error == ReferenceError(result)
        candidates == BuildCandidates(result)
        selected == WithDependencies(IF all THEN candidates ELSE TakeThree(candidates))
        actions == TopologicalOrder(selected)
    IN  IF error # "none" THEN Failed(error)
        ELSE IF CandidateError(result, candidates) # "none" THEN Failed(CandidateError(result, candidates))
        ELSE IF Len(actions) < Len(selected) THEN Failed("DEPENDENCY_INVALID")
        ELSE IF Len(actions) > 3 /\ ~candidateOnly THEN Failed("REFERENCE_INVALID")
        ELSE [actions |-> actions]

-----------------------------------------------------------------------------
(* What the plan promises *)

\* Dependencies come first, and nothing else is out of the order of priority: an
\* action that is put behind a weaker one waits for that one, or for one behind it.
OrderedForReason(actions) ==
    \A m, n \in DOMAIN actions : m < n =>
        /\ actions[n].id \notin actions[m].deps
        /\ SortsBefore(actions[n], actions[m]) =>
            \E k \in m..(n - 1) : actions[k].id \in actions[n].deps

\* PublicActionPlan.validate_plan
PlanAccepted(plan) ==
    LET ids == [n \in DOMAIN plan.actions |-> plan.actions[n].id]
    IN  /\ Len(plan.actions) = 3 /\ IsInjective(ids)
        /\ \A n \in 1..3 : plan.actions[n].deps \subseteq {ids[m] : m \in 1..(n - 1)}
        /\ {a.id : a \in {b \in plan.audit : b.selected}} = Range(ids)
        /\ \A a, b \in plan.audit : a # b => a.id # b.id
        /\ \A a \in plan.audit : a.anchor \in a.findings
        /\ \A c \in Range(plan.actions), a \in plan.audit : a.id = c.id => a.findings = c.findings
        /\ plan.unselected = UNION {a.findings : a \in {b \in plan.audit : ~b.selected}}
        /\ plan.unselected \cap UNION {c.findings : c \in Range(plan.actions)} = {}
        \* ActionSkeleton.validate_action
        /\ \A c \in Range(plan.actions) : \A t \in c.targets : t.findings # {} /\ t.findings \subseteq c.findings
=============================================================================
