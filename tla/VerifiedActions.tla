--------------------------- MODULE VerifiedActions ---------------------------
(***************************************************************************)
(* Reprioritisation of the public actions by verified evidence             *)
(* (report_v22/verified_reprioritization.py and its mapping).  Findings of *)
(* the client's own Google sources support a public candidate or make it   *)
(* less urgent; conflicts between sources become candidates themselves;    *)
(* and a source that cannot be relied on puts a repair in front.           *)
(*                                                                         *)
(* An evaluation is [id, rule, kind, target, dir, src, issue, ev]: id 0    *)
(* when it gave no finding; kind and target of what it is about; direction *)
(* that its evidence proves; its source, or its pair of sources; and the   *)
(* evidence it cites.                                                      *)
(***************************************************************************)
EXTENDS PublicActions

NoCandidate == <<0, {}>>

\* _first_relation_kind.  "unsupported" stands for the KeyError.
FirstRelationKind(e) ==
    CASE e.rule = "opportunity" -> "supports"
      [] e.rule = "growth" -> "reduces_urgency"
      [] e.rule = "change" -> IF e.dir = "increase" THEN "reduces_urgency"
                              ELSE IF e.dir = "decrease" THEN "supports" ELSE "unsupported"
      [] e.rule = "measurement" -> "audit"
      [] OTHER -> "unsupported"

\* The same for pairs of sources, measurement conflicts left aside.
CrossRelationKind(e) ==
    CASE e.rule = "page_opportunity" -> "supports"
      [] e.rule = "trend" -> IF e.dir = "increase" THEN "reduces_urgency"
                             ELSE IF e.dir = "decrease" THEN "supports" ELSE "unproved"
      [] e.rule = "movement" -> "audit"
      [] OTHER -> "unsupported"

\* _strict_matches
StrictMatches(c, e) ==
    CASE e.kind = "page" -> e.target \in UrlsOf(c)
      [] e.kind = "query" -> c.template = 30 /\ \E t \in c.targets : t.kind = "query" /\ t.value = e.target
      [] e.kind = "aggregate" -> c.template = 30
      [] OTHER -> FALSE

\* append: a fact about access or the profile stays as urgent as it is.
Relation(origin, e, kind, c) ==
    IF kind = "reduces_urgency" /\ c.template \in {10, 50}
    THEN [origin |-> origin, finding |-> e.id, kind |-> "unmatched", cand |-> NoCandidate,
          reason |-> "HARD_PUBLIC_FACT_PROTECTED"]
    ELSE [origin |-> origin, finding |-> e.id, kind |-> kind, cand |-> c.id, reason |-> "STRICT"]

Unmatched(origin, e, reason) ==
    [origin |-> origin, finding |-> e.id, kind |-> "unmatched", cand |-> NoCandidate, reason |-> reason]

\* The relations of one evaluation to the candidates.
RelationsOf(origin, e, kind, candidates) ==
    LET matches == {c \in candidates : StrictMatches(c, e)}
    IN  CASE kind = "audit" -> {Unmatched(origin, e, "AUDIT_ONLY_RULE")}
          [] kind = "unproved" -> {Unmatched(origin, e, "DIRECTION_NOT_PROVABLE")}
          [] kind \in {"supports", "reduces_urgency"} ->
                IF matches = {} THEN {Unmatched(origin, e, "NO_STRICT_TARGET_MATCH")}
                ELSE {Relation(origin, e, kind, c) : c \in matches}

With(evaluations, Test(_)) == {e \in evaluations : e.id # 0 /\ Test(e)}
IsConflict(e) == e.rule = "conflict"

\* build_business_relations
BusinessRelations(first, cross, candidates) ==
    UNION {RelationsOf("first", e, FirstRelationKind(e), candidates) : e \in With(first, LAMBDA x : TRUE)}
    \cup UNION {RelationsOf("cross", e, CrossRelationKind(e), candidates) :
                e \in With(cross, LAMBDA x : ~IsConflict(x))}

UnsupportedRule(first, cross) ==
    \/ \E e \in With(first, LAMBDA x : TRUE) : FirstRelationKind(e) = "unsupported"
    \/ \E e \in With(cross, LAMBDA x : ~IsConflict(x)) : CrossRelationKind(e) = "unsupported"

\* _blocking_issues
BlockingIssues(request) ==
    {<<s, "health">> : s \in request.unhealthy \cap {"gsc", "ga4"}}
    \cup {<<e.src, "rule">> : e \in With(request.first, LAMBDA x : x.rule = "measurement" /\ x.src # "gbp")}
    \cup {<<"gsc_ga4", e.issue>> :
            e \in {x \in request.cross : x.src = "gsc_ga4" /\ x.kind = "aggregate" /\ x.issue # "none"}}

BlockerRefs(request) == With(request.first, LAMBDA x : x.rule = "measurement" /\ x.src # "gbp")

\* _ranked_business: the candidate with its verification rank and level.
Verified(c, relations) ==
    LET own == {r \in relations : r.cand = c.id}
        supports == {r.origin : r \in {x \in own : x.kind = "supports"}}
        growth == \E r \in own : r.kind = "reduces_urgency"
        base == IF "cross" \in supports THEN 6 ELSE IF "first" \in supports THEN 4 ELSE 2
        rank == IF growth THEN base - 2 ELSE base
    IN  [kind |-> "public", id |-> c.id, rank |-> rank, relations |-> own, anchor |-> c.anchor, deps |-> {},
         template |-> c.template, targets |-> c.targets, findings |-> c.findings, growth |-> growth,
         sort |-> <<-rank>> \o c.sort]

\* Mutant: a conflict counts like a candidate without evidence.
ConflictRankTwo == 2

\* verification_rank of _conflict_candidates
ConflictRank == 3

\* _conflict_candidates: one per pair of sources.
ConflictCandidate(pair, cross) ==
    LET evaluations == With(cross, LAMBDA x : IsConflict(x) /\ x.src = pair)
        id == <<1, {<<"pair", pair>>}>>
        place == CHOOSE n \in 1..3 : <<"ga4_gbp", "gsc_ga4", "gsc_gbp">>[n] = pair
    IN  [kind |-> "consistency", id |-> id, rank |-> ConflictRank, anchor |-> 0, deps |-> {}, template |-> 1,
         targets |-> {}, findings |-> {}, growth |-> FALSE,
         relations |-> {[origin |-> "cross", finding |-> e.id, kind |-> "measurement_conflict", cand |-> id,
                         reason |-> "CONFLICT"] : e \in evaluations},
         sort |-> <<-ConflictRank, -2, -2, -3, -Impact(Cardinality(evaluations)), place>>]

\* The repair of the measurement, in front of everything.
RepairCandidate(request) ==
    LET id == <<2, BlockingIssues(request)>>
    IN  [kind |-> "repair", id |-> id, rank |-> 100, anchor |-> 0, deps |-> {}, template |-> 2, targets |-> {},
         findings |-> {}, growth |-> FALSE, sort |-> <<-100>>,
         relations |-> {[origin |-> "first", finding |-> e.id, kind |-> "supports", cand |-> id,
                         reason |-> "BLOCKING_MEASUREMENT_ISSUE"] : e \in BlockerRefs(request)}]

(* build_verified_reprioritization of a request [public, first, cross, unhealthy] *)

\* The relations that count: the evaluations behind a repair relate to nothing else.
AllRelations(request, candidates, conflicts) ==
    LET blockers == {e.id : e \in BlockerRefs(request)}
        related == BusinessRelations(request.first, request.cross, candidates) \cup UNION {c.relations : c \in conflicts}
    IN  IF BlockingIssues(request) = {} THEN related
        ELSE {r \in related : ~(r.origin = "first" /\ r.finding \in blockers)} \cup RepairCandidate(request).relations

\* Three candidates in order of rank, of which one at least is a public one.
SelectTop(top, business) ==
    IF \A c \in Range(top) : c.kind # "public" THEN [top EXCEPT ![3] = business[1]] ELSE top

Reason(c, chosen, fallback, blocked) ==
    CASE c.kind = "repair" -> "forced_measurement_repair"
      [] c.kind # "repair" /\ c.id \in chosen ->
            IF c.id = fallback THEN "selected_business_fallback" ELSE "selected_verified_top_three"
      [] c.kind = "consistency" /\ blocked -> "excluded_when_measurement_blocked"
      [] OTHER -> "lower_verified_priority"

\* The findings that support none of the actions chosen.
Unused(evaluations, origin, relations, chosen) ==
    {<<origin, e.id>> : e \in {x \in evaluations : x.id # 0 /\
        ~\E r \in relations : r.origin = origin /\ r.finding = x.id /\ r.cand \in chosen}}

\* The most urgent public candidate among those selected.
Strongest(selected) ==
    CHOOSE c \in selected : c.kind = "public" /\ \A d \in selected \ {c} : d.kind = "public" => SortsBefore(c, d)

Reprioritized(request, relations, ranked, selected, actions, fallback) ==
    LET chosen == {c.id : c \in Range(actions)}
        blocked == actions[1].kind = "repair"
    IN  [actions |-> actions, relations |-> relations, core |-> Strongest(Range(selected)).anchor,
         audit |-> {[id |-> c.id, kind |-> c.kind, rank |-> c.rank, anchor |-> c.anchor, relations |-> c.relations,
                     selected |-> c.id \in chosen, reason |-> Reason(c, chosen, fallback, blocked)] : c \in ranked},
         unused |-> Unused(request.first, "first", relations, chosen) \cup Unused(request.cross, "cross", relations, chosen)]

RepairFirst(request, relations, conflicts, business, repair) ==
    LET selected == SubSeq(business, 1, 2)
    IN  IF Len(business) < 2 THEN Failed("INSUFFICIENT_ACTIONS")
        ELSE Reprioritized(request, relations, Range(business) \cup conflicts \cup {repair}, selected,
                           <<repair>> \o TopologicalOrder(WithDependencies(selected)), NoCandidate)

TopThree(request, relations, business, normal) ==
    LET top == TakeThree(normal)
        selected == SelectTop(top, business)
    IN  IF Len(normal) < 3 THEN Failed("INSUFFICIENT_ACTIONS")
        ELSE Reprioritized(request, relations, Range(normal), selected, TopologicalOrder(WithDependencies(selected)),
                           IF selected = top THEN NoCandidate ELSE business[1].id)

SelectRanked(request, relations, conflicts, business) ==
    IF BlockingIssues(request) # {} THEN RepairFirst(request, relations, conflicts, business, RepairCandidate(request))
    ELSE TopThree(request, relations, business, SetToSortSeq(Range(business) \cup conflicts, SortsBefore))

Rank(request, candidates, conflicts, relations) ==
    SelectRanked(request, relations, conflicts, SetToSortSeq({Verified(c, relations) : c \in candidates}, SortsBefore))

Relate(request, candidates, conflicts) ==
    Rank(request, candidates, conflicts, AllRelations(request, candidates, conflicts))

BuildVerified(request) ==
    IF UnsupportedRule(request.first, request.cross) THEN Failed("UNSUPPORTED_RULE")
    ELSE Relate(request, Range(BuildCandidates(request.public)),
                {ConflictCandidate(e.src, request.cross) : e \in With(request.cross, IsConflict)})

-----------------------------------------------------------------------------
(* What the reprioritisation promises *)

\* VerifiedReprioritizationResult.validate_result
VerifiedAccepted(v) ==
    LET ids == [n \in DOMAIN v.actions |-> v.actions[n].id]
        anchors == {a \in v.audit : a.selected /\ a.anchor # 0}
    IN  /\ Len(v.actions) = 3 /\ IsInjective(ids)
        /\ \A a \in v.audit : a.relations \subseteq v.relations
        /\ \A c \in Range(v.actions) : c.relations \subseteq v.relations
        /\ \A a, b \in v.audit : a # b => a.id # b.id
        /\ {a.id : a \in {b \in v.audit : b.selected}} = Range(ids)
        /\ \A r \in v.relations : r.kind # "unmatched" => \E a \in v.audit : a.id = r.cand
        /\ \A c \in Range(v.actions) : \E a \in v.audit :
            a.id = c.id /\ a.kind = c.kind /\ a.rank = c.rank /\ a.relations = c.relations
        /\ \E a \in anchors : a.anchor = v.core /\ \A b \in anchors : b.rank <= a.rank

\* Two candidates are told apart before the keys hold values of different kinds: a
\* conflict's rank is no candidate's, so that a template order is never compared
\* with a pair of sources.
RanksAreDecided(v) ==
    \A a, b \in v.audit : a.kind = "consistency" /\ b.kind = "public" => a.rank # b.rank

\* Nothing is out of order without a reason, a repair comes first, and a hard fact
\* is never put back by growth.
VerifiedOrder(v) ==
    /\ OrderedForReason(v.actions)
    /\ \A n \in DOMAIN v.actions : v.actions[n].kind = "repair" => n = 1
    /\ \A c \in Range(v.actions) : c.growth => c.template \notin {10, 50}
=============================================================================
