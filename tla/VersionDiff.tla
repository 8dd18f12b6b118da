----------------------------- MODULE VersionDiff -----------------------------
(***************************************************************************)
(* What a verified report changes about its parent                         *)
(* (report_v22/version_diff.py).  Every finding of the parent is refined,  *)
(* reprioritised, confirmed or unchanged; a verified finding that explains *)
(* no such change is new.  The recomputation of the inputs, their          *)
(* checksums and the comparison with the saved parent are left out: the    *)
(* inputs here are what those steps let through.                           *)
(***************************************************************************)
EXTENDS VerifiedActions

\* _evaluation_kind: the evaluation behind a relation.
EvaluationOf(request, r) ==
    CHOOSE e \in (IF r.origin = "first" THEN request.first ELSE request.cross) : e.id = r.finding

\* _owned_finding_ids: the parent's findings whose target the relation is about.
OwnedFindings(c, r, e) ==
    LET hit == {t \in c.targets :
                    \/ e.kind = "page" /\ t.kind = "url" /\ t.value = e.target
                    \/ e.kind = "query" /\ t.kind = "query" /\ t.value = e.target
                    \/ e.kind = "aggregate" /\ t.kind = "site"}
    IN  IF r.kind \in {"supports", "reduces_urgency"} THEN UNION {t.findings : t \in hit} ELSE {}

\* _position_maps: the place of an action in a plan, 0 when it is not selected.
Position(actions, id) ==
    IF \E n \in DOMAIN actions : actions[n].id = id
    THEN CHOOSE n \in DOMAIN actions : actions[n].id = id ELSE 0

Moved(request, v, id) == Position(request.plan.actions, id) # Position(v.actions, id)

\* _decision_relations: what is said about the action or, when nothing is, about
\* the actions that moved.
DecisionRelations(id, request, v) ==
    LET Known(r) == r.kind # "unmatched"
        direct == {r \in v.relations : r.cand = id /\ Known(r)}
    IN  IF direct # {} THEN direct
        ELSE {r \in v.relations : Known(r) /\ Moved(request, v, r.cand)}

RefsOf(relations) == {<<r.origin, r.finding>> : r \in relations}

\* _finding_evidence of verified findings.
EvidenceFor(refs, request) ==
    UNION {EvaluationOf(request, [origin |-> p[1], finding |-> p[2]]).ev : p \in refs}

RepairIssues(v) == UNION {c.id[2] : c \in {d \in Range(v.actions) : d.kind = "repair"}}

\* The loop over the parent's findings in build_version_diff.
DirectRelations(f, candidate, request, v) ==
    {r \in v.relations : r.cand = candidate.id /\ f.id \in OwnedFindings(candidate, r, EvaluationOf(request, r))}
EntryOf(f, candidate, direct, request, v) ==
    LET Direct(kind) == {r \in direct : r.kind = kind}
        moved == Moved(request, v, candidate.id)
        change == IF Direct("reduces_urgency") # {} THEN "refined"
                  ELSE IF moved THEN "reprioritized"
                  ELSE IF Direct("supports") # {} THEN "confirmed" ELSE "unchanged"
        relations == CASE change = "refined" -> Direct("reduces_urgency")
                       [] change = "confirmed" -> Direct("supports")
                       [] change = "reprioritized" ->
                            IF direct # {} THEN direct ELSE DecisionRelations(candidate.id, request, v)
                       [] OTHER -> {}
        refs == RefsOf(relations)
        fallback == EvidenceFor(refs, request) = {}
        measurement == {c \in Range(v.actions) : c.kind # "public" /\ c.id \in {r.cand : r \in relations}}
    IN  [change |-> change, previous |-> f.id, refs |-> refs, relations |-> relations, action |-> candidate.id,
         evidence |-> IF fallback THEN f.ev ELSE EvidenceFor(refs, request),
         basis |-> IF fallback THEN "parent_fallback"
                   ELSE IF direct # {} THEN "direct_relation" ELSE "ranking_boundary",
         reason |-> IF measurement # {} \/ fallback THEN "MEASUREMENT_GATE" ELSE change,
         issues |-> IF fallback THEN RepairIssues(v) ELSE UNION {c.id[2] : c \in measurement}]
EntryIn(f, candidate, request, v) == EntryOf(f, candidate, DirectRelations(f, candidate, request, v), request, v)
Entry(f, request, v) ==
    EntryIn(f, CHOOSE c \in Range(BuildCandidates(request.public)) : f.id \in c.findings, request, v)

\* build_version_diff of a request that also holds the parent's plan, from all its entries.
DiffOf(request, all) ==
    LET changed == {e \in all : e.change # "unchanged"}
        consumed == UNION {e.refs : e \in changed}
        verified == ({"first"} \X {e.id : e \in With(request.first, LAMBDA x : TRUE)})
                    \cup ({"cross"} \X {e.id : e \in With(request.cross, LAMBDA x : TRUE)})
    IN  [entries |-> changed, consumed |-> consumed, new |-> verified \ consumed,
         unchanged |-> {e.previous : e \in all \ changed}]
BuildDiff(request, v) == DiffOf(request, {Entry(f, request, v) : f \in request.public.findings})

-----------------------------------------------------------------------------
(* What the difference promises *)

\* A finding is never reprioritised without a reason that the reader can be given:
\* verified evidence, or else the issues of a repair that is in front of the plan.
\* A gate is only ever given as the reason of a change of order.
DiffExplained(d, v) ==
    \A e \in d.entries :
        /\ e.evidence # {}
        /\ e.basis = "parent_fallback" => v.actions[1].kind = "repair" /\ e.issues # {}
        /\ e.reason = "MEASUREMENT_GATE" => e.change = "reprioritized" /\ e.issues # {}
=============================================================================
