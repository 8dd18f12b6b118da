---------------------------- MODULE VerifiedReport ----------------------------
(***************************************************************************)
(* The execution plan and the verified report (report_v22/                 *)
(* execution_plan.py, verified_report_assembler.py, client_delivery.py)    *)
(* and the contract that a report must meet (models.py).  Wording,         *)
(* durations and the parts copied from the parent are left out.            *)
(***************************************************************************)
EXTENDS VersionDiff

CONSTANT
    EvidenceIndex   \* evidence id -> [source, healthy, field, exact]

Evidence(id) == EvidenceIndex[id]

\* The verified sources, in the order of the report.
FirstPartySources == {"gsc", "gbp", "ga4"}

\* The priorities of _guardrail: a stable sample count first.
FieldPriority(item) ==
    CASE <<item.source, item.field>> \in {<<"gsc", "impressions">>, <<"ga4", "sessions">>, <<"gbp", "change_band">>} -> 0
      [] <<item.source, item.field>> = <<"gbp", "demand_band">> -> 1
      [] <<item.source, item.field>> = <<"gsc", "clicks">> -> 2
      [] OTHER -> 10

\* _guardrail: a value to hold while the action is worked on, from a verified finding
\* about the same target.  Relations are in the order of their digests.
Guardrail(action, request) ==
    LET usable == {r \in action.relations : /\ r.kind \in {"supports", "reduces_urgency"}
                                            /\ EvaluationOf(request, r).ev # {}}
        relation == CHOOSE r \in usable : TRUE
        ids == EvaluationOf(request, relation).ev
        selected == CHOOSE i \in ids : \A j \in ids \ {i} :
                        KeyLess(<<FieldPriority(Evidence(i)), i>>, <<FieldPriority(Evidence(j)), j>>)
    IN  IF action.kind # "public" \/ usable = {} THEN [kind |-> "none"]
        ELSE [kind |-> IF Evidence(selected).source = "gbp" THEN "band" ELSE "exact_value",
              evidence |-> selected, relation |-> relation]

\* _public_metric, _measurement_metric: what the primary metric rests on.
PrimaryMetric(action, request) ==
    [kind |-> IF action.kind = "public" THEN "structural_state" ELSE "source_readiness",
     evidence |-> UNION {f.ev : f \in {g \in request.public.findings : g.id \in action.findings}}]

MeasurementRefs(action) == {<<r.origin, r.finding>> : r \in action.relations}

\* The execution gate, and the actions that an action waits for.
Gate(v, n) ==
    LET blocked == v.actions[1].kind = "repair"
    IN  CASE n = 1 /\ blocked -> [gate |-> "blocked_until_measurement_ready", by |-> {}]
          [] n = 1 /\ ~blocked -> [gate |-> "ready", by |-> {}]
          [] n > 1 /\ blocked -> [gate |-> "waiting_for_action_1", by |-> {v.actions[1].id}]
          [] n > 1 /\ ~blocked -> [gate |-> "depends_on_previous", by |-> {v.actions[n - 1].id}]

\* The loop of build_execution_plan.
Executable(request, v) ==
    [n \in DOMAIN v.actions |->
        LET action == v.actions[n]
        IN  [id |-> action.id, sequence |-> n, primary |-> PrimaryMetric(action, request),
             guardrail |-> Guardrail(action, request), gate |-> Gate(v, n).gate, blockedBy |-> Gate(v, n).by,
             refs |-> IF action.kind = "public" THEN {<<"public", i>> : i \in action.findings}
                      ELSE IF MeasurementRefs(action) = {} THEN {<<"public", v.core>>} ELSE MeasurementRefs(action)]]

\* _top_actions: a measurement action without findings stands on the core problem.
TopActions(executable, v) ==
    [n \in DOMAIN executable |->
        [id |-> v.actions[n].id, sequence |-> n, findings |-> executable[n].refs,
         dependencies |-> executable[n].blockedBy \cup v.actions[n].deps, template |-> v.actions[n].template]]

\* _first_party_performance: a source is verified when its data may support business metrics.
Connection(source, request) ==
    IF source \notin request.snapshots THEN "not_connected"
    ELSE IF source \in request.unhealthy THEN "connected" ELSE "verified"

\* _performance_metrics: the exact guardrails of a source, once each.
PerformanceMetrics(source, executable, request) ==
    IF source = "gbp" \/ source \notin request.snapshots THEN {}
    ELSE {Evidence(x.guardrail.evidence).field :
            x \in {y \in Range(executable) : /\ y.guardrail.kind = "exact_value"
                                             /\ Evidence(y.guardrail.evidence).source = source
                                             /\ Evidence(y.guardrail.evidence).exact}}

\* _coverage
FullCoverage(request) == \A s \in FirstPartySources : Connection(s, request) = "verified"

FindingEvidence(ref, request) ==
    IF ref[1] = "public" THEN (CHOOSE f \in request.public.findings : f.id = ref[2]).ev
    ELSE EvidenceFor({ref}, request)

\* _evidence_card: the action's first finding with healthy evidence that no card
\* shows yet, with at most two pieces of evidence of one source.
Card(action, used, request) ==
    LET Healthy(ref) == {i \in FindingEvidence(ref, request) : Evidence(i).healthy}
        refs == {r \in action.findings : r \notin used /\ Healthy(r) # {}}
        finding == CHOOSE r \in refs : \A q \in refs \ {r} : KeyLess(<<r[2]>>, <<q[2]>>)
        first == CHOOSE i \in Healthy(finding) : \A j \in Healthy(finding) : i <= j
        same == {i \in Healthy(finding) : Evidence(i).source = Evidence(first).source}
    IN  IF refs = {} THEN {}
        ELSE {[finding |-> finding, evidence |-> {i \in same : Cardinality({j \in same : j < i}) < 2}]}

\* build_client_delivery: the cards of the three actions, in their order.
Cards(top, request) ==
    LET upTo[n \in 0..Len(top)] ==
            IF n = 0 THEN {}
            ELSE upTo[n - 1] \cup Card(top[n], {c.finding : c \in upTo[n - 1]}, request)
    IN  upTo[Len(top)]

\* ReportV22.validate_contract_invariants of a verified report.
ContractError(report, request) ==
    LET ids == [n \in DOMAIN report.top |-> report.top[n].id]
        known == ({"public"} \X {f.id : f \in request.public.findings})
                 \cup ({"first"} \X {e.id : e \in With(request.first, LAMBDA x : TRUE)})
                 \cup ({"cross"} \X {e.id : e \in With(request.cross, LAMBDA x : TRUE)})
        shown == UNION {a.findings : a \in Range(report.top)}
    IN  IF ~IsInjective(ids) THEN "duplicate action IDs"
        ELSE IF ~(UNION {e.evidence : e \in report.diff.entries} \subseteq DOMAIN EvidenceIndex)
             THEN "unknown evidence references"
        ELSE IF ~(report.decision \cup shown \cup UNION {e.refs : e \in report.diff.entries} \subseteq known)
             THEN "unknown finding references"
        ELSE IF [n \in DOMAIN report.top |-> report.top[n].sequence] # <<1, 2, 3>>
             THEN "top actions must be ordered"
        ELSE IF \E a \in Range(report.top) : ~(a.dependencies \subseteq Range(ids)) THEN "unknown action dependencies"
        ELSE IF \E a \in Range(report.top) : a.id \in a.dependencies THEN "an action cannot depend on itself"
        ELSE IF \E c \in report.cards : c.finding \notin shown THEN "client evidence must support a selected top action"
        ELSE IF \E c \in report.cards : \E i \in c.evidence : ~Evidence(i).healthy THEN "client evidence must be healthy"
        ELSE IF report.diff.entries = {} /\ report.diff.new = {} THEN "verified reports require version diff entries"
        ELSE IF ~({"gsc", "ga4"} \subseteq request.snapshots) THEN "verified reports require GSC and GA4 sync snapshots"
        ELSE IF report.full /\ \E s \in FirstPartySources : s \in request.unhealthy \/ s \notin request.snapshots
             THEN "full evidence coverage requires healthy, matched sources"
        ELSE "none"

\* build_execution_plan and assemble_verified_report.  The errors of client delivery
\* and of the contract are not caught: they are the error of the stage.
BuildReport(request, v, d) ==
    LET executable == Executable(request, v)
        top == TopActions(executable, v)
        business == CHOOSE n \in DOMAIN top :
                        /\ <<"public", v.core>> \in top[n].findings
                        /\ \A m \in 1..(n - 1) : <<"public", v.core>> \notin top[m].findings
        report == [top |-> top, diff |-> d, cards |-> Cards(top, request), decision |-> top[business].findings,
                   full |-> FullCoverage(request), gates |-> [n \in DOMAIN executable |-> executable[n].gate],
                   metrics |-> [s \in FirstPartySources |-> PerformanceMetrics(s, executable, request)]]
    IN  IF Cards(top, request) = {} THEN Failed("client delivery has no healthy representative evidence")
        ELSE IF ContractError(report, request) # "none" THEN Failed(ContractError(report, request))
        ELSE report

-----------------------------------------------------------------------------
(* What the report promises *)

\* The three actions can be done in their order, and what they wait for is in front.
ActionsCanBeDone(report) ==
    \A n \in DOMAIN report.top :
        report.top[n].dependencies \subseteq {report.top[m].id : m \in 1..(n - 1)}

\* A report is refused for want of healthy evidence or of any change, and for no
\* other reason: everything else that the contract asks for, the stages guarantee.
RefusalsAreKnown(report) ==
    "error" \in DOMAIN report =>
        report.error \in {"client delivery has no healthy representative evidence",
                          "verified reports require version diff entries"}
=============================================================================
