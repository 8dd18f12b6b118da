---------------------------- MODULE CopyContract ----------------------------
(***************************************************************************)
(* The controlled copy of a public plan (report_v22/copy_*.py): the        *)
(* request that names every fact a provider may use, the check of what it  *)
(* answers, and the attempts of the adapter.                               *)
(*                                                                         *)
(* A fact is [id, action, findings, path, type, size]; its id is a digest  *)
(* of the other fields: a tuple of them here.  A selection is [key, bind], *)
(* with a sequence of fact ids for every slot that it names.  Texts are    *)
(* represented by their size.                                              *)
(***************************************************************************)
EXTENDS PublicActions, FiniteSetsExt

CONSTANTS
    MaxFacts,       \* PublicCopyLimits.max_facts_per_action
    MaxRefs,        \* PublicCopyLimits.max_fact_refs_per_slot
    MaxText,        \* PublicCopyLimits.max_fact_value_chars
    MaxRendered,    \* PublicCopyLimits.max_rendered_chars, and that of every pattern
    MaxResult       \* PublicCopyLimits.max_result_bytes

\* ACTION_TEMPLATES: the fields that a template's copy may use.
AllowedFields(template) ==
    {"statement", "scope", "definition_of_done"}
      \cup CASE template = 10 -> {"severity", "url"}
             [] template = 20 -> {"url"}
             [] template = 30 -> {"query", "site"}
             [] template = 40 -> {"page_type"}
             [] template = 50 -> {"url", "gbp_field"}

TargetTypes == {"url", "query", "page_type", "gbp_field", "site"}
WhyTypes == {"statement", "scope", "severity", "confidence"}
Purpose(fact) == IF fact.type \in WhyTypes THEN "why" ELSE "explanation"

FactId(action, findings, path, type, size) == <<action, findings, path, type, size>>
CopyFact(action, findings, path, type, size) ==
    [id |-> FactId(action, findings, path, type, size), action |-> action, findings |-> findings, path |-> path,
     type |-> type, size |-> size]

\* _facts_for_action; sizes are those of the statements and urls that are not of size 1.
SizeIn(sizes, key) == IF key \in DOMAIN sizes THEN sizes[key] ELSE 1
FactsOf(action, sizes) ==
    LET allowed == AllowedFields(action.template)
        id == action.id
        ofFindings == {CopyFact(id, {f}, <<"finding", type, f>>, type, IF type = "statement" THEN SizeIn(sizes.statement, f) ELSE 1) :
                          f \in action.findings, type \in allowed \cap WhyTypes}
        ofTargets == {CopyFact(id, t.findings, <<"target", t.kind, t.value>>, t.kind, IF t.kind = "url" THEN SizeIn(sizes.url, t.value) ELSE 1) :
                         t \in {u \in action.targets : u.kind \in allowed}}
        ofWork == {CopyFact(id, action.findings, <<"action", type, 0>>, type, 1) : type \in {"definition_of_done", "limitation"}}
    IN  ofFindings \cup ofTargets \cup ofWork

-----------------------------------------------------------------------------
(* The catalog of sentences *)

Slot(name, types, most) == [name |-> name, types |-> types, min |-> 1, max |-> most]
SlotsOf(purpose) ==
    IF purpose = "why" THEN <<Slot("finding", {"statement"}, 1)>>
    ELSE <<Slot("targets", TargetTypes, MaxRefs), Slot("completion", {"definition_of_done"}, 20), Slot("limitations", {"limitation"}, 20)>>
Patterns == {[key |-> key, purpose |-> IF key \in {"evidence_finding", "current_finding"} THEN "why" ELSE "explanation"] :
                key \in {"evidence_finding", "current_finding", "targets_completion", "completion_targets"}}

\* pattern_definitions_for, _pattern_is_satisfiable
PatternsFor(purpose, facts) ==
    {p \in Patterns :
        /\ p.purpose = purpose
        /\ \A n \in DOMAIN SlotsOf(purpose) :
            Cardinality({f \in facts : f.type \in SlotsOf(purpose)[n].types}) >= SlotsOf(purpose)[n].min}

-----------------------------------------------------------------------------
(* The request *)

CopyAction(action, n, sizes) ==
    LET facts == FactsOf(action, sizes)
    IN  [id |-> action.id, sequence |-> n, template |-> action.template, findings |-> action.findings, facts |-> facts,
         why |-> PatternsFor("why", facts), explanation |-> PatternsFor("explanation", facts),
         limitations |-> {f.id : f \in {g \in facts : g.type = "limitation"}}]

\* build_copy_request: the plan must be the one that its findings give.
CheckedRequest(plan, rebuilt, actions) ==
    IF ~PlanAccepted(plan) \/ ~Succeeded(rebuilt) THEN Failed("INPUT_INVALID")
    ELSE IF rebuilt # plan THEN Failed("CHECKSUM_MISMATCH")
    ELSE IF \E n \in DOMAIN actions : Cardinality(actions[n].facts) > MaxFacts \/ \E f \in actions[n].facts : f.size > MaxText
         THEN Failed("LIMIT_EXCEEDED")
    ELSE IF \E n \in DOMAIN actions : actions[n].why = {} \/ actions[n].explanation = {} THEN Failed("CATALOG_INVALID")
    ELSE [checksum |-> plan, actions |-> actions]

BuildCopyRequest(result, plan, sizes) ==
    CheckedRequest(plan, BuildPlan(result), [n \in DOMAIN plan.actions |-> CopyAction(plan.actions[n], n, sizes)])

\* CopyActionInput, CopyRequestV1: the models' own validators.
WellFormedRequest(request) ==
    /\ Len(request.actions) = 3
    /\ \A n \in 1..3 :
        LET a == request.actions[n] IN
        /\ a.sequence = n /\ \A m \in 1..(n - 1) : request.actions[m].id # a.id
        /\ \A f, g \in a.facts : f.id = g.id => f = g
        /\ \A f \in a.facts : /\ f.action = a.id /\ f.findings \subseteq a.findings
                              /\ f.path[1] = "finding" => Cardinality(f.findings) = 1
        /\ \A i \in a.limitations : \E f \in a.facts : f.id = i /\ f.type = "limitation"

\* _validated_request: what is stored, or comes from another process, is checked again.
RequestError(request) ==
    LET actions == IF WellFormedRequest(request) THEN Range(request.actions) ELSE {}
        facts == UNION {a.facts : a \in actions}
    IN  IF actions = {} THEN "INPUT_INVALID"
        ELSE IF \E a \in actions : Cardinality(a.facts) > MaxFacts THEN "LIMIT_EXCEEDED"
        ELSE IF \E f \in facts : f.id # FactId(f.action, f.findings, f.path, f.type, f.size) THEN "CHECKSUM_MISMATCH"
        ELSE IF \E f \in facts : f.size > MaxText THEN "LIMIT_EXCEEDED"
        ELSE IF \E a \in actions : a.why # PatternsFor("why", a.facts) \/ a.explanation # PatternsFor("explanation", a.facts)
             THEN "CATALOG_INVALID"
        ELSE "none"

-----------------------------------------------------------------------------
(* The answer: [kind, checksum, actions]; an action is [id, sequence, why, explanation]. *)

\* PatternSelection.validate_bindings
WellFormedSelection(selection) ==
    selection.bind # <<>> /\ \A slot \in DOMAIN selection.bind : selection.bind[slot] # <<>> /\ IsInjective(selection.bind[slot])

\* _parse_response
ParseError(response) ==
    CASE response.kind = "missing" -> "OUTPUT_MISSING"
      [] response.kind = "large" -> "LIMIT_EXCEEDED"
      [] response.kind \in {"fenced", "duplicate keys", "other keys"} -> "OUTPUT_INVALID"
      [] response.kind = "language" -> "LANGUAGE_INVALID"
      [] OTHER ->
            IF /\ Len(response.actions) = 3
               /\ \A n \in 1..3 : /\ response.actions[n].sequence = n
                                  /\ \A m \in 1..(n - 1) : response.actions[m].id # response.actions[n].id
                                  /\ WellFormedSelection(response.actions[n].why)
                                  /\ WellFormedSelection(response.actions[n].explanation)
            THEN "none" ELSE "OUTPUT_INVALID"

\* A sentence of the catalog, of size 1, with the values of the facts that fill its slots.
TextSize(action, selection) ==
    LET used == UNION {Range(selection.bind[slot]) : slot \in DOMAIN selection.bind}
    IN  MapThenSumSet(LAMBDA f : f.size, {g \in action.facts : g.id \in used}) + 1

\* _selected_pattern, _render_selection: every slot, each with facts that may be used there,
\* in a text that is not too long.
Renders(action, selection, purpose) ==
    LET slots == SlotsOf(purpose)
        bound == selection.bind
        refs == [n \in DOMAIN slots |-> bound[slots[n].name]]
    IN  /\ \E p \in (IF purpose = "why" THEN action.why ELSE action.explanation) : p.key = selection.key
        /\ DOMAIN bound = {slots[n].name : n \in DOMAIN slots}
        /\ \A n \in DOMAIN slots :
            /\ Len(refs[n]) \in slots[n].min..slots[n].max /\ Len(refs[n]) <= MaxRefs
            /\ \A i \in DOMAIN refs[n] :
                \E f \in action.facts : f.id = refs[n][i] /\ Purpose(f) = purpose /\ f.type \in slots[n].types
        /\ IsInjective(FlattenSeq(refs))
        /\ TextSize(action, selection) <= MaxRendered

\* Mutant: a subset of what must be said is enough.
SaysWhatItMustSome(action, selection) ==
    UNION {Range(selection.bind[slot]) : slot \in DOMAIN selection.bind}
      \subseteq {f.id : f \in {g \in action.facts : g.type \in TargetTypes \cup {"definition_of_done"}}} \cup action.limitations

\* _validate_mandatory_explanation_facts
SaysWhatItMust(action, selection) ==
    LET required == {f.id : f \in {g \in action.facts : g.type \in TargetTypes \cup {"definition_of_done"}}} \cup action.limitations
        selected == UNION {Range(selection.bind[slot]) : slot \in DOMAIN selection.bind}
    IN  required # {} /\ selected = required

\* _render_action
ActionRenders(action, chosen) ==
    /\ Renders(action, chosen.why, "why") /\ Renders(action, chosen.explanation, "explanation")
    /\ SaysWhatItMust(action, chosen.explanation)

CopySize(request, answer) ==
    LET size(n) == TextSize(request.actions[n], answer.actions[n].why) + TextSize(request.actions[n], answer.actions[n].explanation)
    IN  size(1) + size(2) + size(3)

\* validate_and_render_copy
RenderCopy(request, response) ==
    LET error == RequestError(request)
        parse == ParseError(response)
    IN  IF error # "none" THEN Failed(error)
        ELSE IF parse # "none" THEN Failed(parse)
        ELSE IF response.checksum # request.checksum THEN Failed("CHECKSUM_MISMATCH")
        ELSE IF \E n \in 1..3 : response.actions[n].id # request.actions[n].id THEN Failed("REFERENCE_INVALID")
        ELSE IF \E n \in 1..3 : ~ActionRenders(request.actions[n], response.actions[n]) THEN Failed("REFERENCE_INVALID")
        ELSE IF CopySize(request, response) > MaxResult THEN Failed("LIMIT_EXCEEDED")
        ELSE [copy |-> response.actions]

-----------------------------------------------------------------------------
(* generate_public_action_copy: at most so many calls with the same request.    *)

\* _provider_error
Provider(answer) ==
    IF answer.kind \in {"timeout", "network", "429", "503"} THEN "transient"
    ELSE IF answer.kind \in {"400", "unexpected"} THEN "permanent" ELSE "answered"

\* results holds what each answer renders to.
FirstUsable(answers, results, attempts) ==
    LET Rejected(i) == \/ Provider(answers[i]) = "transient"
                       \/ Provider(answers[i]) = "answered" /\ ~Succeeded(results[i])
        last == {i \in 1..attempts : ~Rejected(i)}
        k == IF last = {} THEN 0 ELSE CHOOSE i \in last : \A j \in last : i <= j
    IN  IF last = {} THEN Failed("RETRY_EXHAUSTED")
        ELSE IF Provider(answers[k]) = "permanent" THEN Failed("PROVIDER_PERMANENT")
        ELSE [copy |-> results[k].copy, attempt |-> k, calls |-> k]

GenerateCopy(request, answers, attempts) ==
    IF attempts \notin 1..3 THEN Failed("ATTEMPTS_INVALID")
    ELSE IF RequestError(request) # "none" THEN Failed(RequestError(request))
    ELSE FirstUsable(answers, [i \in 1..attempts |-> RenderCopy(request, answers[i])], attempts)

-----------------------------------------------------------------------------
(* What the contract promises *)

FactIds(action, types) == {f.id : f \in {g \in action.facts : g.type \in types}}

\* Copy that states all that it must and nothing else, in the words of the catalog.
FaithfulCopy(action, chosen) ==
    /\ chosen.why.key \in {"evidence_finding", "current_finding"}
    /\ \E i \in FactIds(action, {"statement"}) : chosen.why.bind = [slot \in {"finding"} |-> <<i>>]
    /\ chosen.explanation.key \in {"targets_completion", "completion_targets"}
    /\ DOMAIN chosen.explanation.bind = {"targets", "completion", "limitations"}
    /\ LET b == chosen.explanation.bind IN
        /\ Range(b.targets) = FactIds(action, TargetTypes) /\ IsInjective(b.targets)
        /\ Range(b.completion) = FactIds(action, {"definition_of_done"}) /\ IsInjective(b.completion)
        /\ Range(b.limitations) = FactIds(action, {"limitation"}) /\ IsInjective(b.limitations)

\* The answer that a provider which follows the request would give, with the shortest statements.
Shortest(action) ==
    LET statements == {f \in action.facts : f.type = "statement"}
    IN  (CHOOSE f \in statements : \A g \in statements : f.size <= g.size).id
ObviousAnswer(request) ==
    [kind |-> "object", checksum |-> request.checksum,
     actions |-> [n \in 1..3 |->
        LET a == request.actions[n]
            All(types) == SetToSeq(FactIds(a, types))
        IN  [id |-> a.id, sequence |-> n,
             why |-> [key |-> "evidence_finding", bind |-> [slot \in {"finding"} |-> <<Shortest(a)>>]],
             explanation |-> [key |-> "targets_completion",
                bind |-> [slot \in {"targets", "completion", "limitations"} |->
                    All(CASE slot = "targets" -> TargetTypes [] slot = "completion" -> {"definition_of_done"} [] OTHER -> {"limitation"})]]]]]

\* All that must be said has a place in the texts and in the result.
FitsIn(request, answer) ==
    /\ \A n \in 1..3 : \A chosen \in {answer.actions[n].why, answer.actions[n].explanation} :
          TextSize(request.actions[n], chosen) <= MaxRendered
    /\ CopySize(request, answer) <= MaxResult

\* A request can be answered unless what must be said is too long, and only an answer that is
\* faithful for every action, and fits, is used.
RequestIsAnswerable(request) ==
    LET obvious == ObviousAnswer(request)
    IN  RequestError(request) = "none" /\ (Succeeded(RenderCopy(request, obvious)) <=> FitsIn(request, obvious))

AnswerIsFaithful(request, answer) ==
    /\ answer.kind \in {"object", "text"} /\ answer.checksum = request.checksum /\ Len(answer.actions) = 3
    /\ \A n \in 1..3 : /\ answer.actions[n].id = request.actions[n].id /\ answer.actions[n].sequence = n
                       /\ FaithfulCopy(request.actions[n], answer.actions[n])

CopyIsFaithful(request, answers, attempts, result) ==
    LET usable == {k \in 1..attempts : AnswerIsFaithful(request, answers[k]) /\ FitsIn(request, answers[k])}
        broken == {k \in 1..attempts : Provider(answers[k]) = "permanent"}
    IN  IF \E k \in usable : \A j \in broken \cup usable : k <= j
        THEN Succeeded(result) /\ result.copy = answers[Min(usable)].actions
        ELSE ~Succeeded(result)
=============================================================================
