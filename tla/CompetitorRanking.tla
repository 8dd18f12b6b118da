--------------------------- MODULE CompetitorRanking ---------------------------
(***************************************************************************)
(* Competitor candidates of a market (competitors_v22/candidates.py): the  *)
(* search results are grouped into businesses, each business is judged,    *)
(* and the best are offered for confirmation.                              *)
(*                                                                         *)
(* An observation is a record [ids, dom, who, q, pos, type, near, rel]:    *)
(* strong provider ids, website domain (0: none), normalized name and      *)
(* address (0: none), query, position, result type (maps, local_pack or    *)
(* organic), whether it mentions the market, and the relevance of its text *)
(* in percent.                                                             *)
(***************************************************************************)
EXTENDS Integers, Sequences, FiniteSets, SequencesExt

CONSTANTS
    CandidateLimit,     \* COMPETITOR_DISCOVERY_CANDIDATE_LIMIT
    QueryCount,         \* number of confirmed queries
    BlockedDomains,     \* _BLOCKED_PLATFORM_DOMAINS
    ClientDomain,       \* the client's own website
    ClientCid,          \* the provider id in the client's own profile address
    ClientWho           \* the client's own name and place

\* _should_merge
ShouldMerge(a, b) ==
    \/ a.ids \cap b.ids # {}
    \/ /\ a.ids = {} \/ b.ids = {}
       /\ \/ a.dom # 0 /\ a.dom = b.dom
          \/ a.who # 0 /\ a.who = b.who

\* The union-find of connected_groups: the classes of indices linked by pairs,
\* listed by their first member.
ConnectedGroups(S, pairs) ==
    LET Component(i) ==
            LET reach[n \in 0..Cardinality(S)] ==
                    IF n = 0 THEN {i}
                    ELSE reach[n - 1] \cup {k \in S : \E m \in reach[n - 1] : <<m, k>> \in pairs}
            IN  reach[Cardinality(S)]
        classes == {Component(i) : i \in S}
    IN  SetToSortSeq(classes, LAMBDA A, B : Min(A) < Min(B))

\* Mutant: a weak group joins the first place that it matches.
JoinFirst(obs, strong, weak) ==
    LET matches == {n \in DOMAIN strong : \E w \in weak, s \in strong[n] : ShouldMerge(obs[w], obs[s])}
    IN  IF matches # {}
        THEN [strong |-> [strong EXCEPT ![Min(matches)] = @ \cup weak], ambiguous |-> FALSE, joined |-> TRUE]
        ELSE [strong |-> strong, ambiguous |-> FALSE, joined |-> FALSE]

\* A weak group joins the one place it matches; a match with several places is
\* ambiguous.  The places are extended as the loop goes on.
Join(obs, strong, weak) ==
    LET matches == {n \in DOMAIN strong : \E w \in weak, s \in strong[n] : ShouldMerge(obs[w], obs[s])}
    IN  IF Cardinality(matches) = 1
        THEN [strong |-> [strong EXCEPT ![Min(matches)] = @ \cup weak], ambiguous |-> FALSE, joined |-> TRUE]
        ELSE [strong |-> strong, ambiguous |-> Cardinality(matches) > 1, joined |-> FALSE]

\* _groups: a set of [members, ambiguous].
Groups(obs) ==
    LET strongIdx == {i \in DOMAIN obs : obs[i].ids # {}}
        weakIdx == DOMAIN obs \ strongIdx
        places == ConnectedGroups(strongIdx, {p \in strongIdx \X strongIdx : obs[p[1]].ids \cap obs[p[2]].ids # {}})
        loose == ConnectedGroups(weakIdx, {p \in weakIdx \X weakIdx : ShouldMerge(obs[p[1]], obs[p[2]])})
        Visit(acc, weak) ==
            LET j == Join(obs, acc.strong, weak)
            IN  [strong |-> j.strong,
                 rest |-> IF j.joined THEN acc.rest
                          ELSE acc.rest \cup {[members |-> weak, ambiguous |-> j.ambiguous]}]
        all == FoldLeft(Visit, [strong |-> places, rest |-> {}], loose)
    IN  {[members |-> g, ambiguous |-> FALSE] : g \in Range(all.strong)} \cup all.rest

-----------------------------------------------------------------------------
(* _eligible_record *)

\* _most_common: by count, ties to the smaller; 0 when there is none.
MostCommon(obs, group, field) ==
    LET values == {obs[i][field] : i \in group} \ {0}
        Count(v) == Cardinality({i \in group : obs[i][field] = v})
    IN  IF values = {} THEN 0
        ELSE CHOOSE v \in values : \A u \in values : Count(u) < Count(v) \/ (Count(u) = Count(v) /\ v <= u)

\* _identity_key: the smallest strong id, or the website, or name and address.
IdentityKey(obs, group, dom, who) ==
    LET strong == UNION {obs[i].ids : i \in group}
    IN  IF strong # {} THEN <<1, Min(strong)>> ELSE IF dom # 0 THEN <<2, dom>> ELSE <<3, who>>

\* _rank_score: 1 / log2(position + 1) in percent, for positions 1, 3 and 7.
PositionScore(pos) == CASE pos = 1 -> 100 [] pos = 3 -> 50 [] pos = 7 -> 33

\* The mean of the best positions, one for each query and result type.
RankScore(obs, group) ==
    LET Context(i) == <<obs[i].q, obs[i].type>>
        contexts == {Context(i) : i \in group}
        best == [c \in contexts |-> Max({PositionScore(obs[i].pos) : i \in {k \in group : Context(k) = c}})]
    IN  SumFunction(best) \div Cardinality(contexts)

\* _identity_confidence
IdentityConfidence(obs, group, dom, who) ==
    IF dom = 0 THEN 0
    ELSE IF \E i \in group : obs[i].ids # {} THEN 100
    ELSE IF who # 0 THEN 80 ELSE 60

\* _is_client_business
IsClientBusiness(obs, group, dom, who) ==
    dom = ClientDomain \/ who = ClientWho \/ \E i \in group : ClientCid \in obs[i].ids

\* _has_local_evidence
HasLocalEvidence(obs, group) == \E i \in group : obs[i].type \in {"maps", "local_pack"} \/ obs[i].near

\* The verdict on one business: its reason code and, when eligible, its score.
Judge(obs, g) ==
    LET group == g.members
        dom == MostCommon(obs, group, "dom")
        who == MostCommon(obs, group, "who")
        queries == {obs[i].q : i \in group}
        relevance == Max({obs[i].rel : i \in group})
        coverage == (100 * Cardinality(queries)) \div QueryCount
        rank == RankScore(obs, group)
        reason ==
            CASE g.ambiguous -> "ambiguous_identity"
              [] ~g.ambiguous /\ dom = 0 -> "missing_website"
              [] ~g.ambiguous /\ dom \in BlockedDomains -> "blocked_platform"
              [] ~g.ambiguous /\ dom \notin BlockedDomains \cup {0} /\ IsClientBusiness(obs, group, dom, who)
                    -> "client_business"
              [] OTHER -> IF ~HasLocalEvidence(obs, group) THEN "no_local_evidence"
                          ELSE IF relevance < 15 THEN "business_irrelevant" ELSE "eligible"
    IN  [key |-> IdentityKey(obs, group, dom, who), dom |-> dom, reason |-> reason,
         total |-> 45 * coverage + 30 * rank + 20 * relevance
                   + 5 * IdentityConfidence(obs, group, dom, who),
         queries |-> Cardinality(queries), rank |-> rank, rel |-> relevance]

KeyBefore(a, b) == a[1] < b[1] \/ (a[1] = b[1] /\ a[2] < b[2])

\* _sort_key: the greater score first, then each part of it in turn, then the key.
RanksBefore(a, b) ==
    LET merits(r) == <<r.total, r.queries, r.rank, r.rel>>
        differ == {n \in 1..4 : merits(a)[n] # merits(b)[n]}
    IN  IF differ = {} THEN KeyBefore(a.key, b.key) ELSE merits(a)[Min(differ)] > merits(b)[Min(differ)]

\* _suppress_shared_websites: only the best record of a website stays eligible.
SuppressSharedWebsites(records) ==
    {IF r.reason = "eligible" /\ \E s \in records : s.reason = "eligible" /\ s.dom = r.dom /\ RanksBefore(s, r)
     THEN [r EXCEPT !.reason = "shared_competitor_website"] ELSE r : r \in records}

\* A supplement that the client named takes the place of the last candidate that
\* is not a supplement itself.
Supplement(selected, extra, supplements) ==
    LET places == {n \in DOMAIN selected : selected[n].dom \notin supplements}
    IN  IF extra \in Range(selected) \/ places = {} THEN selected
        ELSE SetToSortSeq(Range([selected EXCEPT ![Max(places)] = extra]), RanksBefore)

\* rank_competitor_candidates
RankCandidates(obs, supplements) ==
    LET records == SuppressSharedWebsites({Judge(obs, g) : g \in Groups(obs)})
        eligible == SetToSortSeq({r \in records : r.reason = "eligible"}, RanksBefore)
        best == SubSeq(eligible, 1, IF Len(eligible) < CandidateLimit THEN Len(eligible) ELSE CandidateLimit)
        named == SetToSortSeq({r \in Range(eligible) : r.dom \in supplements}, LAMBDA a, b : a.dom < b.dom)
        chosen == FoldLeft(LAMBDA acc, r : Supplement(acc, r, supplements), best, named)
    IN  [records |-> records, candidates |-> chosen, ready |-> chosen # <<>>,
         gaps |-> {d \in supplements : \A r \in Range(eligible) : r.dom # d}]

-----------------------------------------------------------------------------
(* What the ranking promises *)

\* The grouping by definition: places are linked by provider ids alone, and each
\* weak group is held against the places as they are without any weak result.
GroupsByDefinition(obs) ==
    LET strongIdx == {i \in DOMAIN obs : obs[i].ids # {}}
        weakIdx == DOMAIN obs \ strongIdx
        places == Range(ConnectedGroups(strongIdx, {p \in strongIdx \X strongIdx : obs[p[1]].ids \cap obs[p[2]].ids # {}}))
        loose == Range(ConnectedGroups(weakIdx, {p \in weakIdx \X weakIdx : ShouldMerge(obs[p[1]], obs[p[2]])}))
        Matches(w) == {p \in places : \E i \in w, k \in p : ShouldMerge(obs[i], obs[k])}
    IN  {[members |-> p \cup UNION {w \in loose : Matches(w) = {p}}, ambiguous |-> FALSE] : p \in places}
        \cup {[members |-> w, ambiguous |-> Cardinality(Matches(w)) > 1] :
                w \in {x \in loose : Cardinality(Matches(x)) # 1}}

\* CandidateRankingResult.validate_ranking, and what the offer is meant to be.
ValidRanking(r, supplements) ==
    /\ Len(r.candidates) <= CandidateLimit
    /\ \A m, n \in DOMAIN r.candidates :
        m # n => r.candidates[m].dom # r.candidates[n].dom /\ r.candidates[m].key # r.candidates[n].key
    /\ IsSorted(r.candidates, RanksBefore)
    /\ r.ready = (\E x \in r.records : x.reason = "eligible")

\* Every eligible supplement is offered, as far as the limit allows, and a candidate
\* that is not a supplement is left out only for a better one or for a supplement.
SupplementsKept(r, supplements) ==
    LET eligible == {x \in r.records : x.reason = "eligible"}
        named == {x \in eligible : x.dom \in supplements}
        offered == Range(r.candidates)
    IN  /\ Cardinality(named) <= CandidateLimit => named \subseteq offered
        /\ \A x \in offered \ named, y \in eligible \ (named \cup offered) : RanksBefore(x, y)
        /\ Cardinality(offered) = IF Cardinality(eligible) < CandidateLimit
                                  THEN Cardinality(eligible) ELSE CandidateLimit
=============================================================================
