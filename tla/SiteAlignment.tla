--------------------------- MODULE SiteAlignment ---------------------------
(***************************************************************************)
(* The website and the public business profile compared: which candidates  *)
(* of the website speak for the confirmed business, when two values are    *)
(* the same, and what a field of the profile is said to be.                *)
(*                                                                         *)
(* A value is a record: the words of a name, number or area, an extension, *)
(* the parts of an address (0 where absent) and the way it was written.    *)
(***************************************************************************)
EXTENDS Integers, Sequences, SequencesExt, FiniteSets

CONSTANTS
    AlignAge,           \* max_comparison_age_days
    PairLimit           \* max_pair_comparisons

AlignFields == {"business_name", "phone", "address", "service_area"}
NoParts == [house |-> 0, street |-> 0, locality |-> 0, postal |-> 0]
Matching == {"exact_match", "semantic_match"}

EndsWith(words, suffix) == Len(words) >= Len(suffix) /\ SubSeq(words, Len(words) - Len(suffix) + 1, Len(words)) = suffix
StartsWith(words, prefix) == Len(words) >= Len(prefix) /\ SubSeq(words, 1, Len(prefix)) = prefix
Cut(words, suffix) == SubSeq(words, 1, Len(words) - Len(suffix))
\* The longest of the suffixes that words end with.
LongestEnd(words, suffixes) ==
    CHOOSE s \in {t \in suffixes : EndsWith(words, t)} : \A t \in suffixes : EndsWith(words, t) => Len(t) <= Len(s)
HasEnd(words, suffixes) == \E s \in suffixes : EndsWith(words, s)

-----------------------------------------------------------------------------
(* Names *)

LegalSuffixes == {<<"llc">>, <<"l", "l", "c">>, <<"co">>}
LegalSuffixesV2 == {<<"llc">>, <<"l", "l", "c">>, <<"ltd">>}

\* One legal suffix is dropped.
NameKey(words) == IF HasEnd(words, LegalSuffixes) THEN Cut(words, LongestEnd(words, LegalSuffixes)) ELSE words

\* Suffixes, and the city at either end while two words remain, until nothing changes.
WithoutCity(words, city) ==
    LET long == city # <<>> /\ Len(words) - Len(city) >= 2
    IN  IF long /\ EndsWith(words, city) THEN Cut(words, city)
        ELSE IF long /\ StartsWith(words, city) THEN SubSeq(words, Len(city) + 1, Len(words)) ELSE words
NameStepV2(words, city) ==
    WithoutCity(IF HasEnd(words, LegalSuffixesV2) THEN Cut(words, LongestEnd(words, LegalSuffixesV2)) ELSE words, city)
NameKeyV2(words, city) ==
    LET key[n \in 0..Len(words)] == IF n = 0 THEN words ELSE NameStepV2(key[n - 1], city)
    IN  key[Len(words)]

CompareKeys(keyA, keyB, same) ==
    IF keyA = <<>> \/ keyB = <<>> THEN "incomparable"
    ELSE IF same THEN "exact_match"
    ELSE IF keyA = keyB THEN "semantic_match"
    ELSE "mismatch"
CompareNames(a, b, quality, city) ==
    LET Key(v) == IF quality THEN NameKeyV2(v.words, city) ELSE NameKey(v.words)
    IN  CompareKeys(Key(a), Key(b), a = b)

(* Numbers: one that cannot be parsed has no words *)

ComparePhones(a, b) ==
    IF a.words = <<>> \/ b.words = <<>> THEN "incomparable"
    ELSE IF a.words # b.words THEN "mismatch"
    ELSE IF a.ext # 0 /\ b.ext # 0 /\ a.ext # b.ext THEN "mismatch"
    ELSE IF a = b THEN "exact_match"
    ELSE "semantic_match"

(* Addresses need a house and a street; other parts count where both have them *)

ValidAddress(v) == v.parts.house # 0 /\ v.parts.street # 0
CompareAddresses(a, b) ==
    LET common == {p \in DOMAIN NoParts : a.parts[p] # 0 /\ b.parts[p] # 0}
    IN  IF ~ValidAddress(a) \/ ~ValidAddress(b) THEN "incomparable"
        ELSE IF \E p \in common : a.parts[p] # b.parts[p] THEN "mismatch"
        ELSE IF a = b THEN "exact_match"
        ELSE "semantic_match"

(* Areas: the country and the region at the end are dropped, never all of it *)

AreaSuffixes(region) == ({<<"us">>, <<"usa">>, <<"united", "states">>} \cup region) \ {<<>>}
AreaStep(words, suffixes) ==
    LET ends == {s \in suffixes : Len(words) > Len(s) /\ EndsWith(words, s)}
    IN  IF ends = {} THEN words ELSE Cut(words, LongestEnd(words, ends))
AreaKey(words, region) ==
    LET key[n \in 0..Len(words)] == IF n = 0 THEN words ELSE AreaStep(key[n - 1], AreaSuffixes(region))
    IN  key[Len(words)]

CompareSets(site, gbp) ==
    IF site = gbp THEN "exact_match" ELSE IF site \cap gbp # {} THEN "partial_match" ELSE "mismatch"
CompareAreas(site, gbp, region) ==
    LET Keys(values) == {AreaKey(v.words, region) : v \in values} \ {<<>>}
    IN  CompareSets(Keys(site), Keys(gbp))

\* The text extraction: numbers by their digits, addresses by a street or postcode of the profile.
TextMatch(field, a, b) ==
    IF field = "phone" THEN (IF a.words # <<>> /\ a.words = b.words THEN "semantic_match" ELSE "none")
    ELSE IF a.parts.street # 0 /\ a.parts.street = b.parts.street /\ a.parts.house = b.parts.house THEN "semantic_match"
    ELSE IF a.parts.postal # 0 /\ a.parts.postal = b.parts.postal THEN "partial_match"
    ELSE "none"

-----------------------------------------------------------------------------
(* Selection.  A candidate has the type of its page, its final
   address, field, kind of source, owner and entity. *)

CorePages == {"home", "contact", "about", "location"}
BusinessPages == CorePages \cup {"service_index", "service_detail", "service_area"}
RequiredPages(field) == IF field = "service_area" THEN CorePages \cup {"service_area"} ELSE CorePages

CandidateKey(id, c) ==
    CASE c.field = "business_name" -> NameKey(c.value.words)
      [] c.field = "phone" -> c.value.words
      [] c.field = "address" -> IF ValidAddress(c.value) THEN <<c.value.parts.house, c.value.parts.street, c.value.parts.locality, c.value.parts.postal>> ELSE <<>>
      [] OTHER -> AreaKey(c.value.words, id.region)

\* An area or address in the town of the business.
MarketAnchor(id, c) ==
    \/ c.field = "service_area" /\ AreaKey(c.value.words, id.region) = id.town
    \/ c.field = "address" /\ c.value.parts.locality = id.locality /\ (id.version = "v4" => id.place)

\* Why an entity on another page belongs to the business.
EntityAnchor(id, cands, entity) ==
    LET group == {c \in cands : c.entity = entity}
    IN  IF \E c \in group : c.field = "business_name" /\ CompareNames(c.value, id.name, FALSE, <<>>) \in Matching THEN "noncore_name_anchor"
        ELSE IF \E c \in group : MarketAnchor(id, c) THEN "noncore_market_anchor"
        ELSE "none"

Preliminary(id, cands, c) ==
    IF c.kind = "jsonld_property" /\ c.owner # "declared_entity"
    THEN IF c.external THEN <<"excluded", "external_entity_hint">> ELSE <<"unresolved", "ownership_unresolved">>
    ELSE IF c.kind = "jsonld_property" /\ c.page \in BusinessPages THEN <<"eligible", "core_declared_entity">>
    ELSE IF c.kind = "jsonld_property"
    THEN IF EntityAnchor(id, cands, c.entity) # "none" THEN <<"eligible", EntityAnchor(id, cands, c.entity)>>
         ELSE <<"unresolved", "noncore_anchor_missing">>
    ELSE IF c.kind = "dom_label" /\ c.page \in BusinessPages THEN <<"eligible", "explicit_label_core">>
    ELSE <<"open", "none">>

\* A declaration of the business says the same, or two pages do and one is a core page.
Corroborated(id, cands, c) ==
    \E d \in cands :
        /\ d.kind = "jsonld_property" /\ Preliminary(id, cands, d)[1] = "eligible" /\ d.field = c.field
        /\ \/ c.field = "phone" /\ ComparePhones(c.value, d.value) \in Matching
           \/ c.field = "address" /\ CompareAddresses(c.value, d.value) \in Matching
Repeated(id, cands, c) ==
    LET same == {d \in cands : d.kind # "text_pattern" /\ d.field = c.field /\ CandidateKey(id, d) = CandidateKey(id, c)}
    IN  CandidateKey(id, c) # <<>> /\ Cardinality({d.final : d \in same}) >= 2 /\ \E d \in same : d.page \in CorePages

EligibleAs(id, cands, c, preliminary) ==
    IF c.kind = "text_pattern" THEN <<"unresolved", "text_pattern_requires_gbp">>
    ELSE IF preliminary[1] # "open" THEN preliminary
    ELSE IF Corroborated(id, cands, c) THEN <<"eligible", "structured_value_corroboration">>
    ELSE IF Repeated(id, cands, c) THEN <<"eligible", "repeated_across_final_pages">>
    ELSE <<"unresolved", "page_not_eligible">>

Eligibility(id, cands, c) == EligibleAs(id, cands, c, Preliminary(id, cands, c))

\* Every page that must be looked at, the home page among them, was read for the field.
Inspected(in, field) ==
    LET required == {p \in in.pages : p.type \in RequiredPages(field)}
    IN  /\ in.site = "ready" /\ \E p \in required : p.type = "home"
        /\ \A p \in required : p.status \notin {"not_checked", "parse_failed"} /\ field \notin p.blocked

-----------------------------------------------------------------------------
(* Alignment *)

FieldResult(state, reason) ==
    [state |-> state, reason |-> reason, site |-> {}, gbp |-> {}, covered |-> {}, matched |-> {}, incomparable |-> {}]
NotChecked(reason) == FieldResult("not_checked", reason)

NotApplicable(model) ==
    CASE model = "storefront" -> {"service_area"} [] model \in {"service_area", "meeting_point"} -> {"address"} [] OTHER -> {}

ComparePair(id, field, c, value, quality) ==
    CASE field = "business_name" -> CompareNames(c.value, value, quality, id.city)
      [] field = "phone" -> ComparePhones(c.value, value)
      [] OTHER -> CompareAddresses(c.value, value)

\* Text corroborates; it never contradicts.
TextAlignment(field, cands, values) ==
    LET pairs == {p \in cands \X values : TextMatch(field, p[1].value, p[2]) # "none"}
        strong == \E p \in pairs : TextMatch(field, p[1].value, p[2]) = "semantic_match"
    IN  IF Cardinality(cands) * Cardinality(values) > PairLimit THEN FieldResult("error", "LIMIT_EXCEEDED")
        ELSE [FieldResult(IF pairs = {} THEN "not_checked" ELSE IF strong THEN "semantic_match" ELSE "partial_match",
                          IF pairs = {} THEN "site_content_not_checked" ELSE "none")
              EXCEPT !.site = cands, !.gbp = values, !.matched = pairs]

\* The profile or the site has no usable value; the side that lacks it is covered by a record.
MissingResult(site, gbp) ==
    [FieldResult(IF site = {} /\ gbp = {} THEN "both_missing" ELSE IF site = {} THEN "site_missing" ELSE "gbp_missing", "none")
     EXCEPT !.site = site, !.gbp = gbp,
            !.covered = (IF site = {} THEN {"site_missing"} ELSE {}) \cup (IF gbp = {} THEN {"gbp_missing"} ELSE {})]

AreaResult(id, site, gbp) ==
    [FieldResult(CompareAreas({c.value : c \in site}, gbp, id.region), "none")
     EXCEPT !.site = site, !.gbp = gbp,
            !.matched = {p \in site \X gbp : AreaKey(p[1].value.words, id.region) = AreaKey(p[2].words, id.region)}]

PairResult(id, field, site, gbp, quality) ==
    LET State(p) == ComparePair(id, field, p[1], p[2], quality)
        pairs == site \X gbp
        matches == {p \in pairs : State(p) \in Matching}
        odd == {p \in pairs : State(p) = "incomparable"}
    IN  IF Cardinality(pairs) > PairLimit THEN FieldResult("error", "LIMIT_EXCEEDED")
        ELSE IF matches = {} /\ odd = pairs THEN NotChecked("comparator_unsupported")
        ELSE [FieldResult(IF \E p \in matches : State(p) = "exact_match" THEN "exact_match"
                           ELSE IF matches # {} THEN "semantic_match" ELSE "mismatch", "none")
              EXCEPT !.site = site, !.gbp = gbp, !.matched = matches, !.incomparable = {p[1] : p \in odd}]

\* Numbers that cannot be parsed are no values.
Usable(field, values) == IF field = "phone" THEN {v \in values : v.words # <<>>} ELSE values

Distance(a, b) == IF a > b THEN a - b ELSE b - a
Comparable(in) == in.site = "ready" /\ in.gbp = "ready" /\ Distance(in.siteAt, in.gbpAt) <= AlignAge

\* The candidates of a field by what became of them.
\* Mutant: text patterns count among the values of the site.
JudgedText(in, field, state) ==
    {c \in in.cands : c.field = field /\ (Eligibility(in.id, in.cands, c)[1] = state \/ (state = "eligible" /\ c.kind = "text_pattern"))}
Judged(in, field, state) ==
    {c \in in.cands : c.field = field /\ Eligibility(in.id, in.cands, c)[1] = state}

\* What is said of one field, of which the site has eligible and unresolved candidates.
AlignOf(in, field, eligible, unresolved) ==
    LET id == in.id
        own == {c \in in.cands : c.field = field}
        observed == in.state[field] = "observed"
        values == IF observed THEN in.values[field] ELSE {}
        site == {c \in eligible : c.value \in Usable(field, {d.value : d \in own})}
        gbp == Usable(field, values)
    IN  IF id.model = "none" /\ field \in {"address", "service_area"} THEN NotChecked("operating_model_unresolved")
        ELSE IF field \in NotApplicable(id.model) THEN [FieldResult("not_applicable", "none") EXCEPT !.site = eligible]
        ELSE IF id.version = "v4" /\ field = "address" /\ ~(id.place /\ id.matched /\ id.facing /\ id.branch) THEN NotChecked("operating_location_unresolved")
        ELSE IF id.version = "v4" /\ ~id.country THEN NotChecked("comparator_unsupported")
        ELSE IF "missing" \in {in.site, in.gbp} THEN NotChecked("source_missing")
        ELSE IF in.site # "ready" \/ in.gbp # "ready" THEN NotChecked("source_ineligible")
        ELSE IF ~Comparable(in) THEN NotChecked("comparison_time_gap")
        ELSE IF ~Inspected(in, field) THEN NotChecked("site_content_not_checked")
        ELSE IF id.version # "v1" /\ field \in {"phone", "address"} /\ \A c \in own : c.kind = "text_pattern" THEN TextAlignment(field, own, values)
        ELSE IF eligible = {} /\ unresolved # {} THEN NotChecked("identity_unresolved")
        ELSE IF site = {} \/ gbp = {} THEN MissingResult(site, gbp)
        ELSE IF field = "service_area" THEN AreaResult(id, site, gbp)
        ELSE PairResult(id, field, site, gbp, id.version \in {"v3", "v4"})

AlignField(in, field) == AlignOf(in, field, Judged(in, field, "eligible"), Judged(in, field, "unresolved"))

\* Matches of the text, and of whole values, of rendered pages.
TextOrWhole(field, text, whole) ==
    LET pairs == text.matched \cup whole
        weak == \A p \in pairs : p \in text.matched /\ TextMatch(field, p[1].value, p[2]) = "partial_match"
    IN  IF text.state = "error" \/ pairs = {} THEN text
        ELSE [FieldResult(IF weak THEN "partial_match" ELSE "semantic_match", "none")
              EXCEPT !.site = {p[1] : p \in pairs}, !.gbp = {p[2] : p \in pairs}, !.matched = pairs]

\* Rendered pages speak where the saved ones said nothing, and only in favour.
Supplement(in, field, result) ==
    LET open == \/ result.state = "not_checked" /\ result.reason = "site_content_not_checked"
                \/ result.state \in {"site_missing", "both_missing", "gbp_missing"}
        values == IF in.state[field] = "observed" THEN in.values[field] ELSE {}
        found == {c \in in.rendered.cands : c.field = field}
        whole == {p \in {c \in found : c.kind = "jsonld_property"} \X values : ComparePair(in.id, field, p[1], p[2], FALSE) \in Matching}
    IN  IF \/ in.id.version = "v1" \/ in.rendered.state # "ready" \/ in.gbp # "ready" \/ Distance(in.rendered.at, in.gbpAt) > AlignAge
           \/ (in.id.version = "v4" /\ ~in.id.country) \/ field \notin {"phone", "address"} \/ ~open \/ \E c \in in.cands : c.field = field
        THEN result
        ELSE TextOrWhole(field, TextAlignment(field, {c \in found : c.kind # "jsonld_property"}, values), whole)

Align(in, field) == Supplement(in, field, AlignField(in, field))

\* The rule outcome: what is missing does not count once evidence is reviewed, and an address
\* of which a postcode is known is no difference.
OutcomeOf(in, field, r) ==
    LET missing == r.state \in {"site_missing", "gbp_missing", "both_missing"}
        evidence == [site |-> r.site, coverage |-> r.covered \cap {"site_missing"}]
    IN  IF r.state = "error" THEN [state |-> "error", reason |-> r.reason, evidence |-> evidence]
        ELSE IF r.state = "not_checked" THEN [state |-> "not_checked", reason |-> r.reason, evidence |-> evidence]
        ELSE IF in.reviewed /\ missing THEN [state |-> "not_checked", reason |-> "field_not_observed", evidence |-> evidence]
        ELSE IF field = "address" /\ r.state = "partial_match" /\ in.id.version # "v1"
        THEN [state |-> "not_triggered", reason |-> r.state, evidence |-> evidence]
        ELSE IF missing \/ r.state \in {"partial_match", "mismatch"} THEN [state |-> "triggered", reason |-> r.state, evidence |-> evidence]
        ELSE [state |-> "not_triggered", reason |-> r.state, evidence |-> evidence]
AlignmentOutcome(in, field) == OutcomeOf(in, field, Align(in, field))

-----------------------------------------------------------------------------
(* What is expected. *)

\* A conclusion has evidence of the site, from pages that were all read and from candidates
\* that are the business's own.
ConclusionIsGrounded(in, field) ==
    \A o \in {AlignmentOutcome(in, field)} :
        o.state = "triggered" =>
            /\ o.evidence.site # {} \/ o.evidence.coverage # {}
            /\ Comparable(in) /\ Inspected(in, field)
            /\ \A c \in o.evidence.site : c.kind # "text_pattern" /\ ~c.external
            /\ in.reviewed => o.reason \in {"mismatch", "partial_match"}

\* Text and rendered pages take conclusions away; they never add one.
TextOnlyCorroborates(in, field) ==
    LET without == [in EXCEPT !.cands = {c \in @ : c.kind # "text_pattern"}, !.rendered.cands = {}]
    IN  AlignmentOutcome(in, field).state = "triggered" => AlignmentOutcome(without, field).state = "triggered"

\* A site that shows nothing but the values of the profile is never said to differ from it.
SameValuesAgree(in, field) ==
    /\ in.values[field] # {} /\ in.state[field] = "observed"
    /\ field # "service_area" => \A v \in in.values[field] : ComparePair(in.id, field, [value |-> v], v, in.id.version \in {"v3", "v4"}) # "incomparable"
    /\ \A c \in in.cands : c.field = field => c.value \in in.values[field]
    => Align(in, field).state # "mismatch"

\* Comparing is fair to both sides, and a name or an area is normalised in one go.
ComparatorsAgree(a, b, city, region) ==
    /\ \A q \in BOOLEAN : CompareNames(a, b, q, city) = CompareNames(b, a, q, city)
    /\ ComparePhones(a, b) = ComparePhones(b, a) /\ CompareAddresses(a, b) = CompareAddresses(b, a)
    /\ CompareAreas({a}, {b}, region) = CompareAreas({b}, {a}, region)
    /\ NameKeyV2(NameKeyV2(a.words, city), city) = NameKeyV2(a.words, city)
    /\ AreaKey(AreaKey(a.words, region), region) = AreaKey(a.words, region)
=============================================================================
