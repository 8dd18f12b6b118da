----------------------------- MODULE SiteFacts -----------------------------
(***************************************************************************)
(* What a website says about its business: saved HTML is parsed into a     *)
(* bounded tree, JSON-LD records, labelled values and text patterns become *)
(* candidates, and each page that could not be read says so.               *)
(***************************************************************************)
EXTENDS Integers, Sequences, SequencesExt, FiniteSets, FiniteSetsExt

CONSTANTS
    NodeLimit,          \* max_html_nodes_total, in pieces of markup
    PageBytes,          \* max_html_bytes_per_page
    SiteBytes           \* max_html_bytes_total

FactFields == {"business_name", "phone", "address", "service_area"}

Draft(field, kind, owner, entity, words) ==
    [field |-> field, kind |-> kind, owner |-> owner, entity |-> entity, words |-> words]
Diagnostic(code, fields, scope) == [code |-> code, fields |-> fields, scope |-> scope]

-----------------------------------------------------------------------------
(* The tree.  A piece of markup opens, closes or is an element, or is text.  *)

VoidTags == {"br"}
IgnoredTags == {"script"}
BlockTags == {"p", "div", "address"}

EmptyTree ==
    [nodes |-> <<[tag |-> "document", parent |-> 0, suppressed |-> FALSE, hidden |-> FALSE, styled |-> FALSE, closed |-> TRUE,
                  bad |-> FALSE, kids |-> <<>>, doc |-> 0]>>,
     stack |-> <<1>>, blocks |-> <<>>, failed |-> FALSE]

Piece(node, word) == [node |-> node, word |-> word]
\* An element is hidden inside a hidden one; attributes that occur twice make it bad.
OpenTag(tree, piece) ==
    LET parent == Last(tree.stack)
        suppressed == tree.nodes[parent].hidden \/ piece.hide = "attr"
        i == Len(tree.nodes) + 1
        node == [tag |-> piece.tag, parent |-> parent, suppressed |-> suppressed,
                 hidden |-> suppressed \/ piece.tag \in IgnoredTags, styled |-> piece.hide = "style",
                 closed |-> piece.tag \in VoidTags, bad |-> piece.dup, kids |-> <<>>, doc |-> piece.doc]
    IN  [nodes |-> Append([tree.nodes EXCEPT ![parent].kids = Append(@, Piece(i, ""))], node),
         stack |-> IF piece.tag \in VoidTags THEN tree.stack ELSE Append(tree.stack, i),
         blocks |-> IF piece.doc # 0 /\ ~suppressed THEN Append(tree.blocks, i) ELSE tree.blocks,
         failed |-> tree.failed \/ piece.dup]

\* An end tag closes the innermost element of its name; what it cuts off is bad.
CloseTag(tree, piece) ==
    LET open == {k \in 2..Len(tree.stack) : tree.nodes[tree.stack[k]].tag = piece.tag}
        at == Max(open)
        cut == {tree.stack[k] : k \in (at + 1)..Len(tree.stack)}
        node == tree.stack[at]
    IN  IF open = {} THEN [tree EXCEPT !.failed = TRUE]
        ELSE [tree EXCEPT !.stack = SubSeq(@, 1, at - 1), !.failed = @ \/ cut # {},
                          !.nodes = [n \in DOMAIN @ |-> [@[n] EXCEPT !.closed = @ \/ n = node,
                                                                     !.bad = @ \/ n \in cut \/ (n = node /\ cut # {})]]]

Read(tree, piece) ==
    CASE piece.kind = "open" -> OpenTag(tree, piece)
      [] piece.kind = "close" -> CloseTag(tree, piece)
      [] OTHER -> [tree EXCEPT !.nodes[Last(tree.stack)].kids = Append(@, Piece(0, piece.word))]

\* What is still open at the end of the page is bad.
EndOfPage(tree) ==
    LET left == {tree.stack[k] : k \in 2..Len(tree.stack)}
    IN  [tree EXCEPT !.failed = @ \/ left # {}, !.nodes = [n \in DOMAIN @ |-> [@[n] EXCEPT !.bad = @ \/ n \in left]]]

ParseTree(pieces) == EndOfPage(FoldLeft(Read, EmptyTree, pieces))

\* The text of every node; text patterns also respect styles, which the older extraction does not.
Texts(tree, styles) ==
    LET text[n \in DOMAIN tree.nodes] ==
            LET node == tree.nodes[n]
            IN  IF node.hidden \/ node.bad \/ ~node.closed \/ (styles /\ node.styled) THEN <<>>
                ELSE FlattenSeq([k \in DOMAIN node.kids |->
                        IF node.kids[k].node = 0 THEN <<node.kids[k].word>> ELSE text[node.kids[k].node]])
    IN  text

Elements(tree, n) == SelectSeq(tree.nodes[n].kids, LAMBDA p : p.node # 0)

-----------------------------------------------------------------------------
(* Labelled values, telephone links, addresses and text patterns. *)

Labels == [phone |-> "Phone", service_area |-> "Areas"]
LabelTags == [dt |-> {"dd"}, h |-> {"p", "div", "address", "ul"}]
IsPhone(word) == word \in {"5551", "5552"}
ValidText(words, field) == words # <<>> /\ (field = "phone" => \E i \in DOMAIN words : IsPhone(words[i]))

\* A value with lists or headings inside is not flattened into a label's value.
AmbiguousValue(tree, n) ==
    LET odd[k \in DOMAIN tree.nodes] ==
            \E p \in ToSet(Elements(tree, k)) :
                ~tree.nodes[p.node].hidden /\ (tree.nodes[p.node].tag \in {"dl", "ul", "h"} \/ odd[p.node])
    IN  odd[n]

\* The node after node n among the elements of its parent, or 0.
NextElement(tree, n) ==
    LET siblings == Elements(tree, tree.nodes[n].parent)
        at == CHOOSE k \in DOMAIN siblings : siblings[k].node = n
    IN  IF at < Len(siblings) THEN siblings[at + 1].node ELSE 0

Emit(tree, text, n, field, kind) ==
    IF kind = "dom_label" /\ AmbiguousValue(tree, n)
    THEN [drafts |-> {}, notes |-> {Diagnostic("unsupported_field_shape", {field}, "extraction")}]
    ELSE IF ~ValidText(text[n], field)
    THEN [drafts |-> {}, notes |-> {Diagnostic("invalid_field_value", {field}, "extraction")}]
    ELSE [drafts |-> {Draft(field, kind, "unresolved", 0, text[n])}, notes |-> {}]

Labelled(tree, text, n) ==
    LET node == tree.nodes[n]
        named == {f \in DOMAIN Labels : text[n] = <<Labels[f]>>}
        field == CHOOSE f \in named : TRUE
        value == NextElement(tree, n)
        items == {p.node : p \in {q \in ToSet(Elements(tree, value)) : tree.nodes[q.node].tag = "li"}}
        shape == [drafts |-> {}, notes |-> {Diagnostic("unsupported_field_shape", {field}, "extraction")}]
    IN  IF named = {} \/ node.tag \notin DOMAIN LabelTags \/ (node.tag = "dt" /\ tree.nodes[node.parent].tag # "dl") THEN {}
        ELSE IF value = 0 THEN {shape}
        ELSE IF tree.nodes[value].tag \notin LabelTags[node.tag] \/ tree.nodes[value].bad \/ ~tree.nodes[value].closed \/ tree.nodes[value].hidden
        THEN {shape}
        ELSE IF field = "service_area" /\ tree.nodes[value].tag = "ul"
        THEN IF items = {} THEN {[drafts |-> {}, notes |-> {Diagnostic("invalid_field_value", {field}, "extraction")}]}
             ELSE {Emit(tree, text, i, field, "dom_label") : i \in {k \in items : ~tree.nodes[k].hidden}}
        ELSE {Emit(tree, text, value, field, "dom_label")}

\* The smallest elements that show a number; nothing inside an invisible element.
TextDrafts(tree, text) ==
    LET unseen[n \in DOMAIN tree.nodes] ==
            LET up == tree.nodes[n].parent
            IN  up # 0 /\ (tree.nodes[up].hidden \/ tree.nodes[up].styled \/ unseen[up])
    IN  UNION {{Draft("phone", "text_pattern", "unresolved", 0, <<w>>) :
                   w \in {v \in ToSet(text[n]) : IsPhone(v) /\ \A p \in ToSet(Elements(tree, n)) : v \notin ToSet(text[p.node])}} :
               n \in {k \in 2..Len(tree.nodes) : ~unseen[k]}}

DomParts(tree, text) ==
    LET shown == {n \in 2..Len(tree.nodes) : ~tree.nodes[n].hidden /\ ~tree.nodes[n].bad /\ tree.nodes[n].closed}
    IN  UNION {(IF tree.nodes[n].tag = "a" THEN {Emit(tree, text, n, "phone", "tel_link")} ELSE {})
                 \cup (IF tree.nodes[n].tag = "address" THEN {Emit(tree, text, n, "address", "dom_address")} ELSE {})
                 \cup Labelled(tree, text, n) : n \in shown}

DomCandidates(tree, patterns) ==
    LET parts == DomParts(tree, Texts(tree, FALSE))
    IN  [drafts |-> UNION {p.drafts : p \in parts} \cup (IF patterns THEN TextDrafts(tree, Texts(tree, TRUE)) ELSE {}),
         notes |-> UNION {p.notes : p \in parts}
                     \cup (IF tree.failed THEN {Diagnostic("html_parse_failed", FactFields, "extraction")} ELSE {})]

-----------------------------------------------------------------------------
(* JSON-LD: a record of a business owns its values unless a hint points elsewhere. *)

\* One record: the state of its @id and url, and its properties in order.
RecordOwner(record) ==
    IF record.id \in {"none", "own"} /\ record.url \in {"none", "own"} THEN "declared_entity" ELSE "unresolved"
HintNotes(record) ==
    {Diagnostic(IF h = "invalid" THEN "invalid_field_value" ELSE IF h = "external" THEN "external_entity_hint" ELSE "ownership_unresolved",
                {}, "ownership") : h \in {record.id, record.url} \ {"none", "own"}}

RecordCandidates(record, entity) ==
    IF ~record.business THEN [drafts |-> {}, notes |-> {}]
    ELSE [drafts |-> {Draft(p.field, "jsonld_property", RecordOwner(record), entity, p.words) :
                         p \in {q \in record.props : q.shape = "text" /\ ValidText(q.words, q.field)}},
          notes |-> HintNotes(record)
                      \cup {Diagnostic("invalid_field_value", {p.field}, "extraction") :
                              p \in {q \in record.props : q.shape = "text" /\ ~ValidText(q.words, q.field)}}
                      \cup {Diagnostic("unsupported_field_shape", {p.field}, "extraction") : p \in {q \in record.props : q.shape = "object"}}]

\* A block that cannot be read, or any record of which has a foreign context, gives nothing.
JsonldCandidates(tree, docs) ==
    LET Of(n) ==
            LET doc == docs[tree.nodes[n].doc]
            IN  IF tree.nodes[n].bad \/ ~tree.nodes[n].closed
                THEN [drafts |-> {}, notes |-> {Diagnostic("jsonld_parse_failed", FactFields, "extraction")}]
                ELSE IF doc.state # "read"
                THEN [drafts |-> {}, notes |-> {Diagnostic(doc.state, FactFields, "extraction")}]
                ELSE LET parts == {RecordCandidates(doc.records[i], i) : i \in DOMAIN doc.records}
                     IN  [drafts |-> UNION {p.drafts : p \in parts}, notes |-> UNION {p.notes : p \in parts}]
        all == {Of(tree.blocks[k]) : k \in DOMAIN tree.blocks}
    IN  [drafts |-> UNION {p.drafts : p \in all}, notes |-> UNION {p.notes : p \in all},
         documents |-> {n \in ToSet(tree.blocks) : ~tree.nodes[n].bad /\ tree.nodes[n].closed /\ docs[tree.nodes[n].doc].state = "read"}]

-----------------------------------------------------------------------------
(* The pages of a snapshot. *)

PageReason(page) ==
    IF ~page.checked THEN "page_not_checked"
    ELSE IF page.deep = "none" THEN "deep_snapshot_missing"
    ELSE IF page.deep = "error" THEN "http_error"
    ELSE IF page.deep = "other_type" THEN "content_unsupported"
    ELSE IF page.deep = "redirected" THEN "out_of_scope_redirect"
    ELSE IF page.deep = "blank" THEN "html_missing"
    ELSE "none"

\* Once a page has passed the limit of the site, no later page is parsed.
Exhausts(state, page) == state.exhausted \/ (page.deep # "none" /\ state.bytes + page.size > SiteBytes)

ResourceReason(page, exhausted) ==
    IF (page.deep # "none" /\ (exhausted \/ page.size > PageBytes)) \/ (page.deep = "none" /\ page.limited)
    THEN "resource_limit" ELSE PageReason(page)

Unavailable(page, code) ==
    [page |-> page, status |-> "not_checked", drafts |-> {}, notes |-> {Diagnostic(code, FactFields, "availability")}]

PageResult(page, tree, json, dom) ==
    LET drafts == json.drafts \cup dom.drafts
        notes == json.notes \cup dom.notes
                   \cup (IF \E d \in drafts : d.owner = "unresolved" THEN {Diagnostic("ownership_unresolved", {}, "ownership")} ELSE {})
    IN  [page |-> page, drafts |-> drafts, notes |-> notes,
         status |-> IF tree.failed /\ drafts = {} /\ json.documents = {} THEN "parse_failed"
                    ELSE IF \E d \in notes : d.scope = "extraction" THEN "partial" ELSE "parsed"]

ParsedTree(page, tree, docs, patterns) ==
    PageResult(page, tree, JsonldCandidates(tree, docs), DomCandidates(tree, patterns))
Parsed(page, docs, patterns) == ParsedTree(page, ParseTree(page.pieces), docs, patterns)

\* With resource limits a page that is too much is left out; without, everything fails.
ReadPage(limited, docs, patterns, state, page) ==
    LET exhausted == limited /\ Exhausts(state, page)
        reason == IF limited THEN ResourceReason(page, exhausted) ELSE PageReason(page)
        bytes == state.bytes + page.size
        nodes == state.nodes + Cardinality({k \in DOMAIN page.pieces : page.pieces[k].kind # "close"})
        over == page.size > PageBytes \/ bytes > SiteBytes \/ nodes > NodeLimit
    IN  IF state.error # "none" THEN state
        ELSE IF reason # "none" THEN [state EXCEPT !.exhausted = exhausted, !.pages = Append(@, Unavailable(page, reason))]
        ELSE IF over /\ ~limited THEN [state EXCEPT !.error = "LIMIT_EXCEEDED"]
        ELSE [state EXCEPT !.exhausted = exhausted, !.bytes = bytes, !.nodes = nodes,
                           !.pages = Append(@, IF over THEN Unavailable(page, "resource_limit") ELSE Parsed(page, docs, patterns))]

BuildFacts(source, pages, docs, patterns, limited) ==
    LET start == [bytes |-> 0, nodes |-> 0, exhausted |-> FALSE, error |-> "none", pages |-> <<>>]
        Step(state, page) == ReadPage(limited, docs, patterns, state, page)
    IN  FoldLeft(Step, start, IF source = "ready" THEN pages ELSE <<>>)

\* What a page says of a field.
FieldState(result, field) ==
    LET found == {d \in result.drafts : d.field = field}
        owners == {d.owner : d \in found}
        incomplete == result.status = "not_checked" \/ \E n \in result.notes : field \in n.fields /\ n.scope \in {"extraction", "availability"}
    IN  [seen |-> IF found # {} THEN "observed" ELSE IF incomplete THEN "not_checked" ELSE "not_observed",
         owner |-> IF owners = {} THEN "not_applicable" ELSE IF Cardinality(owners) = 1 THEN CHOOSE o \in owners : TRUE ELSE "mixed"]

-----------------------------------------------------------------------------
(* What is expected. *)

\* Which piece closes the element that piece s opens, in a page that is well formed.
Closing(pieces, s) ==
    CHOOSE e \in (s + 1)..Len(pieces) :
        LET Count(kind, to) == Cardinality({k \in s..to : pieces[k].kind = kind /\ pieces[k].tag \notin VoidTags})
        IN  Count("open", e) = Count("close", e) /\ \A k \in s..(e - 1) : Count("open", k) # Count("close", k)

Enclosing(pieces, i) ==
    {s \in 1..(i - 1) : pieces[s].kind = "open" /\ pieces[s].tag \notin VoidTags /\ Closing(pieces, s) > i}

\* A page that is well formed offers visible words only, and a malformed one says so.
OnlyVisibleWords(pieces, patterns) ==
    LET Shown(styles) ==
            {pieces[i].word : i \in {k \in DOMAIN pieces : pieces[k].kind = "text" /\
                \A s \in Enclosing(pieces, k) : pieces[s].hide \notin styles /\ pieces[s].tag \notin IgnoredTags}}
    IN  \A tree \in {ParseTree(pieces)} :
        /\ (\E n \in DOMAIN tree.nodes : tree.nodes[n].bad \/ ~tree.nodes[n].closed) => tree.failed
        /\ ~tree.failed => \A d \in DomCandidates(tree, patterns).drafts :
                ToSet(d.words) \subseteq Shown(IF d.kind = "text_pattern" THEN {"attr", "style"} ELSE {"attr"})
        /\ tree.failed => Diagnostic("html_parse_failed", FactFields, "extraction") \in DomCandidates(tree, patterns).notes

\* Limits are kept, every page has an entry, and a page that was not read never counts as
\* one without the field.
FactsAreHonest(facts, source, pages) ==
    /\ facts.error = "none" =>
        /\ Len(facts.pages) = IF source = "ready" THEN Len(pages) ELSE 0
        /\ \A i \in DOMAIN facts.pages : facts.pages[i].status = "not_checked" =>
               \A f \in FactFields : FieldState(facts.pages[i], f).seen = "not_checked"
        /\ \A i, j \in DOMAIN facts.pages :
               /\ i < j /\ pages[i].deep # "none" /\ facts.pages[j].status # "not_checked"
               => FoldLeft(LAMBDA sum, k : sum + IF facts.pages[k].status # "not_checked" THEN pages[k].size ELSE 0, 0, [k \in 1..(i - 1) |-> k])
                    + pages[i].size <= SiteBytes
=============================================================================
