---------------------------- MODULE ConceptGraph ----------------------------
(***************************************************************************)
(* The knowledge graph and the questions the code asks of it               *)
(* (backend/graph/queries).  A graph is a record of two functions: nodes   *)
(* from <<label, id>> to properties, and edges from <<type, node, node>>   *)
(* to properties; MERGE keeps both keyed.  A name is the set of its folded *)
(* words, which is all that search and translation tell apart.  Ordering   *)
(* of rows for display, aliases and definitions' prose are left out.       *)
(***************************************************************************)
EXTENDS Integers, Sequences, FiniteSets, FiniteSetsExt, SequencesExt

EmptyGraph == [nodes |-> <<>>, edges |-> <<>>]

Concept(c) == <<"Concept", c>>

\* f with v for k, and f where g has nothing to say.
Put(f, k, v) == [x \in DOMAIN f \cup {k} |-> IF x = k THEN v ELSE f[x]]
Over(g, f) == [x \in DOMAIN f \cup DOMAIN g |-> IF x \in DOMAIN g THEN g[x] ELSE f[x]]

(* MERGE of a node: created, or found by its id and overwritten. *)
MergeNode(g, node, props) == [g EXCEPT !.nodes = Put(@, node, props)]

(* Fault: an existing edge keeps the properties it was created with. *)
MergeEdgeOnCreate(g, edge, props) ==
    IF {edge[2], edge[3]} \subseteq DOMAIN g.nodes
    THEN [g EXCEPT !.edges = Over(@, Put(@, edge, props))]
    ELSE g

(* Fault: an edge is written whether or not its ends are there. *)
MergeEdgeBlind(g, edge, props) == [g EXCEPT !.edges = Put(@, edge, props)]

(* MATCH, MATCH, MERGE of an edge: without both ends nothing is written and nothing fails. *)
MergeEdge(g, edge, props) ==
    IF {edge[2], edge[3]} \subseteq DOMAIN g.nodes
    THEN [g EXCEPT !.edges = Put(@, edge, props)]
    ELSE g

Ids(g, label) == {n[2] : n \in {m \in DOMAIN g.nodes : m[1] = label}}
Concepts(g) == Ids(g, "Concept")
Props(g, c) == g.nodes[Concept(c)]
NameOf(g, c) == Props(g, c).name
Edges(g, type) == {e \in DOMAIN g.edges : e[1] = type}
Links(g, type) == {<<e[2][2], e[3][2]>> : e \in Edges(g, type)}
Targets(g, type, c) == {p[2] : p \in {q \in Links(g, type) : q[1] = c}}
Sources(g, type, c) == {p[1] : p \in {q \in Links(g, type) : q[2] = c}}

(* -[:TYPE*0..]-> : what a set of ids reaches. *)
Reach(links, from) ==
    LET hop[i \in 0..Cardinality(links)] ==
            IF i = 0 THEN from
            ELSE LET near == hop[i - 1]
                 IN  near \cup {p[2] : p \in {q \in links : q[1] \in near}}
    IN  hop[Cardinality(links)]
Ancestors(g, c) == Reach(Links(g, "IS_SUBTYPE_OF"), {c})
Descendants(g, c) ==
    {d \in Concepts(g) : c \in Ancestors(g, d)}

-----------------------------------------------------------------------------
(* Hierarchy paths: the longest trail of IS_SUBTYPE_OF edges to a concept   *)
(* that has no parent.  A concept on a cycle with no way out has none, and  *)
(* every query that asks for the path then drops its row.  Of several trails *)
(* of the longest length the database gives any; the model takes one.       *)

Trails(g, c) ==
    LET links == Links(g, "IS_SUBTYPE_OF")
        Walked(t) == {<<t[i], t[i + 1]>> : i \in 1..(Len(t) - 1)}
        Longer(t) == {Append(t, p[2]) : p \in {q \in links \ Walked(t) : q[1] = Last(t)}}
        upTo[n \in 0..Cardinality(links)] ==
            IF n = 0 THEN {<<c>>}
            ELSE LET shorter == upTo[n - 1]
                 IN  shorter \cup UNION {Longer(t) : t \in shorter}
    IN  {t \in upTo[Cardinality(links)] : Targets(g, "IS_SUBTYPE_OF", Last(t)) = {}}
Placed(g, c) == Trails(g, c) # {}
HierarchyPath(g, c) ==
    LET trails == Trails(g, c)
        t == CHOOSE x \in trails : \A y \in trails : Len(y) <= Len(x)
    IN  [i \in 1..Len(t) |-> <<t[Len(t) + 1 - i], NameOf(g, t[Len(t) + 1 - i])>>]

(* The browsable roots: neither a subtype nor a stage of anything, and no stub. *)
DomainRoots(g) ==
    {c \in Concepts(g) :
        /\ Targets(g, "IS_SUBTYPE_OF", c) = {}
        /\ Sources(g, "CONTAINS", c) = {}
        /\ ~Props(g, c).stub}

(* The ids a browse by concept stands for. *)
SubtypeIds(g, root) ==
    IF root \in Concepts(g) THEN {d \in Descendants(g, root) : ~Props(g, d).stub} ELSE {}

(* The rows of the tree navigator: one per node and parent inside the subtree. *)
Subtree(g, root) ==
    LET nodes == SubtypeIds(g, root)
        Parents(n) == Targets(g, "IS_SUBTYPE_OF", n) \cap nodes
        linked == {x \in {y \in nodes : Placed(g, y)} \X (nodes \cup {"none"}) :
                      IF Parents(x[1]) = {} THEN x[2] = "none" ELSE x[2] \in Parents(x[1])}
    IN  {[id |-> x[1], name |-> NameOf(g, x[1]), parent |-> x[2],
          path |-> HierarchyPath(g, x[1])] : x \in linked}

-----------------------------------------------------------------------------
(* What the pages name.  A mention is a node with the name the graph gave   *)
(* it and the place on the page it stands in.                               *)

Mention(g, place, node) ==
    [place |-> place, node |-> node, name |-> g.nodes[node].name]
Mentions(g, place, cs) == {Mention(g, place, Concept(c)) : c \in cs}

PathMentions(path) ==
    {[place |-> "path", node |-> Concept(path[i][1]), name |-> path[i][2]] : i \in DOMAIN path}
RowMentions(rows) ==
    UNION {{[place |-> "row", node |-> Concept(r.id), name |-> r.name]}
             \cup PathMentions(r.path) : r \in rows}

(* get_concept_detail: the concept, its path, one parent, all children. *)
DetailFound(g, c) == c \in Concepts(g) /\ Placed(g, c)
Detail(g, c) ==
    LET parents == Targets(g, "IS_SUBTYPE_OF", c)
    IN  Mentions(g, "self", {c})
          \cup PathMentions(HierarchyPath(g, c))
          \cup Mentions(g, "parent", IF parents = {} THEN {} ELSE {CHOOSE p \in parents : TRUE})
          \cup Mentions(g, "child", Sources(g, "IS_SUBTYPE_OF", c))

DisplayRelationshipTypes ==
    {"PRECEDES", "FOLLOWS", "RESOLVES_TO", "CONTRASTS_WITH",
     "IS_EQUIVALENT_TO", "PREREQUISITE_FOR", "CONTAINS"}
Relationships(g, c) ==
    Mentions(g, "target",
        UNION {Targets(g, t, c) \cup Sources(g, t, c) : t \in DisplayRelationshipTypes})

(* get_concept_property_schemas: own and inherited, with values and what they refer to. *)
InheritedSchemas(g, c) ==
    UNION {Targets(g, "HAS_PROPERTY_SCHEMA", a) : a \in Ancestors(g, c)}
PropertySchemas(g, c) ==
    LET schemas == InheritedSchemas(g, c)
        values == UNION {Targets(g, "HAS_VALUE", s) : s \in schemas}
        refs == UNION {Targets(g, "VALUE_REFERENCES", v) : v \in values}
    IN  {Mention(g, "schema", <<"PropertySchema", s>>) : s \in schemas}
          \cup {Mention(g, "value", <<"PropertyValue", v>>) : v \in values}
          \cup Mentions(g, "reference", refs)

(* The stages of a concept, its ancestors' among them, each with its order. *)
ContainsStages(g, c) ==
    {<<e[3][2], g.edges[e]>> :
        e \in {x \in Edges(g, "CONTAINS") : x[2][2] \in Ancestors(g, c)}}
StageMentions(g, c) == Mentions(g, "stage", {s[1] : s \in ContainsStages(g, c)})

(* Refinement is offered when the children that are no stubs differ in their stages. *)
RefinementChildren(g, c) == {x \in Sources(g, "IS_SUBTYPE_OF", c) : ~Props(g, x).stub}
TypeRefinement(g, c) ==
    LET children == RefinementChildren(g, c)
    IN  IF \E x, y \in children : ContainsStages(g, x) # ContainsStages(g, y)
        THEN children
        ELSE {}

-----------------------------------------------------------------------------
(* Search: whole words, and only what may be tagged. *)

Offered(g, domain) ==
    {c \in Concepts(g) : /\ ~Props(g, c).stub
                         /\ Props(g, c).taggable
                         /\ domain \in {"any", Props(g, c).domain}}
SearchConceptIds(g, q, domain) == {c \in Offered(g, domain) : NameOf(g, c) \cap q # {}}

(* Fault: the rows of the ids that the overlay matched are not filtered again. *)
SearchRowsUnfiltered(g, ids, domain) == {c \in ids \cap Concepts(g) : Placed(g, c)}

ConceptsForSearch(g, ids, domain) == {c \in ids \cap Offered(g, domain) : Placed(g, c)}
SearchMentions(g, found) ==
    Mentions(g, "row", found)
      \cup UNION {PathMentions(HierarchyPath(g, c)) : c \in found}

-----------------------------------------------------------------------------
(* scripts/validate_graph.py: what each check reports. *)

Isolated(g) == {c \in Concepts(g) : \A e \in DOMAIN g.edges : e[2] # Concept(c)}
DanglingReferences(g) ==
    {v \in Ids(g, "PropertyValue") :
        g.nodes[<<"PropertyValue", v>>].references \notin Concepts(g) \cup {"none"}}
SchemasWithoutValues(g) ==
    {s \in Ids(g, "PropertySchema") :
        /\ \A e \in Edges(g, "HAS_VALUE") : e[2] # <<"PropertySchema", s>>
        /\ g.nodes[<<"PropertySchema", s>>].cardinality # "BOOL"}
DuplicateOrders(g) ==
    {c \in Concepts(g) :
        \E e, f \in Edges(g, "CONTAINS") :
            e # f /\ e[2] = Concept(c) /\ f[2] = e[2] /\ g.edges[e] = g.edges[f]}
PrerequisiteCycles(g) ==
    LET links == Links(g, "PREREQUISITE_FOR")
    IN  {c \in Concepts(g) : c \in Reach(links, Targets(g, "PREREQUISITE_FOR", c))}
Reports(g) ==
    Isolated(g) \cup DanglingReferences(g) \cup SchemasWithoutValues(g)
      \cup DuplicateOrders(g) \cup PrerequisiteCycles(g)
=============================================================================
