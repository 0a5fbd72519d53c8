----------------------------- MODULE ConceptSeed -----------------------------
(***************************************************************************)
(* What one run of scripts/seed.py writes, as a program of statements.     *)
(* A domain file declares property schemas with their values and concepts  *)
(* with their edges; an overlay file holds one language's translations.    *)
(* Every graph statement commits by itself; translation rows wait in one   *)
(* transaction for the commit that ends their file.                        *)
(***************************************************************************)
EXTENDS ConceptGraph

Domain(f) == <<"Domain", f.domain>>
Schema(s) == <<"PropertySchema", s>>
Value(v) == <<"PropertyValue", v>>

Flat(seq, Op(_)) == FlattenSeq([i \in DOMAIN seq |-> Op(seq[i])])
Each(seq, Op(_)) == [i \in DOMAIN seq |-> Op(seq[i])]
Only(seq, Test(_)) == Flat(seq, LAMBDA x : IF Test(x) THEN <<x>> ELSE <<>>)

\* The lists that the files are made of.
IsList(s) == s \in Seq(ToSet(s))
IsDomainFile(f) ==
    /\ IsList(f.schemas) /\ \A s \in ToSet(f.schemas) : IsList(s.values)
    /\ IsList(f.concepts)
    /\ \A c \in ToSet(f.concepts) :
         IsList(c.relationships) /\ IsList(c.contains) /\ IsList(c.schemas)
IsEdition(edition) ==
    /\ IsList(edition.files) /\ edition.files # <<>>
    /\ \A f \in ToSet(edition.files) : IsDomainFile(f)
    /\ IsList(edition.overlays)
    /\ \A o \in ToSet(edition.overlays) : IsList(o.rows)

-----------------------------------------------------------------------------
(* What the files know, and the checks made of it before anything is written. *)

KnownConcepts(files) == UNION {{c.id : c \in ToSet(f.concepts)} : f \in ToSet(files)}
KnownSchemas(files) == UNION {{s.id : s \in ToSet(f.schemas)} : f \in ToSet(files)}
KnownValues(files) ==
    UNION {UNION {{v.id : v \in ToSet(s.values)} : s \in ToSet(f.schemas)} : f \in ToSet(files)}

\* Relationships, stages and schemas must resolve among the loaded files.
\* (What a value refers to is not asked; and as the loaded files are checked
\* before the graph is looked at, what an earlier run seeded does not count.)
ReferencesResolve(files) ==
    \A f \in ToSet(files) : \A c \in ToSet(f.concepts) :
        /\ \A r \in ToSet(c.relationships) : r.target \in KnownConcepts(files)
        /\ \A r \in ToSet(c.contains) : r.target \in KnownConcepts(files)
        /\ \A r \in ToSet(c.schemas) : r.schema \in KnownSchemas(files)

\* One field name, one type, whichever concepts declare it.
Captures(files) ==
    UNION {UNION {ToSet(c.captures) : c \in ToSet(f.concepts)} : f \in ToSet(files)}
CapturesAgree(files) ==
    \A x, y \in Captures(files) : x.field = y.field => x = y

OverlaysKnown(files, overlays) ==
    \A o \in ToSet(overlays) : \A row \in ToSet(o.rows) :
        row.node \in {Concept(c) : c \in KnownConcepts(files)}
                       \cup {Schema(s) : s \in KnownSchemas(files)}
                       \cup {Value(v) : v \in KnownValues(files)}

\* Without files there is no run.
Accepted(files, overlays) ==
    /\ files # <<>>
    /\ OverlaysKnown(files, overlays)
    /\ ReferencesResolve(files)
    /\ CapturesAgree(files)

Orphaned(g, files) == Concepts(g) \ KnownConcepts(files)

-----------------------------------------------------------------------------
(* Statements: a node or an edge to merge, or a commit, each with the        *)
(* translation rows upserted next to it; nobody sees a row before the commit. *)

NoRows == <<>>
Unordered == 0
Node(key, props, named) == [op |-> "node", key |-> key, props |-> props, rows |-> named]
Edge(type, from, to, props) ==
    [op |-> "edge", key |-> <<type, from, to>>, props |-> props, rows |-> NoRows]
Commit(named) == [op |-> "commit", key |-> <<>>, props |-> "none", rows |-> named]

\* Rows upserted one after the other, each a key and a name: of those with one
\* key the last is left.
Upserted(list) ==
    LET last(k) == CHOOSE i \in DOMAIN list :
                      list[i][1] = k /\ \A j \in DOMAIN list : list[j][1] = k => j <= i
    IN  [k \in {row[1] : row \in ToSet(list)} |-> list[last(k)][2]]
English(node, name) == <<<<node, "en">>, name>>

\* merge_property_schema, then upsert_property_schema_translation.
SchemaProgram(s) ==
    LET Upsert(v) == <<Node(Value(v.id), [name |-> v.name, references |-> v.references], NoRows),
                       Edge("HAS_VALUE", Schema(s.id), Value(v.id), v.order)>>
        named == <<English(Schema(s.id), s.name)>>
                   \o Each(s.values, LAMBDA v : English(Value(v.id), v.name))
    IN  <<Node(Schema(s.id), [name |-> s.name, cardinality |-> s.cardinality],
               Upserted(named))>>
          \o Flat(s.values, Upsert)

DomainNode(f) == Node(Domain(f), [name |-> f.domain], NoRows)

\* merge_concept, then upsert_concept_translation.
ConceptNode(c) ==
    Node(Concept(c.id),
         [name |-> c.name, domain |-> c.domain, stub |-> c.stub, taggable |-> c.taggable],
         Upserted(<<English(Concept(c.id), c.name)>>))

BelongsTo(f) ==
    Each(f.concepts, LAMBDA c : Edge("BELONGS_TO", Concept(c.id), Domain(f), Unordered))
TypedEdges(f) ==
    Flat(f.concepts, LAMBDA c :
        Each(c.relationships, LAMBDA r : Edge(r.type, Concept(c.id), Concept(r.target), Unordered)))
ContainsEdges(f) ==
    Flat(f.concepts, LAMBDA c :
        Each(c.contains, LAMBDA r : Edge("CONTAINS", Concept(c.id), Concept(r.target), r.order)))
SchemaEdges(f) ==
    Flat(f.concepts, LAMBDA c :
        Each(c.schemas, LAMBDA r :
            Edge("HAS_PROPERTY_SCHEMA", Concept(c.id), Schema(r.schema), r.order)))
ValueReferences(f) ==
    Flat(f.schemas, LAMBDA s :
        Each(Only(s.values, LAMBDA v : v.references # "none"),
             LAMBDA v : Edge("VALUE_REFERENCES", Value(v.id), Concept(v.references), Unordered)))

\* Fault: a concept's edges are written with it.
EdgesFirst(f) ==
    Flat(f.schemas, SchemaProgram) \o <<DomainNode(f)>>
      \o TypedEdges(f) \o Each(f.concepts, ConceptNode) \o BelongsTo(f)
      \o ContainsEdges(f) \o SchemaEdges(f) \o ValueReferences(f) \o <<Commit(NoRows)>>

\* _seed_domain and the commit after it.
DomainProgram(f) ==
    Flat(f.schemas, SchemaProgram) \o <<DomainNode(f)>>
      \o Each(f.concepts, ConceptNode) \o BelongsTo(f)
      \o TypedEdges(f) \o ContainsEdges(f) \o SchemaEdges(f) \o ValueReferences(f)
      \o <<Commit(NoRows)>>

\* upsert_translations of one language, and the commit after it.
OverlayProgram(o) ==
    <<Commit(Upserted(Each(o.rows, LAMBDA row : <<<<row.node, o.language>>, row.name>>)))>>

\* A run over all files of an edition of the repository, or over one domain's;
\* only the first applies the overlays.
AllDomains == "all"
Files(edition, args) ==
    IF args = AllDomains THEN edition.files
    ELSE Only(edition.files, LAMBDA f : f.domain = args)
Overlays(edition, args) == IF args = AllDomains THEN edition.overlays ELSE <<>>
Program(edition, args) ==
    Flat(Files(edition, args), DomainProgram) \o Flat(Overlays(edition, args), OverlayProgram)

-----------------------------------------------------------------------------
(* What the files declare, whatever order it is written in.                 *)

DeclaredNodes(f) ==
    {s \in ToSet(Flat(f.schemas, SchemaProgram)) : s.op = "node"}
      \cup {DomainNode(f)} \cup ToSet(Each(f.concepts, ConceptNode))
DeclaredEdges(f) ==
    {s \in ToSet(Flat(f.schemas, SchemaProgram)) : s.op = "edge"}
      \cup ToSet(BelongsTo(f) \o TypedEdges(f) \o ContainsEdges(f) \o SchemaEdges(f)
                   \o ValueReferences(f))
\* Edges between things declared up to their own file, in the order of seeding.
BackwardEdges(files) ==
    UNION {{e \in DeclaredEdges(files[i]) :
              {e.key[2], e.key[3]} \subseteq
                 {n.key : n \in UNION {DeclaredNodes(files[j]) : j \in 1..i}}} : i \in DOMAIN files}
=============================================================================
