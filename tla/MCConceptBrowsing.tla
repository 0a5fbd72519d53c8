-------------------------- MODULE MCConceptBrowsing --------------------------
(***************************************************************************)
(* Two editions of a small repository for TLC: cadences before harmonic    *)
(* functions, a concept with two stages, under it a stub and under the stub *)
(* a subtype, a schema whose values refer to a concept of the same file and *)
(* to one of the later file, and a stage from there.                        *)
(***************************************************************************)
EXTENDS ConceptBrowsing

C(id, name) ==
    [id |-> id, name |-> name, domain |-> "cadences", stub |-> FALSE, taggable |-> TRUE,
     relationships |-> <<>>, contains |-> <<>>, schemas |-> <<>>, captures |-> <<>>]
Subtype(id, name, of) == [C(id, name) EXCEPT !.relationships = <<[type |-> "IS_SUBTYPE_OF", target |-> of]>>]
Gate == [field |-> "harmony", type |-> "harmony_gate", required |-> TRUE]
Stage(id, order) == [target |-> id, order |-> order]
Easier(c, id, harder) ==
    IF c.id = id
    THEN [c EXCEPT !.relationships = Append(@, [type |-> "PREREQUISITE_FOR", target |-> harder])]
    ELSE c

Cadence(stages) ==
    [C("Cadence", {"cadence"}) EXCEPT !.taggable = FALSE, !.contains = stages,
                                      !.schemas = <<[schema |-> "bass", order |-> 1]>>,
                                      !.captures = <<Gate>>]
Initial == C("Initial", {"initial", "tonic"})
Bass == [id |-> "bass", name |-> {"bass"}, cardinality |-> "ONE_OF",
         values |-> <<[id |-> "one", name |-> {"tonic"}, references |-> "Tonic", order |-> 1],
                      [id |-> "two", name |-> {"full"}, references |-> "Full", order |-> 2]>>]
Authentic == [Subtype("Authentic", {"authentic"}, "Cadence") EXCEPT !.stub = TRUE]
Tonic(stub) == [C("Tonic", {"tonic"}) EXCEPT !.domain = "functions", !.stub = stub]

Repository(stages, full, stub, spanish, easier, harder) ==
    [files |-> <<[domain |-> "cadences", schemas |-> <<Bass>>,
                  concepts |-> <<Cadence(stages), Authentic,
                                 Easier(Subtype("Full", full, "Authentic"), easier, harder),
                                 Easier(Initial, easier, harder)>>],
                 [domain |-> "functions", schemas |-> <<>>, concepts |-> <<Tonic(stub)>>]>>,
     overlays |-> <<[language |-> "es", rows |-> spanish]>>]

\* The second edition renames the subtype, turns the stages round, defines the
\* stub and has it that the subtype comes before its stage; its Spanish names
\* whatever a page may name, but for the concept that the first one names.
MCEditions ==
    <<Repository(<<Stage("Initial", 1), Stage("Tonic", 2)>>, {"full"}, TRUE,
                 <<[node |-> Concept("Cadence"), name |-> {"cadencia"}],
                   [node |-> Concept("Tonic"), name |-> {"tonica"}]>>, "Initial", "Full"),
      Repository(<<Stage("Tonic", 1), Stage("Initial", 2)>>, {"full", "perfect"}, FALSE,
                 <<[node |-> Concept("Cadence"), name |-> {"cadencia"}],
                   [node |-> Concept("Authentic"), name |-> {"autentica"}],
                   [node |-> Concept("Full"), name |-> {"perfecta"}],
                   [node |-> Concept("Initial"), name |-> {"inicial"}],
                   [node |-> Schema("bass"), name |-> {"bajo"}],
                   [node |-> Value("one"), name |-> {"tonica"}]>>, "Full", "Initial")>>

Ask(task, about, lang) == [task |-> task, about |-> about, lang |-> lang]
MCRequests ==
    {Ask("ids", "Cadence", "es"), Ask("tree", "Cadence", "es"),
     Ask("detail", "Full", "es"), Ask("detail", "Authentic", "es"), Ask("index", "none", "es"),
     Ask("schemas", "Cadence", "es"), Ask("search", {"tonic"}, "en"),
     Ask("search", {"tonic", "full", "cadencia"}, "es")}

\* What the theorem on arrival assumes of the files.
ASSUME FilesInOrder == \A e \in DOMAIN Editions : FilesAgree(e) /\ EndsDeclared(e)
=============================================================================
