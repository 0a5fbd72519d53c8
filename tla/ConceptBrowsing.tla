--------------------------- MODULE ConceptBrowsing ---------------------------
(***************************************************************************)
(* The knowledge graph while it is seeded and read: the seed script runs   *)
(* statement by statement beside requests that read the graph, overlay the *)
(* translations and, for trees and for the ids a browse stands for, go     *)
(* through the Redis cache.  A run may fail at any statement; Redis may    *)
(* fail at any call; an entry expires an hour after it was stored.         *)
(***************************************************************************)
EXTENDS ConceptSeed

CONSTANTS
    Editions,   \* a sequence of states of the repository's seed files
    Starts,     \* where the system starts: "new", "seeded" or either
    Runs,       \* the arguments a run is started with: "all" or a domain
    Readers,    \* concurrent requests
    Requests,   \* what is asked for: [task, about, lang]; a search is about a set of words
    MaxRuns     \* bound: runs of the seed script

Tasks == {"tree", "ids", "detail", "index", "schemas", "search"}

ASSUME BrowsingAssumption ==
    /\ \A q \in Requests : q.task \in Tasks
    /\ MaxRuns \in Nat

\* What a system has been seeded with had passed the checks.
ASSUME EditionsAssumption ==
    /\ IsList(Editions) /\ Editions # <<>>
    /\ \A e \in ToSet(Editions) : IsEdition(e)
    /\ AllDomains \in Runs
    /\ "seeded" \in Starts => Accepted(Editions[1].files, Editions[1].overlays)

VARIABLES
    graph,    \* Neo4j
    rows,     \* the translation tables, <<node, language>> to name
    open,     \* rows of the seeder's open transaction
    seeder,   \* the run in progress
    runs,     \* bound: runs started
    cache,    \* Redis, key to value; an entry remembers whether it was filled late
    reader,   \* the requests in progress
    done,     \* history: the last edition seeded in full, and how often in a row
    settled,  \* history: that was the last thing written
    cleared   \* history: and it cleared the cache

seeding == <<graph, rows, open, seeder, runs, done, settled, cleared>>
vars == <<graph, rows, open, seeder, runs, cache, reader, done, settled, cleared>>

Programs == [e \in DOMAIN Editions |-> [a \in Runs |-> Program(Editions[e], a)]]

Asleep == [at |-> "idle", edition |-> 1, args |-> AllDomains, next |-> 1]
Idle == [at |-> "idle", task |-> "none", about |-> "none", lang |-> "en",
         got |-> {}, held |-> {}, late |-> FALSE]

Applied(g, s) ==
    CASE s.op = "node" -> MergeNode(g, s.key, s.props)
      [] s.op = "edge" -> MergeEdge(g, s.key, s.props)
      [] OTHER -> g

Nothing == [graph |-> EmptyGraph, rows |-> NoRows]

\* What a run without a mishap leaves behind: the graph, and the rows.
Seeded(e) ==
    LET program == Program(Editions[e], AllDomains)
        after[n \in 0..Len(program)] ==
            IF n = 0 THEN Nothing
            ELSE LET before == after[n - 1]
                 IN  [graph |-> Applied(before.graph, program[n]),
                      rows |-> Over(program[n].rows, before.rows)]
    IN  after[Len(program)]

\* A new installation, or one that has been seeded once with the first edition.
Init ==
    /\ \/ /\ "new" \in Starts
          /\ graph = Nothing.graph /\ rows = Nothing.rows
          /\ done = [edition |-> 1, times |-> 0]
          /\ settled = FALSE /\ cleared = FALSE
       \/ /\ "seeded" \in Starts
          /\ graph = Seeded(1).graph /\ rows = Seeded(1).rows
          /\ done = [edition |-> 1, times |-> 1]
          /\ settled = TRUE /\ cleared = TRUE
    /\ open = NoRows /\ seeder = Asleep /\ runs = 0
    /\ cache = <<>>
    /\ reader = [r \in Readers |-> Idle]

-----------------------------------------------------------------------------
(* The seed script.                                                         *)

\* A run whose files pass the checks; it asks before it leaves concepts orphaned.
BeginRun(e, a) ==
    /\ seeder.at = "idle" /\ runs < MaxRuns
    /\ Accepted(Files(Editions[e], a), Overlays(Editions[e], a))
    /\ seeder' = [at |-> IF Orphaned(graph, Files(Editions[e], a)) = {} THEN "write" ELSE "ask",
                  edition |-> e, args |-> a, next |-> 1]
    /\ runs' = runs + 1
    /\ UNCHANGED <<graph, rows, open, cache, reader, done, settled, cleared>>

GoOn == seeder.at = "ask" /\ seeder' = [seeder EXCEPT !.at = "write"]
GiveUp == seeder.at = "ask" /\ seeder' = Asleep
Answer ==
    /\ GoOn \/ GiveUp
    /\ UNCHANGED <<graph, rows, open, runs, cache, reader, done, settled, cleared>>

Statement == Programs[seeder.edition][seeder.args][seeder.next]
Finishing == seeder.next = Len(Programs[seeder.edition][seeder.args])

\* A request that has read anything is late once something is written.
First == {"idle", "lookup", "read", "roots", "detail", "schemas", "graph ids", "english"}
Overtake ==
    reader' = [r \in Readers |->
                [reader[r] EXCEPT !.late = @ \/ reader[r].at \notin First]]

Record(s) == IF s.op = "commit"
             THEN rows' = Over(s.rows, Over(open, rows)) /\ open' = NoRows
             ELSE open' = Over(s.rows, open) /\ UNCHANGED rows

Write ==
    /\ seeder.at = "write"
    /\ graph' = Applied(graph, Statement)
    /\ Record(Statement)
    /\ seeder' = IF Finishing THEN [seeder EXCEPT !.at = "clear ids"]
                              ELSE [seeder EXCEPT !.next = @ + 1]
    /\ done' = IF Finishing /\ seeder.args = AllDomains
               THEN [edition |-> seeder.edition,
                     times |-> IF done.times > 0 /\ done.edition = seeder.edition THEN 2 ELSE 1]
               ELSE done
    /\ settled' = (Finishing /\ seeder.args = AllDomains) /\ cleared' = FALSE
    /\ Overtake
    /\ UNCHANGED <<runs, cache>>

\* The rows are rolled back, the graph keeps what it got, the cache is left alone.
Fail ==
    /\ seeder.at = "write"
    /\ open' = NoRows
    /\ seeder' = Asleep
    /\ UNCHANGED <<graph, rows, runs, cache, reader, done, settled, cleared>>

Without(kind) == [k \in {x \in DOMAIN cache : x.kind # kind} |-> cache[k]]
ClearIds ==
    /\ seeder.at = "clear ids"
    /\ cache' = Without("ids")
    /\ seeder' = [seeder EXCEPT !.at = "clear trees"]
    /\ UNCHANGED <<graph, rows, open, runs, reader, done, settled, cleared>>
\* Fault: the pattern of the previous version of the keys.
ClearNothing ==
    /\ seeder.at = "clear trees"
    /\ seeder' = Asleep
    /\ cleared' = TRUE
    /\ UNCHANGED <<graph, rows, open, runs, cache, reader, done, settled>>
ClearTrees ==
    /\ seeder.at = "clear trees"
    /\ cache' = Without("tree")
    /\ seeder' = Asleep
    /\ cleared' = TRUE
    /\ UNCHANGED <<graph, rows, open, runs, reader, done, settled>>
\* Redis cannot be reached: a warning, and the run ends well.
ClearFails ==
    /\ seeder.at \in {"clear ids", "clear trees"}
    /\ seeder' = Asleep
    /\ UNCHANGED <<graph, rows, open, runs, cache, reader, done, settled, cleared>>

Seed ==
    \/ \E e \in DOMAIN Editions, a \in Runs : BeginRun(e, a)
    \/ Answer \/ Write \/ Fail \/ ClearIds \/ ClearTrees \/ ClearFails

-----------------------------------------------------------------------------
(* Overlaying a locale: of the nodes asked for, those that have a row show   *)
(* it, the others their English name.                                       *)

\* Fault: the concepts of the hierarchy paths are not asked for.
SearchIdsOfRows == {"row"}
\* Every handler makes its own list of ids: the places of its page whose nodes
\* it asks the translations for, field by field of the rows it has read.
SearchIds == {"row", "path"}
TreeIds == {"row", "path"}
DetailIds == {"self", "path", "child", "target", "parent"}
IndexIds == {"row", "path"}
SchemaIds == {"schema", "value", "reference", "stage", "child"}
IdList(task) ==
    CASE task = "search" -> SearchIds
      [] task = "tree" -> TreeIds
      [] task = "detail" -> DetailIds
      [] task = "index" -> IndexIds
      [] task = "schemas" -> SchemaIds
      [] OTHER -> {}
Asked(task, got) == {m.node : m \in {x \in got : x.place \in IdList(task)}}

HasRow(rs, lang, node) == lang # "en" /\ <<node, lang>> \in DOMAIN rs
Shown(rs, lang, asked, node, name) ==
    IF node \in asked /\ HasRow(rs, lang, node) THEN rs[<<node, lang>>] ELSE name

\* What a page still shows in English although its locale has a row for it.
Untranslated(rs, lang, task, got) ==
    {m \in got : /\ HasRow(rs, lang, m.node)
                 /\ Shown(rs, lang, Asked(task, got), m.node, m.name) # rs[<<m.node, lang>>]}
LocaliseTree(rs, lang, tree) ==
    LET Name(node, name) == Shown(rs, lang, Asked("tree", RowMentions(tree)), node, name)
    IN  {[row EXCEPT !.name = Name(Concept(row.id), @),
                     !.path = [i \in DOMAIN @ |-> Name(Concept(@[i][1]), @[i][2])]] : row \in tree}

\* A name or alias of the locale shares a word with the query.
OverlayMatches(rs, q, lang) ==
    {k[1][2] : k \in {x \in DOMAIN rs : x[1][1] = "Concept" /\ x[2] = lang /\ rs[x] \cap q # {}}}

-----------------------------------------------------------------------------
(* Requests.  Each action is one statement to a store.                      *)

Key(task, about, lang) ==
    [kind |-> task, about |-> about, lang |-> IF task = "tree" THEN lang ELSE "any"]
Keys == {Key(q.task, q.about, q.lang) : q \in {x \in Requests : x.task \in {"ids", "tree"}}}
KeyOf(r) == Key(reader[r].task, reader[r].about, reader[r].lang)

FirstStep(task, lang) ==
    CASE task \in {"ids", "tree"} -> "lookup"
      [] task = "index" -> "roots"
      [] task = "search" -> IF lang = "en" THEN "english" ELSE "graph ids"
      [] OTHER -> task

Request(r) ==
    /\ reader[r].at = "idle"
    /\ \E q \in Requests :
         reader' = [reader EXCEPT ![r] =
             [Idle EXCEPT !.at = FirstStep(q.task, q.lang),
                          !.task = q.task, !.about = q.about, !.lang = q.lang]]
    /\ UNCHANGED <<cache, seeding>>

At(r, step) == reader[r].at = step
Become(r, x) == reader' = [reader EXCEPT ![r] = x] /\ UNCHANGED <<cache, seeding>>
Gather(r, got, held, step) ==
    Become(r, [reader[r] EXCEPT !.got = @ \cup got, !.held = held, !.at = step])

\* A hit is answered from the cache; a miss, and a failing get, go on to the graph.
Lookup(r) ==
    /\ At(r, "lookup")
    /\ \/ KeyOf(r) \in DOMAIN cache /\ Become(r, Idle)
       \/ Become(r, [reader[r] EXCEPT !.at = "read"])

ReadSubtypeIds(r) ==
    /\ At(r, "read") /\ reader[r].task = "ids"
    /\ Gather(r, {}, SubtypeIds(graph, reader[r].about), "store")
ReadSubtree(r) ==
    /\ At(r, "read") /\ reader[r].task = "tree"
    /\ LET tree == Subtree(graph, reader[r].about)
       IN  IF tree = {} THEN Become(r, Idle)
                        ELSE Gather(r, RowMentions(tree), tree, "overlay")

\* get_public_index: the roots, then each root's subtree.
ReadRoots(r) ==
    /\ At(r, "roots")
    /\ Gather(r, {}, DomainRoots(graph), "forest")
ReadForest(r) ==
    /\ At(r, "forest")
    /\ IF reader[r].held = {}
       THEN Gather(r, {}, {}, "overlay")
       ELSE \E root \in reader[r].held :
              Gather(r, RowMentions(Subtree(graph, root)), reader[r].held \ {root}, "forest")

ReadDetail(r) ==
    /\ At(r, "detail")
    /\ IF DetailFound(graph, reader[r].about)
       THEN Gather(r, Detail(graph, reader[r].about), {}, "relationships")
       ELSE Become(r, Idle)
ReadRelationships(r) ==
    /\ At(r, "relationships")
    /\ Gather(r, Relationships(graph, reader[r].about), {}, "overlay")

\* get_schema_tree; as nothing is ever removed, the existence check goes with the first query.
ReadSchemas(r) ==
    /\ At(r, "schemas")
    /\ IF reader[r].about \in Concepts(graph)
       THEN Gather(r, PropertySchemas(graph, reader[r].about), {}, "stages")
       ELSE Become(r, Idle)
ReadStages(r) ==
    /\ At(r, "stages")
    /\ Gather(r, StageMentions(graph, reader[r].about), {}, "refinement")
ReadRefinement(r) ==
    /\ At(r, "refinement")
    /\ Gather(r, Mentions(graph, "child", TypeRefinement(graph, reader[r].about)), {}, "overlay")

SearchEnglish(r) ==
    /\ At(r, "english")
    /\ LET found == ConceptsForSearch(graph, SearchConceptIds(graph, reader[r].about, "any"), "any")
       IN  Gather(r, {}, found, "served")
\* The merged search: ids of both stores, their rows, then the names.
SearchGraph(r) ==
    /\ At(r, "graph ids")
    /\ Gather(r, {}, SearchConceptIds(graph, reader[r].about, "any"), "overlay ids")
SearchOverlay(r) ==
    /\ At(r, "overlay ids")
    /\ Gather(r, {}, reader[r].held \cup OverlayMatches(rows, reader[r].about, reader[r].lang),
              "rows")
SearchRows(r) ==
    /\ At(r, "rows")
    /\ LET found == ConceptsForSearch(graph, reader[r].held, "any")
       IN  Gather(r, SearchMentions(graph, found), found, "overlay")

\* One read of the translations for everything the page names (of the schema
\* page's three tables one after the other; taken as one); of a page only what
\* it fails to translate is kept.
Overlay(r) ==
    /\ At(r, "overlay")
    /\ Become(r, [reader[r] EXCEPT
          !.got = Untranslated(rows, reader[r].lang, reader[r].task, @),
          !.held = IF reader[r].task = "tree" THEN LocaliseTree(rows, reader[r].lang, @) ELSE @,
          !.at = IF reader[r].task = "tree" THEN "store" ELSE "served"])

Store(r) ==
    /\ At(r, "store")
    /\ \/ cache' = Put(cache, KeyOf(r), [value |-> reader[r].held, late |-> reader[r].late])
       \/ UNCHANGED cache
    /\ reader' = [reader EXCEPT ![r] = Idle]
    /\ UNCHANGED seeding
Leave(r) == At(r, "served") /\ Become(r, Idle)

Proceed(r) ==
    \/ Lookup(r) \/ ReadSubtypeIds(r) \/ ReadSubtree(r) \/ ReadRoots(r) \/ ReadForest(r)
    \/ ReadDetail(r) \/ ReadRelationships(r)
    \/ ReadSchemas(r) \/ ReadStages(r) \/ ReadRefinement(r)
    \/ SearchEnglish(r) \/ SearchGraph(r) \/ SearchOverlay(r) \/ SearchRows(r)
    \/ Overlay(r) \/ Store(r) \/ Leave(r)

\* Fault: trees are stored without a time to live.
ExpireIds(k) ==
    /\ k \in DOMAIN cache /\ k.kind = "ids"
    /\ cache' = [x \in DOMAIN cache \ {k} |-> cache[x]]
    /\ UNCHANGED <<reader, seeding>>
Expire(k) ==
    /\ k \in DOMAIN cache
    /\ cache' = [x \in DOMAIN cache \ {k} |-> cache[x]]
    /\ UNCHANGED <<reader, seeding>>

Next ==
    \/ Seed
    \/ \E r \in Readers : Request(r) \/ Proceed(r)
    \/ \E k \in Keys : Expire(k)

Spec == Init /\ [][Next]_vars
\* A request runs to its end, and a stored key has its hour.
FairSpec ==
    /\ Spec
    /\ \A r \in Readers : WF_vars(Proceed(r))
    /\ \A k \in Keys : WF_vars(Expire(k))

-----------------------------------------------------------------------------
(* Properties.                                                              *)

Declared == [e \in DOMAIN Editions |->
    [nodes |-> UNION {DeclaredNodes(f) : f \in ToSet(Editions[e].files)},
     edges |-> UNION {DeclaredEdges(f) : f \in ToSet(Editions[e].files)},
     backward |-> BackwardEdges(Editions[e].files)]]
KeysOf(statements) == {s.key : s \in statements}

\* The files of an edition say one thing of a node or an edge ...
FilesAgree(e) ==
    /\ \A x, y \in Declared[e].nodes : x.key = y.key => x.props = y.props
    /\ \A x, y \in Declared[e].edges : x.key = y.key => x.props = y.props
\* ... and declare the ends of every edge.
EndsOf(s) == {s.key[2], s.key[3]}
EndsDeclared(e) == \A s \in Declared[e].edges : EndsOf(s) \subseteq KeysOf(Declared[e].nodes)

Steps == {"idle", "ask", "write", "clear ids", "clear trees"}
ReaderSteps == First \cup {"store", "forest", "relationships", "stages", "refinement",
                           "overlay", "overlay ids", "rows", "served"}
\* Every variable has its type; no edge lacks an end, and no English row names
\* a node that the graph has not got (ADR-006: the graph first, then the row).
TypeOK ==
    /\ seeder.at \in Steps /\ runs \in 0..MaxRuns
    /\ seeder.next \in 1..Len(Programs[seeder.edition][seeder.args])
    /\ DOMAIN cache \subseteq Keys
    /\ \A r \in Readers : reader[r].at \in ReaderSteps
    /\ \A e \in DOMAIN graph.edges : {e[2], e[3]} \subseteq DOMAIN graph.nodes
    /\ \A k \in DOMAIN rows : k[1] \in DOMAIN graph.nodes

\* Once a run has cleared the cache, every entry is what the graph and the
\* translations give, until something is written again; except for an entry
\* that a request filled with what it had read before a write.
Current(k) ==
    IF k.kind = "ids" THEN SubtypeIds(graph, k.about)
    ELSE LocaliseTree(rows, k.lang, Subtree(graph, k.about))
CacheFresh ==
    cleared => \A k \in DOMAIN cache : cache[k].late \/ cache[k].value = Current(k)

\* A full run brings every node of the files, and every edge whose ends are
\* declared no later than the edge; a second one brings the rest.  While
\* nothing else is written they are as the files say.
FilesArrive ==
    LET d == Declared[done.edition] IN
    /\ done.times >= 1 => /\ KeysOf(d.nodes) \subseteq DOMAIN graph.nodes
                          /\ KeysOf(d.backward) \subseteq DOMAIN graph.edges
    /\ done.times >= 2 => KeysOf(d.edges) \subseteq DOMAIN graph.edges
    /\ settled => /\ \A s \in d.nodes : graph.nodes[s.key] = s.props
                  /\ \A s \in d.edges : s.key \in DOMAIN graph.edges
                                          => graph.edges[s.key] = s.props

\* After a full run the graph's validation reports what the files themselves
\* are guilty of, and leftovers: concepts that are declared no more or carry
\* an edge that is not, and those that such an edge closes a cycle with.
Alone(e) ==
    LET As(ss) == [k \in KeysOf(ss) |-> (CHOOSE s \in ss : s.key = k).props]
        nodes == Declared[e].nodes
    IN  [nodes |-> As(nodes),
         edges |-> As({s \in Declared[e].edges : EndsOf(s) \subseteq KeysOf(nodes)})]
ReportsAlone == [e \in DOMAIN Editions |-> Reports(Alone(e))]
Leftovers(e) ==
    {n[2] : n \in (DOMAIN graph.nodes \ KeysOf(Declared[e].nodes))
                    \cup {k[2] : k \in DOMAIN graph.edges \ KeysOf(Declared[e].edges)}}
\* On a prerequisite cycle with one of a set of concepts.
InCycleWith(g, cs) ==
    LET links == Links(g, "PREREQUISITE_FOR")
    IN  {c \in Concepts(g) : \E x \in cs : x \in Reach(links, {c}) /\ c \in Reach(links, {x})}
ReportsAreLeftovers ==
    settled => Reports(graph) \subseteq ReportsAlone[done.edition] \cup Leftovers(done.edition)
                                         \cup InCycleWith(graph, Leftovers(done.edition))

\* No page and no tree is half-translated: whatever node it names is in English
\* only if the locale had no row for it when the translations were read.  Each
\* handler collects the ids it asks for by hand, apart from the payload in which
\* it names the nodes, and its list has to reach all of them: the paths' concepts
\* were once missing from the search's (services/concepts.py:213-218).
WholePageTranslated ==
    \A r \in Readers : reader[r].at \in {"store", "served"} => reader[r].got = {}

\* Searching in another language finds everything the English search finds,
\* and nothing that may not be tagged, unless something is written meanwhile.
LocaleWidensSearch ==
    \A r \in Readers :
        reader[r].task = "search" /\ reader[r].at = "served" /\ ~reader[r].late =>
            /\ ConceptsForSearch(graph, SearchConceptIds(graph, reader[r].about, "any"), "any")
                 \subseteq reader[r].held
            /\ reader[r].held \subseteq Offered(graph, "any")

\* Whatever was cached while runs failed, overtook readers or could not reach
\* Redis, once seeding is over the cache comes to agree with the graph.
CacheConverges ==
    <>[](seeder.at = "idle") =>
        <>[](\A k \in DOMAIN cache : cache[k].value = Current(k))
=============================================================================
