------------------------ MODULE ConceptBrowsingProofs ------------------------
(***************************************************************************)
(* The cache, the translated pages and the search in another language, and *)
(* what the runs of the seed script bring, for any number of requests and  *)
(* of runs, whatever the files of the repository say.  First the requests  *)
(* beside a run of which only its steps matter; then, from the lists that  *)
(* the files are made of to the program of a run, what a run has done after *)
(* each of its statements; last what the validation of the graph reports.  *)
(***************************************************************************)
EXTENDS ConceptBrowsing, TLAPS, SequenceTheorems, NaturalsInduction, WellFoundedInduction,
        FiniteSetTheorems

-----------------------------------------------------------------------------
(* Requests and the cache.                                                  *)

\* A request has its fields; what they hold is for the invariants below.
IsRequest(x) ==
    x = [at |-> x.at, task |-> x.task, about |-> x.about, lang |-> x.lang,
         got |-> x.got, held |-> x.held, late |-> x.late]

\* Where a request has gathered names of nodes that are yet to be translated.
Gathering == {"overlay", "forest", "relationships", "stages", "refinement"}

\* The places of a page that the handler of a task asks the translations for.
Listed(task, got) == \A m \in got : m.place \in IdList(task)

\* Before it has gathered names a request has none, what it gathers then its
\* handler asks for, and after the overlay it keeps only what it failed to
\* translate, which is nothing.
PageSound(x) == (x.at \notin Gathering => x.got = {}) /\ Listed(x.task, x.got)

\* The steps of each task.
StepsOf(task) ==
    CASE task = "ids" -> {"lookup", "read", "store"}
      [] task = "tree" -> {"lookup", "read", "overlay", "store"}
      [] task = "index" -> {"roots", "forest", "overlay", "served"}
      [] task = "detail" -> {"detail", "relationships", "overlay", "served"}
      [] task = "schemas" -> {"schemas", "stages", "refinement", "overlay", "served"}
      [] task = "search" ->
            {"english", "graph ids", "overlay ids", "rows", "overlay", "served"}
      [] OTHER -> {}

\* A request is on the way of its task, and was made.
TaskSound(x) ==
    x.at # "idle" =>
        /\ x.task \in Tasks /\ x.at \in StepsOf(x.task)
        /\ \E q \in Requests : q.task = x.task /\ q.about = x.about /\ q.lang = x.lang

Matching(x, g) == SearchConceptIds(g, x.about, "any")

\* What a search holds on its way, if nothing was written since it began.
SearchSound(x, g) ==
    x.task = "search" /\ ~x.late =>
        /\ x.at \in {"overlay ids", "rows"} => Matching(x, g) \subseteq x.held
        /\ x.at \in {"overlay", "served"} =>
             /\ ConceptsForSearch(g, Matching(x, g), "any") \subseteq x.held
             /\ x.held \subseteq Offered(g, "any")

\* What a request for something cached holds, if nothing was written since.
HoldSound(x, g, rs) ==
    /\ x.at = "store" /\ x.task = "ids" /\ ~x.late =>
         x.held = SubtypeIds(g, x.about)
    /\ x.at = "overlay" /\ x.task = "tree" /\ ~x.late =>
         x.held = Subtree(g, x.about)
    /\ x.at = "store" /\ x.task = "tree" /\ ~x.late =>
         x.held = LocaliseTree(rs, x.lang, Subtree(g, x.about))

Sound(x, g, rs) ==
    IsRequest(x) /\ TaskSound(x) /\ PageSound(x) /\ SearchSound(x, g) /\ HoldSound(x, g, rs)

ReaderInv ==
    /\ reader = [r \in Readers |-> reader[r]]
    /\ \A r \in Readers : Sound(reader[r], graph, rows)

\* Every entry is fresh or late once the cache was cleared; the ids are so
\* already when only the trees are left to clear.
CacheInv ==
    \A k \in DOMAIN cache :
        /\ k \in Keys /\ k.kind \in {"ids", "tree"}
        /\ cleared \/ (seeder.at = "clear trees" /\ k.kind = "ids") =>
             cache[k].late \/ cache[k].value = Current(k)

\* The fields of the run in progress.
SeederType == DOMAIN seeder = {"at", "edition", "args", "next"}

BrowseInv == ReaderInv /\ CacheInv /\ SeederType

LEMMA IdleSound == ASSUME NEW g, NEW rs PROVE Sound(Idle, g, rs)
  BY DEF Sound, IsRequest, TaskSound, PageSound, SearchSound, HoldSound, Idle, Gathering,
         Listed

LEMMA BrowseInit == Init => BrowseInv
  <1> SUFFICES ASSUME Init PROVE BrowseInv
    OBVIOUS
  <1>1. reader = [r \in Readers |-> Idle] /\ cache = <<>> /\ seeder = Asleep
    BY DEF Init
  <1>2. DOMAIN cache = {} /\ SeederType
    BY <1>1 DEF SeederType, Asleep
  <1>3. QED
    BY <1>1, <1>2, IdleSound DEF BrowseInv, ReaderInv, CacheInv

\* A step of one request that leaves the graph, the rows and the cache alone.
LEMMA BecomeKeeps ==
  ASSUME BrowseInv, NEW r \in Readers, NEW x, Become(r, x),
         Sound(x, graph, rows)
  PROVE  BrowseInv'
  <1>1. /\ reader' = [reader EXCEPT ![r] = x]
        /\ UNCHANGED <<cache, graph, rows, cleared, seeder>>
    BY DEF Become, seeding
  <1>2. ReaderInv'
    BY <1>1 DEF BrowseInv, ReaderInv
  <1>3. CacheInv'
    BY <1>1 DEF BrowseInv, CacheInv, Current
  <1>4. QED
    BY <1>1, <1>2, <1>3 DEF BrowseInv, SeederType

\* A request with other names, another thing in hand, at another step.
Changed(x, got, held, step) ==
    [x EXCEPT !.got = got, !.held = held, !.at = step]

LEMMA ChangedFields ==
  ASSUME NEW x, IsRequest(x), NEW got, NEW held, NEW step
  PROVE  \E y : /\ y = Changed(x, got, held, step) /\ IsRequest(y)
               /\ y.at = step /\ y.got = got /\ y.held = held /\ y.task = x.task
               /\ y.about = x.about /\ y.lang = x.lang /\ y.late = x.late
  <1> DEFINE y == Changed(x, got, held, step)
  <1>1. DOMAIN x = {"at", "task", "about", "lang", "got", "held", "late"}
    BY DEF IsRequest
  <1>2. y = [f \in DOMAIN x |-> IF f = "at" THEN step ELSE IF f = "held" THEN held
                                ELSE IF f = "got" THEN got ELSE x[f]]
    BY <1>1 DEF Changed
  <1> HIDE DEF y
  <1>3. /\ y.at = step /\ y.got = got /\ y.held = held
        /\ y.task = x.task /\ y.about = x.about /\ y.lang = x.lang /\ y.late = x.late
    BY <1>1, <1>2
  <1>4. y = [at |-> y.at, task |-> y.task, about |-> y.about, lang |-> y.lang,
             got |-> y.got, held |-> y.held, late |-> y.late]
    BY <1>1, <1>2
  <1>5. QED
    BY <1>3, <1>4 DEF IsRequest, y

\* What x may become at the next step.
StepSound(x, got, held, step, g, rs) ==
    /\ step \in StepsOf(x.task) /\ x.at # "idle"
    /\ (step \notin Gathering => got = {}) /\ Listed(x.task, got)
    /\ x.task = "search" /\ ~x.late =>
            /\ step \in {"overlay ids", "rows"} => Matching(x, g) \subseteq held
            /\ step \in {"overlay", "served"} =>
                 /\ ConceptsForSearch(g, Matching(x, g), "any") \subseteq held
                 /\ held \subseteq Offered(g, "any")
    /\ step = "store" /\ x.task = "ids" /\ ~x.late => held = SubtypeIds(g, x.about)
    /\ step = "overlay" /\ x.task = "tree" /\ ~x.late => held = Subtree(g, x.about)
    /\ step = "store" /\ x.task = "tree" /\ ~x.late =>
            held = LocaliseTree(rs, x.lang, Subtree(g, x.about))

LEMMA ChangedSound ==
  ASSUME NEW x, NEW g, NEW rs, NEW got, NEW held, NEW step, Sound(x, g, rs),
         StepSound(x, got, held, step, g, rs)
  PROVE  Sound(Changed(x, got, held, step), g, rs)
  <1>1. IsRequest(x) /\ TaskSound(x)
    BY DEF Sound
  <1>2. PICK y : /\ y = Changed(x, got, held, step) /\ IsRequest(y)
                 /\ y.at = step /\ y.got = got /\ y.held = held /\ y.task = x.task
                 /\ y.about = x.about /\ y.lang = x.lang /\ y.late = x.late
    BY <1>1, ChangedFields
  <1>3. TaskSound(y)
    BY <1>1, <1>2 DEF StepSound, TaskSound
  <1>4. PageSound(y)
    BY <1>2 DEF StepSound, PageSound
  <1>5. SearchSound(y, g)
    BY <1>2 DEF StepSound, SearchSound, Matching
  <1>6. HoldSound(y, g, rs)
    BY <1>2 DEF StepSound, HoldSound
  <1>7. QED
    BY <1>2, <1>3, <1>4, <1>5, <1>6 DEF Sound

\* Where a request at a step may go on to.
LEMMA Ways ==
  ASSUME NEW x, NEW g, NEW rs, Sound(x, g, rs)
  PROVE  /\ x.at = "lookup" => "read" \in StepsOf(x.task)
         /\ x.at = "read" /\ x.task \in {"ids"} => "store" \in StepsOf(x.task)
         /\ x.at = "read" /\ x.task \in {"tree"} => "overlay" \in StepsOf(x.task)
         /\ x.at \in {"roots", "forest"} =>
              x.task = "index" /\ {"forest", "overlay"} \subseteq StepsOf(x.task)
         /\ x.at \in {"detail", "relationships"} =>
              x.task = "detail" /\ {"relationships", "overlay"} \subseteq StepsOf(x.task)
         /\ x.at \in {"schemas", "stages", "refinement"} =>
              /\ x.task = "schemas"
              /\ {"stages", "refinement", "overlay"} \subseteq StepsOf(x.task)
         /\ x.at \in {"english", "graph ids", "overlay ids", "rows"} =>
              /\ x.task = "search"
              /\ {"overlay ids", "rows", "overlay", "served"} \subseteq StepsOf(x.task)
         /\ x.at = "overlay" =>
              IF x.task = "tree" THEN "store" \in StepsOf(x.task)
                                 ELSE "served" \in StepsOf(x.task)
         /\ x.at = "store" => x.task \in {"ids", "tree"}
  <1>1. CASE x.at = "idle"
    BY <1>1
  <1>2. CASE x.at # "idle"
    <2>1. x.task \in Tasks /\ x.at \in StepsOf(x.task)
      BY <1>2 DEF Sound, TaskSound
    <2>3. CASE x.task \in {"ids", "tree", "index"}
      BY <2>1, <2>3 DEF StepsOf
    <2>4. CASE x.task \in {"detail", "schemas", "search"}
      BY <2>1, <2>4 DEF StepsOf
    <2>5. QED
      BY <2>1, <2>3, <2>4 DEF Tasks
  <1>3. QED
    BY <1>1, <1>2

LEMMA StepKeeps ==
  ASSUME BrowseInv, NEW r \in Readers, NEW got, NEW held, NEW step,
         StepSound(reader[r], got, held, step, graph, rows),
         Become(r, Changed(reader[r], got, held, step))
  PROVE  BrowseInv'
  <1>1. Sound(reader[r], graph, rows)
    BY DEF BrowseInv, ReaderInv
  <1>2. Sound(Changed(reader[r], got, held, step), graph, rows)
    BY <1>1, ChangedSound
  <1>3. QED
    BY <1>2, BecomeKeeps

LEMMA GatherIsChange ==
  ASSUME NEW r \in Readers, NEW got, NEW held, NEW step, Gather(r, got, held, step)
  PROVE  Become(r, Changed(reader[r], reader[r].got \cup got, held, step))
  BY DEF Gather, Changed

LEMMA GoOnIsChange ==
  ASSUME NEW x, IsRequest(x), NEW step
  PROVE  [x EXCEPT !.at = step] = Changed(x, x.got, x.held, step)
  <1>1. DOMAIN x = {"at", "task", "about", "lang", "got", "held", "late"}
    BY DEF IsRequest
  <1>2. Changed(x, x.got, x.held, step) = [f \in DOMAIN x |-> IF f = "at" THEN step ELSE x[f]]
    BY <1>1 DEF Changed
  <1>3. [x EXCEPT !.at = step] = [f \in DOMAIN x |-> IF f = "at" THEN step ELSE x[f]]
    BY <1>1
  <1>4. QED
    BY <1>2, <1>3

\* A handler whose list reaches every place of its page leaves nothing behind.
LEMMA NothingUntranslated ==
  ASSUME NEW rs, NEW lang, NEW task, NEW got, Listed(task, got)
  PROVE  Untranslated(rs, lang, task, got) = {}
  <1>1. \A m \in got : m.node \in Asked(task, got)
    BY DEF Listed, Asked
  <1>2. QED
    BY <1>1 DEF Untranslated, Shown

\* Where the pages name nodes, against the list of each handler.
LEMMA NoneListed == \A task : Listed(task, {})
  BY DEF Listed

LEMMA BothListed ==
  ASSUME NEW task, NEW a, NEW b, Listed(task, a), Listed(task, b)
  PROVE  Listed(task, a \cup b)
  BY DEF Listed

LEMMA PathPlaces == \A path : \A m \in PathMentions(path) : m.place = "path"
  BY DEF PathMentions

LEMMA MentionPlaces == \A g, place, cs : \A m \in Mentions(g, place, cs) : m.place = place
  BY DEF Mentions, Mention

LEMMA RowsListed ==
  ASSUME NEW task \in {"tree", "index"}, NEW rs
  PROVE  Listed(task, RowMentions(rs))
  <1>1. ASSUME NEW m \in RowMentions(rs) PROVE m.place \in {"row", "path"}
    <2>1. PICK r \in rs : m \in {[place |-> "row", node |-> Concept(r.id), name |-> r.name]}
                                 \cup PathMentions(r.path)
      BY DEF RowMentions
    <2>2. QED
      BY <2>1, PathPlaces
  <1>2. IdList(task) = {"row", "path"}
    BY DEF IdList, TreeIds, IndexIds
  <1>3. QED
    BY <1>1, <1>2 DEF Listed

LEMMA SearchListed ==
  ASSUME NEW g, NEW found PROVE Listed("search", SearchMentions(g, found))
  <1>1. ASSUME NEW m \in SearchMentions(g, found) PROVE m.place \in {"row", "path"}
    <2>1. CASE m \in Mentions(g, "row", found)
      BY <2>1, MentionPlaces
    <2>2. CASE \E c \in found : m \in PathMentions(HierarchyPath(g, c))
      BY <2>2, PathPlaces
    <2>3. QED
      BY <2>1, <2>2 DEF SearchMentions
  <1>2. IdList("search") = {"row", "path"}
    BY DEF IdList, SearchIds
  <1>3. QED
    BY <1>1, <1>2 DEF Listed

LEMMA DetailListed ==
  ASSUME NEW g, NEW c
  PROVE  Listed("detail", Detail(g, c)) /\ Listed("detail", Relationships(g, c))
  <1>1. IdList("detail") = {"self", "path", "child", "target", "parent"}
    BY DEF IdList, DetailIds
  <1>2. ASSUME NEW m \in Detail(g, c) PROVE m.place \in IdList("detail")
    <2>1. PICK parent : \/ m \in Mentions(g, "self", {c})
                        \/ m \in PathMentions(HierarchyPath(g, c))
                        \/ m \in Mentions(g, "parent", parent)
                        \/ m \in Mentions(g, "child", Sources(g, "IS_SUBTYPE_OF", c))
      BY Zenon DEF Detail
    <2>2. m.place \in {"self", "path", "parent", "child"}
      BY <2>1, PathPlaces, MentionPlaces
    <2>3. QED
      BY <1>1, <2>2
  <1>3. ASSUME NEW m \in Relationships(g, c) PROVE m.place \in IdList("detail")
    <2>1. m.place = "target"
      BY MentionPlaces, Zenon DEF Relationships
    <2>2. QED
      BY <1>1, <2>1
  <1>4. QED
    BY <1>2, <1>3 DEF Listed

LEMMA SchemasListed ==
  ASSUME NEW g, NEW c
  PROVE  /\ Listed("schemas", PropertySchemas(g, c)) /\ Listed("schemas", StageMentions(g, c))
         /\ \A cs : Listed("schemas", Mentions(g, "child", cs))
  <1>1. IdList("schemas") = {"schema", "value", "reference", "stage", "child"}
    BY DEF IdList, SchemaIds
  <1>2. ASSUME NEW m \in PropertySchemas(g, c) PROVE m.place \in IdList("schemas")
    <2> DEFINE schemas == InheritedSchemas(g, c)
               values == UNION {Targets(g, "HAS_VALUE", s) : s \in schemas}
               refs == UNION {Targets(g, "VALUE_REFERENCES", v) : v \in values}
    <2>1. \/ \E s \in schemas : m = Mention(g, "schema", <<"PropertySchema", s>>)
          \/ \E v \in values : m = Mention(g, "value", <<"PropertyValue", v>>)
          \/ m \in Mentions(g, "reference", refs)
      BY Zenon DEF PropertySchemas
    <2>2. \A place, node : Mention(g, place, node).place = place
      BY DEF Mention
    <2> HIDE DEF schemas, values, refs
    <2>3. m.place \in {"schema", "value", "reference"}
      BY <2>1, <2>2, MentionPlaces
    <2>4. QED
      BY <1>1, <2>3
  <1>3. ASSUME NEW m \in StageMentions(g, c) PROVE m.place \in IdList("schemas")
    <2>1. m.place = "stage"
      BY MentionPlaces, Zenon DEF StageMentions
    <2>2. QED
      BY <1>1, <2>1
  <1>4. ASSUME NEW cs, NEW m \in Mentions(g, "child", cs) PROVE m.place \in IdList("schemas")
    <2>1. m.place = "child"
      BY MentionPlaces, Zenon
    <2>2. QED
      BY <1>1, <2>1
  <1>5. QED
    BY <1>2, <1>3, <1>4 DEF Listed

LEMMA GiveUpKeeps ==
  ASSUME BrowseInv, NEW r \in Readers, Become(r, Idle)
  PROVE  BrowseInv'
  BY IdleSound, BecomeKeeps

LEMMA LookupStep ==
  ASSUME BrowseInv, NEW r \in Readers, Lookup(r) PROVE BrowseInv'
  <1> DEFINE x == reader[r]
  <1>1. x.at = "lookup" /\ Sound(x, graph, rows)
    BY DEF Lookup, At, BrowseInv, ReaderInv
  <1>2. CASE Become(r, Idle)
    BY <1>2, GiveUpKeeps
  <1>3. CASE Become(r, [x EXCEPT !.at = "read"])
    <2>1. Become(r, Changed(x, x.got, x.held, "read"))
      BY <1>1, <1>3, GoOnIsChange DEF Sound
    <2>2. "read" \in StepsOf(x.task)
      BY <1>1, Ways
    <2>3. StepSound(x, x.got, x.held, "read", graph, rows)
      BY <1>1, <2>2 DEF StepSound, Sound, PageSound, Gathering
    <2>4. QED
      BY <2>1, <2>3, StepKeeps
  <1>4. QED
    BY <1>2, <1>3 DEF Lookup

LEMMA CachedSteps ==
  ASSUME BrowseInv, NEW r \in Readers, ReadSubtypeIds(r) \/ ReadSubtree(r) PROVE BrowseInv'
  <1> DEFINE x == reader[r]
  <1>1. Sound(x, graph, rows) /\ x.at = "read" /\ x.got = {}
    BY DEF ReadSubtypeIds, ReadSubtree, At, BrowseInv, ReaderInv, Sound, PageSound, Gathering
  <1>2. CASE ReadSubtypeIds(r)
    <2> DEFINE ids == SubtypeIds(graph, x.about)
    <2>1. x.task = "ids" /\ Gather(r, {}, ids, "store")
      BY <1>2 DEF ReadSubtypeIds
    <2>2. "store" \in StepsOf(x.task)
      BY <1>1, <2>1, Ways
    <2>3. StepSound(x, x.got \cup {}, ids, "store", graph, rows)
      BY <1>1, <2>1, <2>2 DEF StepSound, Listed
    <2> HIDE DEF ids
    <2>4. QED
      BY <2>1, <2>3, GatherIsChange, StepKeeps
  <1>3. CASE ReadSubtree(r) /\ Become(r, Idle)
    BY <1>3, GiveUpKeeps
  <1>4. CASE ReadSubtree(r) /\ ~Become(r, Idle)
    <2> DEFINE tree == Subtree(graph, x.about)
               got == RowMentions(tree)
    <2>1. x.task = "tree" /\ Gather(r, got, tree, "overlay")
      BY <1>4 DEF ReadSubtree
    <2>2. "overlay" \in StepsOf(x.task)
      BY <1>1, <2>1, Ways
    <2>a. Listed(x.task, x.got \cup got)
      BY <1>1, <2>1, RowsListed
    <2>3. StepSound(x, x.got \cup got, tree, "overlay", graph, rows)
      BY <1>1, <2>1, <2>2, <2>a DEF StepSound, Gathering
    <2> HIDE DEF tree, got
    <2>4. QED
      BY <2>1, <2>3, GatherIsChange, StepKeeps
  <1>5. QED
    BY <1>2, <1>3, <1>4

\* A step on the way to an overlay, of a task that is neither cached nor a search.
LEMMA GatheringKeeps ==
  ASSUME BrowseInv, NEW r \in Readers, NEW got, NEW held, NEW step,
         reader[r].task \in {"index", "detail", "schemas"}, step \in Gathering,
         reader[r].at # "idle", step \in StepsOf(reader[r].task), Gather(r, got, held, step),
         Listed(reader[r].task, got)
  PROVE  BrowseInv'
  <1>1. Listed(reader[r].task, reader[r].got \cup got)
    BY BothListed DEF BrowseInv, ReaderInv, Sound, PageSound
  <1>2. StepSound(reader[r], reader[r].got \cup got, held, step, graph, rows)
    BY <1>1 DEF StepSound, Gathering
  <1>3. QED
    BY <1>2, GatherIsChange, StepKeeps

LEMMA PageSteps ==
  ASSUME BrowseInv, NEW r \in Readers,
         \/ ReadRoots(r) \/ ReadForest(r) \/ ReadDetail(r) \/ ReadRelationships(r)
         \/ ReadSchemas(r) \/ ReadStages(r) \/ ReadRefinement(r)
  PROVE  BrowseInv'
  <1> DEFINE x == reader[r]
  <1>1. Sound(x, graph, rows)
    BY DEF BrowseInv, ReaderInv
  <1>2. CASE Become(r, Idle)
    BY <1>2, GiveUpKeeps
  <1>3. CASE ReadRoots(r) \/ ReadForest(r)
    <2>1. x.at \in {"roots", "forest"}
      BY <1>3 DEF ReadRoots, ReadForest, At
    <2>2. x.task = "index" /\ {"forest", "overlay"} \subseteq StepsOf(x.task)
      BY <1>1, <2>1, Ways
    <2>3. \E got, held : \E step \in {"forest", "overlay"} :
             Listed("index", got) /\ Gather(r, got, held, step)
      <3>1. CASE ReadRoots(r)
        BY <3>1, NoneListed DEF ReadRoots
      <3>2. CASE ReadForest(r)
        BY <3>2, NoneListed, RowsListed DEF ReadForest
      <3>3. QED
        BY <1>3, <3>1, <3>2
    <2>4. QED
      BY <2>1, <2>2, <2>3, GatheringKeeps DEF Gathering
  <1>4. CASE (ReadDetail(r) \/ ReadRelationships(r)) /\ ~Become(r, Idle)
    <2>1. x.at \in {"detail", "relationships"}
      BY <1>4 DEF ReadDetail, ReadRelationships, At
    <2>2. x.task = "detail" /\ {"relationships", "overlay"} \subseteq StepsOf(x.task)
      BY <1>1, <2>1, Ways
    <2>3. \E got, held : \E step \in {"relationships", "overlay"} :
             Listed("detail", got) /\ Gather(r, got, held, step)
      BY <1>4, DetailListed DEF ReadDetail, ReadRelationships
    <2>4. QED
      BY <2>1, <2>2, <2>3, GatheringKeeps DEF Gathering
  <1>5. CASE (ReadSchemas(r) \/ ReadStages(r) \/ ReadRefinement(r)) /\ ~Become(r, Idle)
    <2>1. x.at \in {"schemas", "stages", "refinement"}
      BY <1>5 DEF ReadSchemas, ReadStages, ReadRefinement, At
    <2>2. x.task = "schemas" /\ {"stages", "refinement", "overlay"} \subseteq StepsOf(x.task)
      BY <1>1, <2>1, Ways
    <2>3. \E got, held : \E step \in {"stages", "refinement", "overlay"} :
             Listed("schemas", got) /\ Gather(r, got, held, step)
      BY <1>5, SchemasListed DEF ReadSchemas, ReadStages, ReadRefinement
    <2>4. QED
      BY <2>1, <2>2, <2>3, GatheringKeeps DEF Gathering
  <1>6. QED
    BY <1>2, <1>3, <1>4, <1>5

\* The rows of a search are what may be tagged and has a place; asked for more
\* ids, it finds more.
LEMMA SearchGrows ==
  ASSUME NEW g, NEW ids, NEW more, ids \subseteq more
  PROVE  /\ ConceptsForSearch(g, ids, "any") \subseteq ConceptsForSearch(g, more, "any")
         /\ ConceptsForSearch(g, more, "any") \subseteq Offered(g, "any")
  BY DEF ConceptsForSearch

LEMMA SearchSteps ==
  ASSUME BrowseInv, NEW r \in Readers,
         SearchEnglish(r) \/ SearchGraph(r) \/ SearchOverlay(r) \/ SearchRows(r)
  PROVE  BrowseInv'
  <1> DEFINE x == reader[r]
             matching == Matching(x, graph)
  <1>1. Sound(x, graph, rows)
    BY DEF BrowseInv, ReaderInv
  <1>2. x.at \in {"english", "graph ids", "overlay ids", "rows"}
    BY DEF SearchEnglish, SearchGraph, SearchOverlay, SearchRows, At
  <1>3. /\ x.task = "search"
        /\ {"overlay ids", "rows", "overlay", "served"} \subseteq StepsOf(x.task)
    BY <1>1, <1>2, Ways
  <1>4. x.got = {}
    BY <1>1, <1>2 DEF Sound, PageSound, Gathering
  <1>5. CASE SearchEnglish(r)
    <2> DEFINE found == ConceptsForSearch(graph, matching, "any")
    <2>1. Gather(r, {}, found, "served")
      BY <1>5 DEF SearchEnglish, Matching
    <2>2. found \subseteq Offered(graph, "any")
      BY SearchGrows
    <2>3. StepSound(x, x.got \cup {}, found, "served", graph, rows)
      BY <1>2, <1>3, <1>4, <2>2 DEF StepSound, Listed
    <2> HIDE DEF found
    <2>4. QED
      BY <2>1, <2>3, GatherIsChange, StepKeeps
  <1>6. CASE SearchGraph(r)
    <2>1. Gather(r, {}, matching, "overlay ids")
      BY <1>6 DEF SearchGraph, Matching
    <2>2. StepSound(x, x.got \cup {}, matching, "overlay ids", graph, rows)
      BY <1>2, <1>3, <1>4 DEF StepSound, Listed
    <2> HIDE DEF matching
    <2>3. QED
      BY <2>1, <2>2, GatherIsChange, StepKeeps
  <1>7. CASE SearchOverlay(r)
    <2> DEFINE ids == x.held \cup OverlayMatches(rows, x.about, x.lang)
    <2>1. Gather(r, {}, ids, "rows") /\ x.at = "overlay ids"
      BY <1>7 DEF SearchOverlay, At
    <2>2. ~x.late => matching \subseteq ids
      BY <1>1, <1>3, <2>1 DEF Sound, SearchSound
    <2>3. StepSound(x, x.got \cup {}, ids, "rows", graph, rows)
      BY <1>2, <1>3, <1>4, <2>2 DEF StepSound, Listed
    <2> HIDE DEF ids
    <2>4. QED
      BY <2>1, <2>3, GatherIsChange, StepKeeps
  <1>8. CASE SearchRows(r)
    <2> DEFINE found == ConceptsForSearch(graph, x.held, "any")
               got == SearchMentions(graph, found)
    <2>1. Gather(r, got, found, "overlay") /\ x.at = "rows"
      BY <1>8 DEF SearchRows, At
    <2>2. ~x.late => matching \subseteq x.held
      BY <1>1, <1>3, <2>1 DEF Sound, SearchSound
    <2>3. /\ ~x.late => ConceptsForSearch(graph, matching, "any") \subseteq found
          /\ found \subseteq Offered(graph, "any")
      BY <2>2, SearchGrows
    <2>a. Listed(x.task, x.got \cup got)
      BY <1>3, <1>4, SearchListed
    <2> HIDE DEF found, got
    <2>4. StepSound(x, x.got \cup got, found, "overlay", graph, rows)
      BY <1>2, <1>3, <2>3, <2>a DEF StepSound, Gathering
    <2>5. QED
      BY <2>1, <2>4, GatherIsChange, StepKeeps
  <1>9. QED
    BY <1>5, <1>6, <1>7, <1>8

LEMMA OverlayStep ==
  ASSUME BrowseInv, NEW r \in Readers, Overlay(r) PROVE BrowseInv'
  <1> DEFINE x == reader[r]
             got == Untranslated(rows, x.lang, x.task, x.got)
             held == IF x.task = "tree" THEN LocaliseTree(rows, x.lang, x.held) ELSE x.held
             step == IF x.task = "tree" THEN "store" ELSE "served"
  <1>1. Sound(x, graph, rows) /\ x.at = "overlay"
    BY DEF Overlay, At, BrowseInv, ReaderInv
  <1>2. Become(r, Changed(x, got, held, step))
    BY DEF Overlay, Changed
  <1>3. got = {}
    BY <1>1, NothingUntranslated DEF Sound, PageSound
  <1>a. Listed(x.task, got)
    BY <1>3, NoneListed
  <1>4. step \in StepsOf(x.task)
    BY <1>1, Ways
  <1>5. /\ x.task = "search" /\ ~x.late =>
             /\ ConceptsForSearch(graph, Matching(x, graph), "any") \subseteq x.held
             /\ x.held \subseteq Offered(graph, "any")
        /\ x.task = "tree" /\ ~x.late => x.held = Subtree(graph, x.about)
    BY <1>1 DEF Sound, SearchSound, HoldSound
  <1> HIDE DEF got
  <1>6. CASE x.task = "tree"
    <2>1. StepSound(x, got, held, step, graph, rows)
      BY <1>1, <1>3, <1>a, <1>4, <1>5, <1>6 DEF StepSound
    <2>2. QED
      BY <1>2, <2>1, StepKeeps
  <1>7. CASE x.task # "tree"
    <2>1. StepSound(x, got, held, step, graph, rows)
      BY <1>1, <1>3, <1>a, <1>4, <1>5, <1>7 DEF StepSound
    <2>2. QED
      BY <1>2, <2>1, StepKeeps
  <1>8. QED
    BY <1>6, <1>7

\* A request stores under its own key what that key stands for, unless it is late.
LEMMA StoreStep ==
  ASSUME BrowseInv, NEW r \in Readers, Store(r) PROVE BrowseInv'
  <1> DEFINE x == reader[r]
             key == KeyOf(r)
             entry == [value |-> x.held, late |-> x.late]
  <1>1. Sound(x, graph, rows) /\ x.at = "store"
    BY DEF Store, At, BrowseInv, ReaderInv
  <1>2. /\ UNCHANGED <<graph, rows, cleared, seeder>>
        /\ reader' = [reader EXCEPT ![r] = Idle]
        /\ cache' = Put(cache, key, entry) \/ cache' = cache
    BY DEF Store, seeding
  <1>3. x.task \in {"ids", "tree"}
    BY <1>1, Ways
  <1>4. ReaderInv'
    BY <1>2, IdleSound DEF BrowseInv, ReaderInv
  <1>5. key.kind = x.task /\ key.about = x.about /\ (x.task = "tree" => key.lang = x.lang)
    BY DEF KeyOf, Key
  <1>6. entry.late \/ entry.value = Current(key)
    BY <1>1, <1>3, <1>5 DEF Sound, HoldSound, Current
  <1>7. key \in Keys
    <2>1. PICK q \in Requests : q.task = x.task /\ q.about = x.about /\ q.lang = x.lang
      BY <1>1 DEF Sound, TaskSound
    <2>2. key = Key(q.task, q.about, q.lang) /\ q.task \in {"ids", "tree"}
      BY <1>3, <2>1 DEF KeyOf
    <2>3. QED
      BY <2>2 DEF Keys
  <1> HIDE DEF key, entry
  <1>8. ASSUME NEW k \in DOMAIN cache'
        PROVE  \/ k = key /\ cache'[k] = entry
               \/ k \in DOMAIN cache /\ cache'[k] = cache[k]
    BY <1>2 DEF Put
  <1>9. CacheInv'
    <2> SUFFICES ASSUME NEW k \in DOMAIN cache'
                 PROVE  /\ k \in Keys /\ k.kind \in {"ids", "tree"}
                        /\ (cleared \/ (seeder.at = "clear trees" /\ k.kind = "ids"))' =>
                              cache'[k].late \/ cache'[k].value = Current(k)'
      BY DEF CacheInv
    <2>1. Current(k)' = Current(k)
      BY <1>2 DEF Current
    <2>2. CASE k = key /\ cache'[k] = entry
      BY <1>3, <1>5, <1>6, <1>7, <2>1, <2>2
    <2>3. CASE k \in DOMAIN cache /\ cache'[k] = cache[k]
      BY <1>2, <2>1, <2>3 DEF BrowseInv, CacheInv
    <2>4. QED
      BY <1>8, <2>2, <2>3
  <1>10. QED
    BY <1>2, <1>4, <1>9 DEF BrowseInv, SeederType

LEMMA RequestStep ==
  ASSUME BrowseInv, NEW r \in Readers, Request(r) PROVE BrowseInv'
  <1>1. PICK q \in Requests :
           reader' = [reader EXCEPT ![r] =
             [Idle EXCEPT !.at = FirstStep(q.task, q.lang),
                          !.task = q.task, !.about = q.about, !.lang = q.lang]]
    BY DEF Request
  <1> DEFINE step == FirstStep(q.task, q.lang)
             y == [at |-> step, task |-> q.task, about |-> q.about, lang |-> q.lang,
                   got |-> {}, held |-> {}, late |-> FALSE]
  <1>2. Become(r, y)
    BY <1>1 DEF Request, Become, Idle
  <1>3. q.task \in Tasks
    BY BrowsingAssumption
  <1>4. step \in StepsOf(q.task) /\ step \notin Gathering
        /\ step \notin {"overlay ids", "rows", "served", "store"}
    BY <1>3 DEF FirstStep, StepsOf, Tasks, Gathering
  <1>5. /\ y.at = step /\ y.task = q.task /\ y.about = q.about /\ y.lang = q.lang
        /\ y.got = {} /\ IsRequest(y)
    BY DEF IsRequest
  <1> HIDE DEF step, y
  <1>6. Sound(y, graph, rows)
    <2>1. TaskSound(y)
      BY <1>3, <1>4, <1>5 DEF TaskSound
    <2>2. PageSound(y)
      BY <1>5 DEF PageSound, Listed
    <2>3. SearchSound(y, graph) /\ HoldSound(y, graph, rows)
      BY <1>4, <1>5 DEF SearchSound, HoldSound, Gathering
    <2>4. QED
      BY <1>5, <2>1, <2>2, <2>3 DEF Sound
  <1>7. QED
    BY <1>2, <1>6, BecomeKeeps

LEMMA ReaderStep ==
  ASSUME BrowseInv, NEW r \in Readers, Request(r) \/ Proceed(r) PROVE BrowseInv'
  <1>1. CASE Request(r)
    BY <1>1, RequestStep
  <1>2. CASE Proceed(r)
    <2>1. CASE Leave(r)
      BY <2>1, GiveUpKeeps DEF Leave
    <2>2. QED
      BY <1>2, <2>1, LookupStep, CachedSteps, PageSteps, SearchSteps, OverlayStep, StoreStep
         DEF Proceed
  <1>3. QED
    BY <1>1, <1>2

\* A write makes everything late that has been read; what has not been read yet
\* has nothing to go stale.
LEMMA OvertakenSound ==
  ASSUME NEW x, NEW g, NEW rs, Sound(x, g, rs), NEW h, NEW ss
  PROVE  Sound([x EXCEPT !.late = @ \/ x.at \notin First], h, ss)
  <1> DEFINE late == x.late \/ x.at \notin First
             y == [x EXCEPT !.late = late]
  <1>1. DOMAIN x = {"at", "task", "about", "lang", "got", "held", "late"}
    BY DEF Sound, IsRequest
  <1> HIDE DEF late
  <1>2. y = [f \in DOMAIN x |-> IF f = "late" THEN late ELSE x[f]]
    BY <1>1
  <1> HIDE DEF y
  <1>3. /\ y.at = x.at /\ y.task = x.task /\ y.about = x.about /\ y.lang = x.lang
        /\ y.got = x.got /\ y.held = x.held /\ y.late = late
    BY <1>1, <1>2
  <1>4. y = [at |-> y.at, task |-> y.task, about |-> y.about, lang |-> y.lang,
             got |-> y.got, held |-> y.held, late |-> y.late]
    BY <1>1, <1>2
  <1>5. ~y.late => x.at \in First
    BY <1>3 DEF late
  <1>6. TaskSound(y) /\ PageSound(y)
    BY <1>3 DEF Sound, TaskSound, PageSound
  <1>7. SearchSound(y, h)
    BY <1>3, <1>5 DEF SearchSound, First
  <1>8. HoldSound(y, h, ss)
    BY <1>3, <1>5 DEF HoldSound, First
  <1>9. QED
    BY <1>4, <1>6, <1>7, <1>8 DEF Sound, IsRequest, y, late

LEMMA WriteStep == ASSUME BrowseInv, Write PROVE BrowseInv'
  <1>1. reader' = [r \in Readers |-> [reader[r] EXCEPT !.late = @ \/ reader[r].at \notin First]]
    BY DEF Write, Overtake
  <1>2. ReaderInv'
    <2>1. \A r \in Readers : Sound(reader'[r], graph', rows')
      BY <1>1, OvertakenSound DEF BrowseInv, ReaderInv
    <2>2. QED
      BY <1>1, <2>1 DEF ReaderInv
  <1>3. seeder.at = "write" /\ cache' = cache /\ cleared' = FALSE
    BY DEF Write
  <1>4. seeder'.at \in {"write", "clear ids"} /\ SeederType'
    BY <1>3 DEF Write, BrowseInv, SeederType
  <1>5. CacheInv'
    BY <1>3, <1>4 DEF CacheInv, BrowseInv
  <1>6. QED
    BY <1>2, <1>4, <1>5 DEF BrowseInv

LEMMA AsleepAt == Asleep.at = "idle"
  BY DEF Asleep

LEMMA FailAt == ASSUME Fail \/ ClearFails PROVE seeder'.at = "idle"
  <1>1. seeder' = Asleep
    BY DEF Fail, ClearFails
  <1>2. QED
    BY <1>1, AsleepAt

LEMMA AnswerAt ==
  ASSUME SeederType, Answer
  PROVE  seeder'.at = "write" \/ seeder'.at = "idle"
  <1>1. CASE GoOn
    BY <1>1 DEF GoOn, SeederType
  <1>2. CASE GiveUp
    <2>1. seeder' = Asleep
      BY <1>2 DEF GiveUp
    <2>2. QED
      BY <2>1, AsleepAt
  <1>3. QED
    BY <1>1, <1>2 DEF Answer

\* The rest of a run leaves requests, graph and rows alone.
LEMMA RunStep ==
  ASSUME BrowseInv,
         \/ \E e \in DOMAIN Editions, a \in Runs : BeginRun(e, a)
         \/ Answer \/ Fail \/ ClearIds \/ ClearTrees \/ ClearFails
  PROVE  BrowseInv'
  <1>1. UNCHANGED <<reader, graph, rows>>
    BY DEF BeginRun, Answer, Fail, ClearIds, ClearTrees, ClearFails
  <1>2. ReaderInv' /\ \A k : Current(k)' = Current(k)
    BY <1>1 DEF BrowseInv, ReaderInv, Current
  <1>3. SeederType'
    BY DEF BrowseInv, SeederType, BeginRun, Answer, GoOn, GiveUp, Fail, ClearIds, ClearTrees,
           ClearFails, Asleep
  <1>4. CacheInv'
    <2>1. ASSUME \E e \in DOMAIN Editions, a \in Runs : BeginRun(e, a) PROVE CacheInv'
      <3>1. UNCHANGED <<cache, cleared>> /\ seeder'.at # "clear trees"
        BY <2>1 DEF BeginRun
      <3>2. QED
        BY <1>2, <3>1 DEF BrowseInv, CacheInv
    <2>2. ASSUME Answer PROVE CacheInv'
      <3>1. UNCHANGED <<cache, cleared>>
        BY <2>2 DEF Answer
      <3>2. seeder'.at = "write" \/ seeder'.at = "idle"
        BY <2>2, AnswerAt DEF BrowseInv
      <3>3. QED
        BY <1>2, <3>1, <3>2 DEF BrowseInv, CacheInv
    <2>3. ASSUME Fail \/ ClearFails PROVE CacheInv'
      <3>1. UNCHANGED <<cache, cleared>>
        BY <2>3 DEF Fail, ClearFails
      <3>2. seeder'.at = "idle"
        BY <2>3, FailAt
      <3>3. QED
        BY <1>2, <3>1, <3>2 DEF BrowseInv, CacheInv
    <2>4. ASSUME ClearIds PROVE CacheInv'
      <3>1. cleared' = cleared /\ cache' = Without("ids")
        BY <2>4 DEF ClearIds
      <3>2. \A k \in DOMAIN cache' : k \in DOMAIN cache /\ k.kind # "ids" /\ cache'[k] = cache[k]
        BY <3>1 DEF Without
      <3>3. QED
        BY <1>2, <3>1, <3>2 DEF BrowseInv, CacheInv
    <2>5. ASSUME ClearTrees PROVE CacheInv'
      <3>1. cache' = Without("tree") /\ seeder.at = "clear trees"
        BY <2>5 DEF ClearTrees
      <3>2. \A k \in DOMAIN cache' : k \in DOMAIN cache /\ k.kind # "tree" /\ cache'[k] = cache[k]
        BY <3>1 DEF Without
      <3>3. QED
        BY <1>2, <3>1, <3>2 DEF BrowseInv, CacheInv
    <2>6. QED
      BY <2>1, <2>2, <2>3, <2>4, <2>5
  <1>5. QED
    BY <1>2, <1>3, <1>4 DEF BrowseInv

LEMMA ExpireStep == ASSUME BrowseInv, NEW key \in Keys, Expire(key) PROVE BrowseInv'
  <1>1. UNCHANGED <<reader, graph, rows, cleared, seeder>>
    BY DEF Expire, seeding
  <1>2. \A k \in DOMAIN cache' : k \in DOMAIN cache /\ cache'[k] = cache[k]
    BY DEF Expire
  <1>3. \A k : Current(k)' = Current(k)
    BY <1>1 DEF Current
  <1>4. CacheInv'
    BY <1>1, <1>2, <1>3 DEF BrowseInv, CacheInv
  <1>5. QED
    BY <1>1, <1>4 DEF BrowseInv, ReaderInv, SeederType

LEMMA BrowseStep == BrowseInv /\ [Next]_vars => BrowseInv'
  <1> SUFFICES ASSUME BrowseInv, [Next]_vars PROVE BrowseInv'
    OBVIOUS
  <1>1. CASE UNCHANGED vars
    <2>1. UNCHANGED <<reader, graph, rows, cleared, seeder, cache>>
      BY <1>1 DEF vars
    <2>2. \A k : Current(k)' = Current(k)
      BY <2>1 DEF Current
    <2>3. QED
      BY <2>1, <2>2 DEF BrowseInv, ReaderInv, CacheInv, SeederType
  <1>2. CASE Seed
    BY <1>2, WriteStep, RunStep DEF Seed
  <1>3. CASE \E r \in Readers : Request(r) \/ Proceed(r)
    BY <1>3, ReaderStep
  <1>4. CASE \E k \in Keys : Expire(k)
    BY <1>4, ExpireStep
  <1>5. QED
    BY <1>1, <1>2, <1>3, <1>4 DEF Next

LEMMA Browsing == Spec => []BrowseInv
  BY BrowseInit, BrowseStep, PTL DEF Spec

\* invalidate_subtype_cache and invalidate_tree_cache at the end of a run do what
\* they are for: until the next write nothing in the cache is stale, except for
\* what a request had read before the last one.
THEOREM CacheFreshness == Spec => []CacheFresh
  <1>1. BrowseInv => CacheFresh
    BY DEF BrowseInv, CacheInv, CacheFresh
  <1>2. QED
    BY <1>1, Browsing, PTL

\* No page that is served and no tree that is stored names in English what its
\* locale had a row for when the translations were read: in every graph, the ids
\* that a handler collects reach every place of the page it answers with
\* (search, _get_tree_structure, get_public_detail, get_public_index and
\* get_schema_tree of services/concepts.py).
THEOREM PagesTranslated == Spec => []WholePageTranslated
  <1>1. BrowseInv => WholePageTranslated
    BY DEF BrowseInv, ReaderInv, Sound, PageSound, Gathering, WholePageTranslated
  <1>2. QED
    BY <1>1, Browsing, PTL

\* A search in another language finds all that the English search finds and
\* nothing that may not be tagged, if nothing is written meanwhile.
THEOREM SearchWidened == Spec => []LocaleWidensSearch
  <1>1. BrowseInv => LocaleWidensSearch
    BY DEF BrowseInv, ReaderInv, Sound, SearchSound, Matching, LocaleWidensSearch
  <1>2. QED
    BY <1>1, Browsing, PTL

-----------------------------------------------------------------------------
(* Natural numbers: there is no induction, but a least number of every set.  *)

\* The least of some natural numbers.
LEMMA LeastNat ==
  ASSUME NEW T \in SUBSET Nat, T # {}
  PROVE  \E n \in T : \A m \in T : n <= m
  <1>1. IsWellFoundedOn(OpToRel(<, Nat), Nat)
    BY NatLessThanWellFounded
  <1>2. \E n \in T : \A m \in T : ~(<<m, n>> \in OpToRel(<, Nat))
    BY <1>1, WFMin
  <1>3. \A m, n \in T : ~(<<m, n>> \in OpToRel(<, Nat)) => n <= m
    BY DEF OpToRel
  <1>4. QED
    BY <1>2, <1>3

-----------------------------------------------------------------------------
(* Lists.                                                                   *)

LEMMA ListParts ==
  ASSUME NEW s, IsList(s)
  PROVE  /\ Len(s) \in Nat /\ DOMAIN s = 1..Len(s)
         /\ \A i \in 1..Len(s) : s[i] \in ToSet(s)
         /\ \A x \in ToSet(s) : \E i \in 1..Len(s) : s[i] = x
  BY LenProperties DEF IsList, ToSet

LEMMA ListOf ==
  ASSUME NEW S, NEW s \in Seq(S)
  PROVE  IsList(s) /\ ToSet(s) \subseteq S
  <1>1. Len(s) \in Nat /\ DOMAIN s = 1..Len(s) /\ \A i \in 1..Len(s) : s[i] \in S
    BY LenProperties, ElementOfSeq
  <1>2. s = [i \in 1..Len(s) |-> s[i]]
    BY LenProperties
  <1>3. \A i \in 1..Len(s) : s[i] \in ToSet(s)
    BY <1>1 DEF ToSet
  <1>4. s \in [1..Len(s) -> ToSet(s)]
    BY <1>2, <1>3
  <1>5. s \in Seq(ToSet(s))
    BY <1>1, <1>4, SeqDef
  <1>6. QED
    BY <1>1, <1>5 DEF IsList, ToSet

\* A list with an image for every element of another.
LEMMA ListImage ==
  ASSUME NEW s, IsList(s), NEW t, t = [i \in DOMAIN s |-> t[i]]
  PROVE  IsList(t) /\ Len(t) = Len(s)
  <1>1. Len(s) \in Nat /\ DOMAIN s = 1..Len(s)
    BY ListParts
  <1>2. t \in [1..Len(s) -> ToSet(t)]
    BY <1>1 DEF ToSet
  <1>3. t \in Seq(ToSet(t))
    BY <1>1, <1>2, SeqDef
  <1>4. DOMAIN t = 1..Len(t) /\ Len(t) \in Nat /\ DOMAIN t = 1..Len(s)
    BY <1>1, <1>2, <1>3, LenProperties
  <1>5. QED
    BY <1>1, <1>3, <1>4 DEF IsList

LEMMA SingleList == ASSUME NEW x PROVE IsList(<<x>>) /\ ToSet(<<x>>) = {x} /\ Len(<<x>>) = 1
  <1>1. <<x>> \in Seq({x}) /\ Len(<<x>>) = 1 /\ DOMAIN <<x>> = 1..1 /\ <<x>>[1] = x
    OBVIOUS
  <1>2. IsList(<<x>>)
    BY <1>1, ListOf
  <1>3. ToSet(<<x>>) = {x}
    BY <1>1, ListOf DEF ToSet
  <1>4. QED
    BY <1>1, <1>2, <1>3

LEMMA EmptyList == IsList(<<>>) /\ ToSet(<<>>) = {} /\ Len(<<>>) = 0
  <1>1. ToSet(<<>>) = {}
    BY DEF ToSet
  <1>2. <<>> \in Seq(ToSet(<<>>)) /\ Len(<<>>) = 0
    BY EmptySeq
  <1>3. QED
    BY <1>1, <1>2 DEF IsList

LEMMA JoinedList ==
  ASSUME NEW s, IsList(s), NEW t, IsList(t)
  PROVE  /\ IsList(s \o t) /\ ToSet(s \o t) = ToSet(s) \cup ToSet(t)
         /\ Len(s \o t) = Len(s) + Len(t)
         /\ \A i \in 1..Len(s) : (s \o t)[i] = s[i]
         /\ \A i \in 1..Len(t) : (s \o t)[Len(s) + i] = t[i]
  <1> DEFINE S == ToSet(s) \cup ToSet(t)
  <1>1. s \in Seq(S) /\ t \in Seq(S)
    BY SeqMonotonic DEF IsList
  <1>2. Len(s) \in Nat /\ Len(t) \in Nat
    BY ListParts
  <1>3. /\ s \o t \in Seq(S) /\ Len(s \o t) = Len(s) + Len(t)
        /\ \A i \in 1 .. Len(s) + Len(t) :
             (s \o t)[i] = IF i <= Len(s) THEN s[i] ELSE t[i - Len(s)]
    BY <1>1, ConcatProperties
  <1>4. \A i \in 1..Len(s) : (s \o t)[i] = s[i]
    BY <1>2, <1>3
  <1>5. \A i \in 1..Len(t) : (s \o t)[Len(s) + i] = t[i]
    BY <1>2, <1>3
  <1>6. IsList(s \o t) /\ ToSet(s \o t) \subseteq S
    BY <1>3, ListOf
  <1>7. DOMAIN (s \o t) = 1..Len(s) + Len(t)
    BY <1>3, LenProperties
  <1>8. S \subseteq ToSet(s \o t)
    <2>1. ASSUME NEW x \in ToSet(s) PROVE x \in ToSet(s \o t)
      <3>1. PICK i \in 1..Len(s) : s[i] = x
        BY ListParts
      <3>2. (s \o t)[i] = x /\ i \in DOMAIN (s \o t)
        BY <1>2, <1>4, <1>7, <3>1
      <3>3. QED
        BY <3>2 DEF ToSet
    <2>2. ASSUME NEW x \in ToSet(t) PROVE x \in ToSet(s \o t)
      <3>1. PICK i \in 1..Len(t) : t[i] = x
        BY ListParts
      <3>2. (s \o t)[Len(s) + i] = x /\ Len(s) + i \in DOMAIN (s \o t)
        BY <1>2, <1>5, <1>7, <3>1
      <3>3. QED
        BY <3>2 DEF ToSet
    <2>3. QED
      BY <2>1, <2>2
  <1>9. QED
    BY <1>3, <1>4, <1>5, <1>6, <1>8
\* What holds at a and goes on from each place to the next holds up to n.
LEMMA Climb ==
  ASSUME NEW a \in Nat, NEW n \in Nat, NEW T, a \in T,
         \A m \in a..n : m \in T /\ m < n => m + 1 \in T
  PROVE  a..n \subseteq T
  <1> DEFINE B == (a..n) \ T
  <1> SUFFICES ASSUME B # {} PROVE FALSE
    OBVIOUS
  <1>1. B \in SUBSET Nat
    OBVIOUS
  <1>2. PICK m \in B : \A k \in B : m <= k
    BY <1>1, LeastNat
  <1>3. m \in a..n /\ m # a /\ m - 1 \in a..n /\ m - 1 < n
    BY <1>2
  <1>4. m - 1 \in T
    BY <1>2, <1>3
  <1>5. QED
    BY <1>2, <1>3, <1>4

\* The lists up to a place, one after the other.
Flattens(f, ss, n) ==
    f = [i \in 1..n |-> IF i = 1 THEN ss[i] ELSE f[i - 1] \o ss[i]]

LEMMA LongerFlattens ==
  ASSUME NEW ss, NEW m \in Nat, m >= 1, NEW f, Flattens(f, ss, m)
  PROVE  \E g : Flattens(g, ss, m + 1)
  <1> DEFINE more == f[m] \o ss[m + 1]
             g == [i \in 1..(m + 1) |-> IF i <= m THEN f[i] ELSE more]
  <1>1. \A i \in 1..m : f[i] = IF i = 1 THEN ss[i] ELSE f[i - 1] \o ss[i]
    BY DEF Flattens
  <1> HIDE DEF more
  <1>2. \A i \in 1..m : g[i] = f[i]
    OBVIOUS
  <1>3. g[m + 1] = more /\ g[m] = f[m] /\ m + 1 # 1 /\ m + 1 - 1 = m
    OBVIOUS
  <1>4. g = [i \in 1..(m + 1) |-> g[i]]
    OBVIOUS
  <1> HIDE DEF g
  <1>5. ASSUME NEW i \in 1..(m + 1)
        PROVE  g[i] = IF i = 1 THEN ss[i] ELSE g[i - 1] \o ss[i]
    <2>1. CASE i = m + 1
      <3>1. i # 1 /\ i - 1 = m
        BY <2>1
      <3>2. g[i] = more /\ g[i - 1] = f[m] /\ ss[i] = ss[m + 1]
        BY <1>3, <2>1, <3>1
      <3>3. QED
        BY <3>1, <3>2 DEF more
    <2>2. CASE i \in 1..m
      <3>1. i # 1 => i - 1 \in 1..m
        BY <2>2
      <3>2. QED
        BY <1>1, <1>2, <2>2, <3>1
    <2>3. QED
      BY <2>1, <2>2
  <1>6. Flattens(g, ss, m + 1)
    BY <1>4, <1>5 DEF Flattens
  <1>7. QED
    BY <1>6

LEMMA FlattensExists ==
  ASSUME NEW ss, NEW n \in Nat, n >= 1
  PROVE  \E f : Flattens(f, ss, n)
  <1> DEFINE T == {m \in 1..n : \E f : Flattens(f, ss, m)}
  <1>1. 1 \in T
    <2>1. Flattens([i \in 1..1 |-> ss[i]], ss, 1)
      BY DEF Flattens
    <2>2. QED
      BY <2>1
  <1>2. ASSUME NEW m \in 1..n, m \in T, m < n PROVE m + 1 \in T
    BY <1>2, LongerFlattens
  <1> HIDE DEF T
  <1>3. 1..n \subseteq T
    BY <1>1, <1>2, Climb
  <1>4. QED
    BY <1>3 DEF T

LEMMA FlattenIs ==
  ASSUME NEW ss, Len(ss) \in Nat, Len(ss) # 0
  PROVE  \E f : Flattens(f, ss, Len(ss)) /\ FlattenSeq(ss) = f[Len(ss)]
  <1> DEFINE f == CHOOSE f : f = [i \in 1..Len(ss) |-> IF i = 1 THEN ss[i] ELSE f[i - 1] \o ss[i]]
  <1>1. \E g : g = [i \in 1..Len(ss) |-> IF i = 1 THEN ss[i] ELSE g[i - 1] \o ss[i]]
    <2>1. PICK g : Flattens(g, ss, Len(ss))
      BY FlattensExists
    <2>2. QED
      BY <2>1 DEF Flattens
  <1>2. f = [i \in 1..Len(ss) |-> IF i = 1 THEN ss[i] ELSE f[i - 1] \o ss[i]]
    BY <1>1
  <1>3. FlattenSeq(ss) = f[Len(ss)]
    BY DEF FlattenSeq
  <1> HIDE DEF f
  <1>4. QED
    BY <1>2, <1>3 DEF Flattens

\* Where the part i of what is flattened begins.
Offset(f, i) == IF i = 1 THEN 0 ELSE Len(f[i - 1])

\* The parts up to m lie in f[m] one after the other, and fill it.
LaidOut(f, ss, m) ==
    /\ IsList(f[m])
    /\ \A i \in 1..m : /\ Offset(f, i) \in Nat /\ Offset(f, i) + Len(ss[i]) <= Len(f[m])
                       /\ \A j \in 1..Len(ss[i]) : f[m][Offset(f, i) + j] = ss[i][j]
    /\ \A x \in 1..Len(f[m]) : \E i \in 1..m : \E j \in 1..Len(ss[i]) : x = Offset(f, i) + j

LEMMA MoreLaidOut ==
  ASSUME NEW ss, NEW m \in Nat, m >= 1, NEW f, LaidOut(f, ss, m),
         \A i \in 1..m : IsList(ss[i]), IsList(ss[m + 1]),
         f[m + 1] = f[m] \o ss[m + 1]
  PROVE  LaidOut(f, ss, m + 1)
  <1> DEFINE s == f[m]
             t == ss[m + 1]
             g == f[m + 1]
  <1>1. IsList(s) /\ IsList(t) /\ g = s \o t
    BY DEF LaidOut
  <1>2. Offset(f, m + 1) = Len(s)
    BY DEF Offset
  <1>3. ASSUME NEW i \in 1..m
        PROVE  /\ Offset(f, i) \in Nat /\ Len(ss[i]) \in Nat
               /\ Offset(f, i) + Len(ss[i]) <= Len(s)
               /\ \A j \in 1..Len(ss[i]) : s[Offset(f, i) + j] = ss[i][j]
    BY ListParts DEF LaidOut
  <1>4. \A x \in 1..Len(s) : \E i \in 1..m : \E j \in 1..Len(ss[i]) : x = Offset(f, i) + j
    BY DEF LaidOut
  <1> HIDE DEF s, t, g
  <1>5. Len(s) \in Nat /\ Len(t) \in Nat
    BY <1>1, ListParts
  <1>6. /\ IsList(g) /\ Len(g) = Len(s) + Len(t)
        /\ \A x \in 1..Len(s) : g[x] = s[x]
        /\ \A x \in 1..Len(t) : g[Len(s) + x] = t[x]
    BY <1>1, JoinedList
  <1>7. ASSUME NEW i \in 1..(m + 1)
        PROVE  /\ Offset(f, i) \in Nat /\ Offset(f, i) + Len(ss[i]) <= Len(g)
               /\ \A j \in 1..Len(ss[i]) : g[Offset(f, i) + j] = ss[i][j]
    <2>1. CASE i = m + 1
      <3>1. Offset(f, i) = Len(s) /\ ss[i] = t
        BY <1>2, <2>1 DEF t
      <3>2. QED
        BY <1>5, <1>6, <3>1
    <2>2. CASE i \in 1..m
      <3>1. \A j \in 1..Len(ss[i]) : Offset(f, i) + j \in 1..Len(s)
        BY <1>3, <1>5, <2>2
      <3>2. \A j \in 1..Len(ss[i]) : g[Offset(f, i) + j] = s[Offset(f, i) + j]
        BY <1>6, <3>1
      <3>3. QED
        BY <1>3, <1>5, <1>6, <2>2, <3>2
    <2>3. QED
      BY <2>1, <2>2
  <1>8. ASSUME NEW x \in 1..Len(g)
        PROVE  \E i \in 1..(m + 1) : \E j \in 1..Len(ss[i]) : x = Offset(f, i) + j
    <2>1. CASE x <= Len(s)
      <3>1. x \in 1..Len(s)
        BY <1>5, <1>6, <1>8, <2>1
      <3>2. QED
        BY <1>4, <3>1
    <2>2. CASE ~(x <= Len(s))
      <3>1. x - Len(s) \in 1..Len(t)
        BY <1>5, <1>6, <1>8, <2>2
      <3>2. x \in Int /\ Len(s) \in Int
        BY <1>5, <1>6, <1>8
      <3>3. x = Len(s) + (x - Len(s))
        BY <3>2
      <3>4. m + 1 \in 1..(m + 1)
        OBVIOUS
      <3>5. QED
        BY <1>2, <3>1, <3>3, <3>4 DEF t
    <2>3. QED
      BY <2>1, <2>2
  <1>9. QED
    BY <1>6, <1>7, <1>8 DEF LaidOut, g

LEMMA AllLaidOut ==
  ASSUME NEW ss, NEW n \in Nat, n >= 1, \A i \in 1..n : IsList(ss[i]),
         NEW f, Flattens(f, ss, n)
  PROVE  \A m \in 1..n : LaidOut(f, ss, m)
  <1> DEFINE T == {m \in 1..n : LaidOut(f, ss, m)}
  <1>1. \A i \in 1..n : f[i] = IF i = 1 THEN ss[i] ELSE f[i - 1] \o ss[i]
    BY DEF Flattens
  <1>2. 1 \in T
    <2>1. f[1] = ss[1] /\ IsList(ss[1]) /\ Offset(f, 1) = 0 /\ Len(ss[1]) \in Nat
      BY <1>1, ListParts DEF Offset
    <2>2. LaidOut(f, ss, 1)
      BY <2>1 DEF LaidOut
    <2>3. QED
      BY <2>2
  <1>3. ASSUME NEW m \in 1..n, m \in T, m < n PROVE m + 1 \in T
    <2>1. m + 1 \in 1..n /\ m >= 1 /\ LaidOut(f, ss, m)
      BY <1>3
    <2>2. f[m + 1] = f[m] \o ss[m + 1]
      <3>1. f[m + 1] = IF m + 1 = 1 THEN ss[m + 1] ELSE f[m + 1 - 1] \o ss[m + 1]
        BY <1>1, <2>1
      <3>2. m + 1 # 1 /\ m + 1 - 1 = m
        BY <1>3
      <3>3. QED
        BY <3>1, <3>2
    <2>3. \A i \in 1..m : IsList(ss[i])
      BY <1>3
    <2>4. IsList(ss[m + 1]) /\ m \in Nat
      BY <1>3
    <2>5. LaidOut(f, ss, m + 1)
      BY <2>1, <2>2, <2>3, <2>4, MoreLaidOut
    <2>6. QED
      BY <2>1, <2>5
  <1> HIDE DEF T
  <1>4. 1..n \subseteq T
    BY <1>2, <1>3, Climb
  <1>5. QED
    BY <1>4 DEF T

\* What a flattened list consists of: its parts, in their order.
Consists(flat, ss, off) ==
    /\ IsList(flat)
    /\ \A i \in 1..Len(ss) : /\ off[i] \in Nat /\ off[i] + Len(ss[i]) <= Len(flat)
                             /\ \A j \in 1..Len(ss[i]) : flat[off[i] + j] = ss[i][j]
    /\ \A x \in 1..Len(flat) : \E i \in 1..Len(ss) : \E j \in 1..Len(ss[i]) : x = off[i] + j
    /\ \A i, k \in 1..Len(ss) : i < k => off[i] + Len(ss[i]) <= off[k]

LEMMA Flattened ==
  ASSUME NEW ss, IsList(ss), \A i \in 1..Len(ss) : IsList(ss[i])
  PROVE  \E off : Consists(FlattenSeq(ss), ss, off)
  <1>n. Len(ss) \in Nat
    BY ListParts
  <1>1. CASE Len(ss) = 0
    <2>1. FlattenSeq(ss) = ss
      BY <1>1 DEF FlattenSeq
    <2>2. Consists(ss, ss, <<>>)
      BY <1>1 DEF Consists
    <2>3. QED
      BY <2>1, <2>2
  <1>2. CASE Len(ss) # 0
    <2> DEFINE n == Len(ss)
    <2>1. PICK f : Flattens(f, ss, n) /\ FlattenSeq(ss) = f[n]
      BY <1>n, <1>2, FlattenIs
    <2>2. n >= 1 /\ n \in 1..n
      BY <1>n, <1>2
    <2>3. \A m \in 1..n : LaidOut(f, ss, m)
      BY <1>n, <2>1, <2>2, AllLaidOut
    <2> DEFINE off == [i \in 1..n |-> Offset(f, i)]
    <2>4. \A i \in 1..n : off[i] = Offset(f, i)
      OBVIOUS
    <2> HIDE DEF off
    <2>5. ASSUME NEW i \in 1..n, NEW k \in 1..n, i < k PROVE off[i] + Len(ss[i]) <= off[k]
      <3>1. k - 1 \in 1..n /\ i \in 1..(k - 1) /\ k # 1
        BY <1>n, <2>5
      <3>2. Offset(f, i) + Len(ss[i]) <= Len(f[k - 1])
        BY <2>3, <3>1 DEF LaidOut
      <3>3. Offset(f, k) = Len(f[k - 1])
        BY <3>1 DEF Offset
      <3>4. QED
        BY <2>4, <3>2, <3>3
    <2>6. LaidOut(f, ss, n)
      BY <2>2, <2>3
    <2>7. Consists(f[n], ss, off)
      <3>1. \A i \in 1..n : /\ off[i] \in Nat /\ off[i] + Len(ss[i]) <= Len(f[n])
                            /\ \A j \in 1..Len(ss[i]) : f[n][off[i] + j] = ss[i][j]
        BY <2>4, <2>6 DEF LaidOut
      <3>2. \A x \in 1..Len(f[n]) : \E i \in 1..n : \E j \in 1..Len(ss[i]) : x = off[i] + j
        <4>1. SUFFICES ASSUME NEW x \in 1..Len(f[n])
              PROVE  \E i \in 1..n : \E j \in 1..Len(ss[i]) : x = off[i] + j
          OBVIOUS
        <4>2. PICK i \in 1..n : \E j \in 1..Len(ss[i]) : x = Offset(f, i) + j
          BY <2>6, <4>1 DEF LaidOut
        <4>3. \E j \in 1..Len(ss[i]) : x = off[i] + j
          BY <2>4, <4>2
        <4>4. QED
          BY <4>3
      <3>3. IsList(f[n])
        BY <2>6 DEF LaidOut
      <3>4. QED
        BY <2>5, <3>1, <3>2, <3>3 DEF Consists
    <2>8. QED
      BY <2>1, <2>7
  <1>3. QED
    BY <1>1, <1>2

\* As a set: all that is in its parts.
LEMMA FlattenedSet ==
  ASSUME NEW ss, IsList(ss), \A i \in 1..Len(ss) : IsList(ss[i])
  PROVE  /\ IsList(FlattenSeq(ss))
         /\ ToSet(FlattenSeq(ss)) = UNION {ToSet(ss[i]) : i \in 1..Len(ss)}
  <1> DEFINE flat == FlattenSeq(ss)
  <1>1. PICK off : Consists(flat, ss, off)
    BY Flattened
  <1> HIDE DEF flat
  <1>2. IsList(flat)
    BY <1>1 DEF Consists
  <1>3. ASSUME NEW x \in ToSet(flat) PROVE \E i \in 1..Len(ss) : x \in ToSet(ss[i])
    <2>1. PICK p \in 1..Len(flat) : flat[p] = x
      BY <1>2, ListParts
    <2>2. PICK i \in 1..Len(ss) : \E j \in 1..Len(ss[i]) : p = off[i] + j
      BY <1>1 DEF Consists
    <2>3. \E j \in 1..Len(ss[i]) : x = ss[i][j]
      BY <1>1, <2>1, <2>2 DEF Consists
    <2>4. QED
      BY <2>3, ListParts
  <1>4. ASSUME NEW i \in 1..Len(ss), NEW x \in ToSet(ss[i]) PROVE x \in ToSet(flat)
    <2>1. PICK j \in 1..Len(ss[i]) : ss[i][j] = x
      BY ListParts
    <2>2. /\ off[i] \in Nat /\ off[i] + Len(ss[i]) <= Len(flat) /\ flat[off[i] + j] = x
      BY <1>1, <2>1 DEF Consists
    <2>3. Len(ss[i]) \in Nat /\ Len(flat) \in Nat
      BY <1>2, ListParts
    <2>4. off[i] + j \in 1..Len(flat)
      BY <2>2, <2>3
    <2>5. QED
      BY <1>2, <2>2, <2>4, ListParts
  <1>5. ToSet(flat) = UNION {ToSet(ss[i]) : i \in 1..Len(ss)}
    BY <1>3, <1>4
  <1>6. QED
    BY <1>2, <1>5 DEF flat

-----------------------------------------------------------------------------
(* The order of a program.                                                  *)

NodeKeys(p) == {s.key : s \in {x \in ToSet(p) : x.op = "node"}}

\* A statement before n merges the node.
Before(p, node, n) == \E m \in 1..(n - 1) : p[m].op = "node" /\ p[m].key = node

\* No edge comes before its ends ...
Ready(p) ==
    \A n \in 1..Len(p) : p[n].op = "edge" => \A k \in EndsOf(p[n]) : Before(p, k, n)
\* ... or at least before those that the program merges.
Orderly(p) ==
    \A n \in 1..Len(p) :
        p[n].op = "edge" => \A k \in EndsOf(p[n]) \cap NodeKeys(p) : Before(p, k, n)

\* Where a part of a program has its place, what comes before it stays before it.
LEMMA BeforeInPart ==
  ASSUME NEW p, NEW q, NEW d \in Nat, NEW len \in Nat, \A j \in 1..len : p[d + j] = q[j],
         NEW n \in 1..len, NEW k, Before(q, k, n)
  PROVE  Before(p, k, d + n)
  <1>1. PICK m \in 1..(n - 1) : q[m].op = "node" /\ q[m].key = k
    BY DEF Before
  <1>2. m \in 1..len /\ d + m \in 1..(d + n - 1)
    OBVIOUS
  <1>3. p[d + m] = q[m]
    BY <1>2
  <1>4. QED
    BY <1>1, <1>2, <1>3 DEF Before

LEMMA NodeKeysAt ==
  ASSUME NEW p, IsList(p), NEW k
  PROVE  k \in NodeKeys(p) <=> \E m \in 1..Len(p) : p[m].op = "node" /\ p[m].key = k
  BY ListParts DEF NodeKeys

LEMMA ReadyJoined ==
  ASSUME NEW p, NEW q, IsList(p), IsList(q), Ready(p), Ready(q)
  PROVE  Ready(p \o q)
  <1> DEFINE pq == p \o q
  <1>1. /\ Len(pq) = Len(p) + Len(q) /\ Len(p) \in Nat /\ Len(q) \in Nat
        /\ \A i \in 1..Len(p) : pq[i] = p[i]
        /\ \A i \in 1..Len(q) : pq[Len(p) + i] = q[i]
    BY JoinedList, ListParts
  <1> HIDE DEF pq
  <1>2. ASSUME NEW n \in 1..Len(pq), pq[n].op = "edge", NEW k \in EndsOf(pq[n])
        PROVE  Before(pq, k, n)
    <2>1. CASE n <= Len(p)
      <3>1. n \in 1..Len(p) /\ pq[n] = p[n]
        BY <1>1, <2>1
      <3>2. Before(p, k, n)
        BY <1>2, <3>1 DEF Ready
      <3>3. \A j \in 1..Len(p) : pq[0 + j] = p[j]
        BY <1>1
      <3>4. Before(pq, k, 0 + n)
        BY <1>1, <3>1, <3>2, <3>3, BeforeInPart
      <3>5. 0 + n = n
        OBVIOUS
      <3>6. QED
        BY <3>4, <3>5
    <2>2. CASE ~(n <= Len(p))
      <3>1. PICK j \in 1..Len(q) : n = Len(p) + j
        <4>1. n - Len(p) \in 1..Len(q) /\ n = Len(p) + (n - Len(p))
          BY <1>1, <1>2, <2>2
        <4>2. QED
          BY <4>1
      <3>2. pq[n] = q[j]
        BY <1>1, <3>1
      <3>3. Before(q, k, j)
        BY <1>2, <3>2 DEF Ready
      <3>4. QED
        BY <1>1, <3>1, <3>3, BeforeInPart
    <2>3. QED
      BY <2>1, <2>2
  <1>3. QED
    BY <1>2 DEF Ready, pq

LEMMA ReadyFlat ==
  ASSUME NEW ss, IsList(ss), \A i \in 1..Len(ss) : IsList(ss[i]) /\ Ready(ss[i])
  PROVE  Ready(FlattenSeq(ss))
  <1> DEFINE flat == FlattenSeq(ss)
  <1>1. PICK off : Consists(flat, ss, off)
    BY Flattened
  <1> HIDE DEF flat
  <1>2. ASSUME NEW n \in 1..Len(flat), flat[n].op = "edge", NEW k \in EndsOf(flat[n])
        PROVE  Before(flat, k, n)
    <2>1. PICK i \in 1..Len(ss) : \E j \in 1..Len(ss[i]) : n = off[i] + j
      BY <1>1 DEF Consists
    <2>2. PICK j \in 1..Len(ss[i]) : n = off[i] + j
      BY <2>1
    <2>3. off[i] \in Nat /\ \A x \in 1..Len(ss[i]) : flat[off[i] + x] = ss[i][x]
      BY <1>1 DEF Consists
    <2>4. Before(ss[i], k, j)
      BY <1>2, <2>2, <2>3 DEF Ready
    <2>5. Len(ss[i]) \in Nat
      BY ListParts
    <2>6. QED
      BY <2>2, <2>3, <2>4, <2>5, BeforeInPart
  <1>3. QED
    BY <1>2 DEF Ready, flat

LEMMA OrderlyThen ==
  ASSUME NEW p, NEW q, IsList(p), IsList(q), Orderly(p), \A s \in ToSet(q) : s.op # "node"
  PROVE  Orderly(p \o q)
  <1> DEFINE pq == p \o q
  <1>1. /\ IsList(pq) /\ ToSet(pq) = ToSet(p) \cup ToSet(q)
        /\ Len(pq) = Len(p) + Len(q) /\ Len(p) \in Nat /\ Len(q) \in Nat
        /\ \A i \in 1..Len(p) : pq[i] = p[i]
    BY JoinedList, ListParts
  <1> HIDE DEF pq
  <1>2. NodeKeys(pq) = NodeKeys(p)
    BY <1>1 DEF NodeKeys
  <1>3. ASSUME NEW n \in 1..Len(pq), pq[n].op = "edge", NEW k \in EndsOf(pq[n]) \cap NodeKeys(pq)
        PROVE  Before(pq, k, n)
    <2>1. CASE n <= Len(p)
      <3>1. n \in 1..Len(p) /\ pq[n] = p[n]
        BY <1>1, <1>3, <2>1
      <3>2. Before(p, k, n)
        BY <1>2, <1>3, <3>1 DEF Orderly
      <3>3. PICK m \in 1..(n - 1) : p[m].op = "node" /\ p[m].key = k
        BY <3>2 DEF Before
      <3>4. pq[m] = p[m]
        BY <1>1, <3>1
      <3>5. QED
        BY <3>3, <3>4 DEF Before
    <2>2. CASE ~(n <= Len(p))
      <3>1. PICK m \in 1..Len(p) : p[m].op = "node" /\ p[m].key = k
        BY <1>2, <1>3, NodeKeysAt
      <3>2. pq[m] = p[m] /\ m \in 1..(n - 1)
        BY <1>1, <1>3, <2>2
      <3>3. QED
        BY <3>1, <3>2 DEF Before
    <2>3. QED
      BY <2>1, <2>2
  <1>4. QED
    BY <1>3 DEF Orderly, pq

LEMMA ReadyIsOrderly == ASSUME NEW p, Ready(p) PROVE Orderly(p)
  BY DEF Ready, Orderly

LEMMA PairList ==
  ASSUME NEW x, NEW y
  PROVE  /\ IsList(<<x, y>>) /\ ToSet(<<x, y>>) = {x, y} /\ Len(<<x, y>>) = 2
         /\ <<x, y>>[1] = x /\ <<x, y>>[2] = y
  <1>1. /\ <<x, y>> \in Seq({x, y}) /\ Len(<<x, y>>) = 2 /\ DOMAIN <<x, y>> = 1..2
        /\ <<x, y>>[1] = x /\ <<x, y>>[2] = y
    OBVIOUS
  <1>2. IsList(<<x, y>>) /\ ToSet(<<x, y>>) \subseteq {x, y}
    BY <1>1, ListOf
  <1>3. x \in ToSet(<<x, y>>) /\ y \in ToSet(<<x, y>>)
    BY <1>1 DEF ToSet
  <1>4. QED
    BY <1>1, <1>2, <1>3

\* The list q stands in p after the place d.
PartAt(p, d, q) == \A i \in 1..Len(q) : p[d + i] = q[i]

LEMMA JoinedAs ==
  ASSUME NEW s, IsList(s), NEW t, IsList(t), NEW p, p = s \o t
  PROVE  /\ IsList(p) /\ ToSet(p) = ToSet(s) \cup ToSet(t)
         /\ Len(p) = Len(s) + Len(t) /\ PartAt(p, 0, s) /\ PartAt(p, Len(s), t)
  <1>1. IsList(s \o t) /\ ToSet(s \o t) = ToSet(s) \cup ToSet(t)
    BY JoinedList
  <1>2. /\ Len(s \o t) = Len(s) + Len(t)
        /\ \A i \in 1..Len(s) : (s \o t)[i] = s[i]
        /\ \A i \in 1..Len(t) : (s \o t)[Len(s) + i] = t[i]
    BY JoinedList
  <1>3. \A i \in 1..Len(s) : 0 + i = i
    BY ListParts
  <1>4. PartAt(s \o t, 0, s) /\ PartAt(s \o t, Len(s), t)
    BY <1>2, <1>3 DEF PartAt
  <1>5. QED
    BY <1>1, <1>2, <1>4

IsCons(p, x, t) == p = <<x>> \o t

LEMMA PrefixedList ==
  ASSUME NEW x, NEW t, IsList(t), NEW p, IsCons(p, x, t)
  PROVE  /\ IsList(p) /\ ToSet(p) = {x} \cup ToSet(t)
         /\ Len(p) = 1 + Len(t) /\ p[1] = x /\ Len(t) \in Nat /\ PartAt(p, 1, t)
  <1>1. PICK h : h = <<x>> /\ p = h \o t
    BY DEF IsCons
  <1>2. IsList(h) /\ ToSet(h) = {x} /\ Len(h) = 1
    BY <1>1, SingleList
  <1>3. h[1] = x
    BY <1>1
  <1>4. /\ IsList(p) /\ ToSet(p) = ToSet(h) \cup ToSet(t)
        /\ Len(p) = Len(h) + Len(t) /\ PartAt(p, 0, h) /\ PartAt(p, Len(h), t)
    BY <1>1, <1>2, JoinedAs
  <1>5. Len(t) \in Nat
    BY ListParts
  <1>6. p[1] = x
    <2>1. 1 \in 1..Len(h) /\ 0 + 1 = 1
      BY <1>2
    <2>2. p[0 + 1] = h[1]
      BY <1>4, <2>1 DEF PartAt
    <2>3. QED
      BY <1>3, <2>2
  <1>7. QED
    BY <1>2, <1>4, <1>5, <1>6

ValueNode(v) == Node(Value(v.id), [name |-> v.name, references |-> v.references], NoRows)
ValueEdge(s, v) == Edge("HAS_VALUE", Schema(s.id), Value(v.id), v.order)
SchemaNames(s) ==
    <<English(Schema(s.id), s.name)>> \o Each(s.values, LAMBDA v : English(Value(v.id), v.name))
SchemaNode(s) ==
    Node(Schema(s.id), [name |-> s.name, cardinality |-> s.cardinality], Upserted(SchemaNames(s)))
SchemaValues(s) == [i \in DOMAIN s.values |-> <<ValueNode(s.values[i]), ValueEdge(s, s.values[i])>>]

LEMMA SchemaProgramIs ==
  ASSUME NEW s
  PROVE  SchemaProgram(s) = <<SchemaNode(s)>> \o FlattenSeq(SchemaValues(s))
  BY DEF SchemaProgram, SchemaNode, SchemaNames, SchemaValues, ValueNode, ValueEdge, Flat

\* The rows of a program name nodes that it merges.
RowsBacked(p) == \A x \in ToSet(p) : \A k \in DOMAIN x.rows : k[1] \in NodeKeys(p)

LEMMA NamedRows ==
  ASSUME NEW s, IsList(s.values), NEW k \in DOMAIN Upserted(SchemaNames(s))
  PROVE  k[1] = Schema(s.id) \/ \E v \in ToSet(s.values) : k[1] = Value(v.id)
  <1> DEFINE values == Each(s.values, LAMBDA v : English(Value(v.id), v.name))
  <1>1. values = [i \in DOMAIN s.values |-> English(Value(s.values[i].id), s.values[i].name)]
    BY DEF Each
  <1>2. IsList(values) /\ Len(values) = Len(s.values)
    BY <1>1, ListImage
  <1>3. \A x \in ToSet(values) : \E v \in ToSet(s.values) : x = English(Value(v.id), v.name)
    BY <1>1 DEF ToSet
  <1> HIDE DEF values
  <1>4. ToSet(SchemaNames(s)) = {English(Schema(s.id), s.name)} \cup ToSet(values)
    BY <1>2, SingleList, JoinedList DEF SchemaNames, values
  <1>5. PICK row \in ToSet(SchemaNames(s)) : k = row[1]
    BY DEF Upserted
  <1>6. QED
    BY <1>3, <1>4, <1>5 DEF English

\* What merge_property_schema does.
LEMMA SchemaParts ==
  ASSUME NEW s, IsList(s.values)
  PROVE  /\ IsList(SchemaProgram(s)) /\ Ready(SchemaProgram(s)) /\ RowsBacked(SchemaProgram(s))
         /\ \A x \in ToSet(SchemaProgram(s)) : x.op \in {"node", "edge"}
         /\ Schema(s.id) \in NodeKeys(SchemaProgram(s))
         /\ \A v \in ToSet(s.values) : Value(v.id) \in NodeKeys(SchemaProgram(s))
  <1> DEFINE p == SchemaProgram(s)
             ss == SchemaValues(s)
             flat == FlattenSeq(ss)
  <1>1. IsList(ss) /\ Len(ss) = Len(s.values)
    BY ListImage DEF SchemaValues
  <1>2. \A i \in 1..Len(ss) : ss[i] = <<ValueNode(s.values[i]), ValueEdge(s, s.values[i])>>
    BY <1>1, ListParts DEF SchemaValues
  <1>3. \A i \in 1..Len(ss) :
          /\ IsList(ss[i]) /\ Len(ss[i]) = 2 /\ ss[i][1] = ValueNode(s.values[i])
          /\ ss[i][2] = ValueEdge(s, s.values[i])
          /\ ToSet(ss[i]) = {ValueNode(s.values[i]), ValueEdge(s, s.values[i])}
    <2> SUFFICES ASSUME NEW i \in 1..Len(ss)
        PROVE  /\ IsList(ss[i]) /\ Len(ss[i]) = 2 /\ ss[i][1] = ValueNode(s.values[i])
               /\ ss[i][2] = ValueEdge(s, s.values[i])
               /\ ToSet(ss[i]) = {ValueNode(s.values[i]), ValueEdge(s, s.values[i])}
      OBVIOUS
    <2> DEFINE a == ValueNode(s.values[i])
               b == ValueEdge(s, s.values[i])
    <2>1. ss[i] = <<a, b>>
      BY <1>2
    <2> HIDE DEF a, b, ss
    <2>2. IsList(ss[i]) /\ Len(ss[i]) = 2 /\ ss[i][1] = a /\ ss[i][2] = b /\ ToSet(ss[i]) = {a, b}
      BY <2>1, PairList
    <2>3. QED
      BY <2>2 DEF a, b
  <1>4. /\ IsList(flat) /\ ToSet(flat) = UNION {ToSet(ss[i]) : i \in 1..Len(ss)}
    BY <1>1, <1>3, FlattenedSet
  <1>5. PICK off : Consists(flat, ss, off)
    BY <1>1, <1>3, Flattened
  <1>6. IsCons(p, SchemaNode(s), flat)
    BY SchemaProgramIs DEF IsCons
  <1> HIDE DEF p, ss, flat
  <1>7. /\ IsList(p) /\ ToSet(p) = {SchemaNode(s)} \cup ToSet(flat)
        /\ Len(p) = 1 + Len(flat) /\ p[1] = SchemaNode(s) /\ Len(flat) \in Nat
        /\ PartAt(p, 1, flat)
    BY <1>4, <1>6, PrefixedList
  <1>8. \A x \in ToSet(flat) : \E v \in ToSet(s.values) : x = ValueNode(v) \/ x = ValueEdge(s, v)
    <2> SUFFICES ASSUME NEW x \in ToSet(flat)
        PROVE  \E v \in ToSet(s.values) : x = ValueNode(v) \/ x = ValueEdge(s, v)
      OBVIOUS
    <2>1. PICK i \in 1..Len(ss) : x \in ToSet(ss[i])
      BY <1>4
    <2>2. x = ValueNode(s.values[i]) \/ x = ValueEdge(s, s.values[i])
      BY <1>3, <2>1
    <2>3. s.values[i] \in ToSet(s.values)
      BY <1>1, ListParts
    <2>4. QED
      BY <2>2, <2>3
  <1>9. \A v \in ToSet(s.values) : ValueNode(v) \in ToSet(flat)
    <2> SUFFICES ASSUME NEW v \in ToSet(s.values) PROVE ValueNode(v) \in ToSet(flat)
      OBVIOUS
    <2>1. PICK i \in 1..Len(ss) : s.values[i] = v
      BY <1>1, ListParts
    <2>2. ValueNode(v) \in ToSet(ss[i])
      BY <1>3, <2>1
    <2>3. QED
      BY <1>4, <2>2
  <1>10. /\ SchemaNode(s).op = "node" /\ SchemaNode(s).key = Schema(s.id)
         /\ SchemaNode(s).rows = Upserted(SchemaNames(s))
    BY DEF SchemaNode, Node
  <1>11. \A v : /\ ValueNode(v).op = "node" /\ ValueNode(v).key = Value(v.id)
                /\ ValueNode(v).rows = NoRows
                /\ ValueEdge(s, v).op = "edge" /\ ValueEdge(s, v).rows = NoRows
                /\ ValueEdge(s, v).key[2] = Schema(s.id) /\ ValueEdge(s, v).key[3] = Value(v.id)
    BY DEF ValueNode, ValueEdge, Node, Edge
  <1>12. \A x \in ToSet(p) : x.op \in {"node", "edge"}
    BY <1>7, <1>8, <1>10, <1>11
  <1>13. Schema(s.id) \in NodeKeys(p)
    BY <1>7, <1>10 DEF NodeKeys
  <1>14. \A v \in ToSet(s.values) : Value(v.id) \in NodeKeys(p)
    BY <1>7, <1>9, <1>11 DEF NodeKeys
  <1>15. RowsBacked(p)
    <2>1. ASSUME NEW x \in ToSet(p), NEW k \in DOMAIN x.rows PROVE k[1] \in NodeKeys(p)
      <3>1. CASE x = SchemaNode(s)
        <4>1. k \in DOMAIN Upserted(SchemaNames(s))
          BY <1>10, <2>1, <3>1
        <4>2. k[1] = Schema(s.id) \/ \E v \in ToSet(s.values) : k[1] = Value(v.id)
          BY <4>1, NamedRows
        <4>3. QED
          BY <1>13, <1>14, <4>2
      <3>2. CASE x \in ToSet(flat)
        <4>1. x.rows = NoRows
          BY <1>8, <1>11, <3>2
        <4>2. QED
          BY <2>1, <4>1 DEF NoRows
      <3>3. QED
        BY <1>7, <2>1, <3>1, <3>2
    <2>2. QED
      BY <2>1 DEF RowsBacked
  <1>16. Ready(p)
    <2>1. ASSUME NEW n \in 1..Len(p), p[n].op = "edge", NEW k \in EndsOf(p[n]) PROVE Before(p, k, n)
      <3>1. n # 1
        BY <1>7, <1>10, <2>1
      <3>2. n - 1 \in 1..Len(flat) /\ n = 1 + (n - 1)
        BY <1>7, <2>1, <3>1
      <3>3. PICK i \in 1..Len(ss) : \E j \in 1..Len(ss[i]) : n - 1 = off[i] + j
        BY <1>5, <3>2 DEF Consists
      <3>4. /\ off[i] \in Nat /\ off[i] + 2 <= Len(flat)
            /\ flat[off[i] + 1] = ss[i][1] /\ flat[off[i] + 2] = ss[i][2]
        <4>1. /\ off[i] \in Nat /\ off[i] + Len(ss[i]) <= Len(flat)
              /\ \A j \in 1..Len(ss[i]) : flat[off[i] + j] = ss[i][j]
          BY <1>5 DEF Consists
        <4>2. Len(ss[i]) = 2 /\ 1 \in 1..2 /\ 2 \in 1..2
          BY <1>3
        <4>3. QED
          BY <4>1, <4>2
      <3>5. PICK j \in 1..2 : n - 1 = off[i] + j
        BY <1>3, <3>3
      <3>6. p[n] = flat[off[i] + j]
        BY <1>7, <3>2, <3>5 DEF PartAt
      <3>7. j = 2
        <4>1. ASSUME j = 1 PROVE FALSE
          BY <1>3, <1>11, <2>1, <3>4, <3>6, <4>1
        <4>2. QED
          BY <4>1
      <3>8. p[n] = ValueEdge(s, s.values[i])
        BY <1>3, <3>4, <3>6, <3>7
      <3>9. k = Schema(s.id) \/ k = Value(s.values[i].id)
        BY <1>11, <2>1, <3>8 DEF EndsOf
      <3>10. CASE k = Schema(s.id)
        <4>1. 1 \in 1..(n - 1)
          BY <2>1, <3>1
        <4>2. QED
          BY <1>7, <1>10, <3>10, <4>1 DEF Before
      <3>11. CASE k = Value(s.values[i].id)
        <4>1. n - 1 \in 1..(n - 1) /\ off[i] + 1 \in 1..Len(flat) /\ n - 1 = 1 + (off[i] + 1)
          BY <1>7, <2>1, <3>2, <3>4, <3>5, <3>7
        <4>2. p[n - 1] = ValueNode(s.values[i])
          BY <1>3, <1>7, <3>4, <4>1 DEF PartAt
        <4>3. QED
          BY <1>11, <3>11, <4>1, <4>2 DEF Before
      <3>12. QED
        BY <3>9, <3>10, <3>11
    <2>2. QED
      BY <2>1 DEF Ready
  <1>17. QED
    BY <1>7, <1>12, <1>13, <1>14, <1>15, <1>16 DEF p

-----------------------------------------------------------------------------
(* What _seed_domain does.                                                  *)

\* An edge from a concept or a value, which is all but those from schemas.
Outgoing(x) == x.op = "edge" /\ x.rows = NoRows /\ x.key[2][1] # "PropertySchema"
EdgeList(p) == IsList(p) /\ \A x \in ToSet(p) : Outgoing(x)

LEMMA EdgeImage ==
  ASSUME NEW s, IsList(s), NEW t, t = [i \in DOMAIN s |-> t[i]],
         \A i \in DOMAIN s : Outgoing(t[i])
  PROVE  EdgeList(t)
  <1>1. IsList(t)
    BY ListImage
  <1>2. \A x \in ToSet(t) : \E i \in DOMAIN s : x = t[i]
    BY DEF ToSet
  <1>3. QED
    BY <1>1, <1>2 DEF EdgeList

LEMMA EdgeFlat ==
  ASSUME NEW ss, IsList(ss), \A i \in 1..Len(ss) : EdgeList(ss[i])
  PROVE  EdgeList(FlattenSeq(ss))
  <1>1. \A i \in 1..Len(ss) : IsList(ss[i])
    BY DEF EdgeList
  <1>2. /\ IsList(FlattenSeq(ss))
        /\ ToSet(FlattenSeq(ss)) = UNION {ToSet(ss[i]) : i \in 1..Len(ss)}
    BY <1>1, FlattenedSet
  <1>3. QED
    BY <1>2 DEF EdgeList

LEMMA EdgeFact ==
  ASSUME NEW type, NEW id, NEW to, NEW props
  PROVE  Outgoing(Edge(type, Concept(id), to, props)) /\ Outgoing(Edge(type, Value(id), to, props))
  BY DEF Edge, Outgoing, Concept, Value

LEMMA EdgesOfFile ==
  ASSUME NEW f, IsDomainFile(f)
  PROVE  /\ EdgeList(BelongsTo(f)) /\ EdgeList(TypedEdges(f)) /\ EdgeList(ContainsEdges(f))
         /\ EdgeList(SchemaEdges(f)) /\ EdgeList(ValueReferences(f))
  <1>1. EdgeList(BelongsTo(f))
    <2> DEFINE t == [i \in DOMAIN f.concepts |->
                       Edge("BELONGS_TO", Concept(f.concepts[i].id), Domain(f), Unordered)]
    <2>1. BelongsTo(f) = t
      BY DEF BelongsTo, Each
    <2>2. \A i \in DOMAIN f.concepts : Outgoing(t[i])
      BY EdgeFact
    <2>3. t = [i \in DOMAIN f.concepts |-> t[i]] /\ IsList(f.concepts)
      BY DEF IsDomainFile
    <2> HIDE DEF t
    <2>4. QED
      BY <2>1, <2>2, <2>3, EdgeImage
  <1>2. EdgeList(TypedEdges(f))
    <2> DEFINE of(c) == [j \in DOMAIN c.relationships |->
                 Edge(c.relationships[j].type, Concept(c.id), Concept(c.relationships[j].target),
                      Unordered)]
               ss == [i \in DOMAIN f.concepts |-> of(f.concepts[i])]
    <2>1. TypedEdges(f) = FlattenSeq(ss)
      BY DEF TypedEdges, Flat, Each
    <2>2. ASSUME NEW c \in ToSet(f.concepts) PROVE EdgeList(of(c))
      <3>1. \A j \in DOMAIN c.relationships : Outgoing(of(c)[j])
        BY EdgeFact
      <3>2. of(c) = [j \in DOMAIN c.relationships |-> of(c)[j]] /\ IsList(c.relationships)
        BY DEF IsDomainFile
      <3> HIDE DEF of
      <3>3. QED
        BY <3>1, <3>2, EdgeImage
    <2> HIDE DEF of
    <2>3. IsList(f.concepts) /\ ss = [i \in DOMAIN f.concepts |-> ss[i]]
      BY DEF IsDomainFile
    <2>4. IsList(ss) /\ Len(ss) = Len(f.concepts)
      BY <2>3, ListImage
    <2>5. \A i \in 1..Len(ss) : EdgeList(ss[i])
      BY <2>2, <2>3, <2>4, ListParts
    <2> HIDE DEF ss
    <2>6. QED
      BY <2>1, <2>4, <2>5, EdgeFlat
  <1>3. EdgeList(ContainsEdges(f))
    <2> DEFINE of(c) == [j \in DOMAIN c.contains |->
                 Edge("CONTAINS", Concept(c.id), Concept(c.contains[j].target), c.contains[j].order)]
               ss == [i \in DOMAIN f.concepts |-> of(f.concepts[i])]
    <2>1. ContainsEdges(f) = FlattenSeq(ss)
      BY DEF ContainsEdges, Flat, Each
    <2>2. ASSUME NEW c \in ToSet(f.concepts) PROVE EdgeList(of(c))
      <3>1. \A j \in DOMAIN c.contains : Outgoing(of(c)[j])
        BY EdgeFact
      <3>2. of(c) = [j \in DOMAIN c.contains |-> of(c)[j]] /\ IsList(c.contains)
        BY DEF IsDomainFile
      <3> HIDE DEF of
      <3>3. QED
        BY <3>1, <3>2, EdgeImage
    <2> HIDE DEF of
    <2>3. IsList(f.concepts) /\ ss = [i \in DOMAIN f.concepts |-> ss[i]]
      BY DEF IsDomainFile
    <2>4. IsList(ss) /\ Len(ss) = Len(f.concepts)
      BY <2>3, ListImage
    <2>5. \A i \in 1..Len(ss) : EdgeList(ss[i])
      BY <2>2, <2>3, <2>4, ListParts
    <2> HIDE DEF ss
    <2>6. QED
      BY <2>1, <2>4, <2>5, EdgeFlat
  <1>4. EdgeList(SchemaEdges(f))
    <2> DEFINE of(c) == [j \in DOMAIN c.schemas |->
                 Edge("HAS_PROPERTY_SCHEMA", Concept(c.id), Schema(c.schemas[j].schema),
                      c.schemas[j].order)]
               ss == [i \in DOMAIN f.concepts |-> of(f.concepts[i])]
    <2>1. SchemaEdges(f) = FlattenSeq(ss)
      BY DEF SchemaEdges, Flat, Each
    <2>2. ASSUME NEW c \in ToSet(f.concepts) PROVE EdgeList(of(c))
      <3>1. \A j \in DOMAIN c.schemas : Outgoing(of(c)[j])
        BY EdgeFact
      <3>2. of(c) = [j \in DOMAIN c.schemas |-> of(c)[j]] /\ IsList(c.schemas)
        BY DEF IsDomainFile
      <3> HIDE DEF of
      <3>3. QED
        BY <3>1, <3>2, EdgeImage
    <2> HIDE DEF of
    <2>3. IsList(f.concepts) /\ ss = [i \in DOMAIN f.concepts |-> ss[i]]
      BY DEF IsDomainFile
    <2>4. IsList(ss) /\ Len(ss) = Len(f.concepts)
      BY <2>3, ListImage
    <2>5. \A i \in 1..Len(ss) : EdgeList(ss[i])
      BY <2>2, <2>3, <2>4, ListParts
    <2> HIDE DEF ss
    <2>6. QED
      BY <2>1, <2>4, <2>5, EdgeFlat
  <1>5. EdgeList(ValueReferences(f))
    <2> DEFINE referring(s) == Only(s.values, LAMBDA v : v.references # "none")
               of(s) == [j \in DOMAIN referring(s) |->
                 Edge("VALUE_REFERENCES", Value(referring(s)[j].id),
                      Concept(referring(s)[j].references), Unordered)]
               ss == [i \in DOMAIN f.schemas |-> of(f.schemas[i])]
    <2>1. ValueReferences(f) = FlattenSeq(ss)
      BY DEF ValueReferences, Flat, Each
    <2>2. ASSUME NEW s \in ToSet(f.schemas) PROVE IsList(referring(s))
      <3> DEFINE ones == [i \in DOMAIN s.values |->
                            IF s.values[i].references # "none" THEN <<s.values[i]>> ELSE <<>>]
      <3>1. referring(s) = FlattenSeq(ones)
        BY DEF Only, Flat
      <3>2. IsList(s.values) /\ ones = [i \in DOMAIN s.values |-> ones[i]]
        BY DEF IsDomainFile
      <3>3. IsList(ones)
        BY <3>2, ListImage
      <3>4. \A i \in 1..Len(ones) : i \in DOMAIN s.values
        BY <3>2, <3>3, ListImage, ListParts
      <3>5. \A i \in 1..Len(ones) : IsList(ones[i])
        BY <3>4, SingleList, EmptyList
      <3> HIDE DEF ones, referring
      <3>6. QED
        BY <3>1, <3>3, <3>5, FlattenedSet
    <2> HIDE DEF referring
    <2>3. ASSUME NEW s \in ToSet(f.schemas) PROVE EdgeList(of(s))
      <3>1. \A j \in DOMAIN referring(s) : Outgoing(of(s)[j])
        BY EdgeFact
      <3>2. of(s) = [j \in DOMAIN referring(s) |-> of(s)[j]] /\ IsList(referring(s))
        BY <2>2
      <3> HIDE DEF of
      <3>3. QED
        BY <3>1, <3>2, EdgeImage
    <2> HIDE DEF of
    <2>4. IsList(f.schemas) /\ ss = [i \in DOMAIN f.schemas |-> ss[i]]
      BY DEF IsDomainFile
    <2>5. IsList(ss) /\ Len(ss) = Len(f.schemas)
      BY <2>4, ListImage
    <2>6. \A i \in 1..Len(ss) : EdgeList(ss[i])
      BY <2>3, <2>4, <2>5, ListParts
    <2> HIDE DEF ss
    <2>7. QED
      BY <2>1, <2>5, <2>6, EdgeFlat
  <1>6. QED
    BY <1>1, <1>2, <1>3, <1>4, <1>5

-----------------------------------------------------------------------------
(* What a file's program consists of.                                       *)

Kinds == {"node", "edge", "commit"}

\* What a commit publishes names nodes merged before it.
Backed(p) ==
    \A c \in 1..Len(p) : p[c].op = "commit" =>
        \A n \in 1..c : \A k \in DOMAIN p[n].rows : Before(p, k[1], c)

LEMMA MoreNodeKeys ==
  ASSUME NEW p, NEW q, ToSet(p) \subseteq ToSet(q)
  PROVE  NodeKeys(p) \subseteq NodeKeys(q)
  BY DEF NodeKeys

LEMMA RowsBackedFlat ==
  ASSUME NEW ss, IsList(ss), \A i \in 1..Len(ss) : IsList(ss[i]) /\ RowsBacked(ss[i])
  PROVE  RowsBacked(FlattenSeq(ss))
  <1> DEFINE flat == FlattenSeq(ss)
  <1>1. ToSet(flat) = UNION {ToSet(ss[i]) : i \in 1..Len(ss)}
    BY FlattenedSet
  <1> HIDE DEF flat
  <1>2. ASSUME NEW i \in 1..Len(ss), NEW x \in ToSet(ss[i]), NEW k \in DOMAIN x.rows
        PROVE  k[1] \in NodeKeys(flat)
    <2>1. k[1] \in NodeKeys(ss[i])
      BY DEF RowsBacked
    <2>2. ToSet(ss[i]) \subseteq ToSet(flat)
      BY <1>1
    <2>3. QED
      BY <2>1, <2>2, MoreNodeKeys
  <1>3. QED
    BY <1>1, <1>2 DEF RowsBacked, flat

LEMMA SchemasOfFile ==
  ASSUME NEW f, IsDomainFile(f), NEW p, p = Flat(f.schemas, SchemaProgram)
  PROVE  /\ IsList(p) /\ Ready(p) /\ RowsBacked(p)
         /\ \A x \in ToSet(p) : x.op \in {"node", "edge"}
         /\ \A s \in ToSet(f.schemas) :
              /\ Schema(s.id) \in NodeKeys(p)
              /\ \A v \in ToSet(s.values) : Value(v.id) \in NodeKeys(p)
  <1> DEFINE ss == [i \in DOMAIN f.schemas |-> SchemaProgram(f.schemas[i])]
  <1>1. p = FlattenSeq(ss)
    BY DEF Flat
  <1>2. IsList(f.schemas) /\ \A s \in ToSet(f.schemas) : IsList(s.values)
    BY DEF IsDomainFile
  <1>3. /\ IsList(ss) /\ Len(ss) = Len(f.schemas)
        /\ \A i \in 1..Len(ss) : ss[i] = SchemaProgram(f.schemas[i]) /\ f.schemas[i] \in ToSet(f.schemas)
    BY <1>2, ListImage, ListParts
  <1> HIDE DEF ss
  <1>4. \A i \in 1..Len(ss) : /\ IsList(ss[i]) /\ Ready(ss[i]) /\ RowsBacked(ss[i])
                              /\ \A x \in ToSet(ss[i]) : x.op \in {"node", "edge"}
    BY <1>2, <1>3, SchemaParts
  <1>5. IsList(p) /\ ToSet(p) = UNION {ToSet(ss[i]) : i \in 1..Len(ss)}
    BY <1>1, <1>3, <1>4, FlattenedSet
  <1>6. Ready(p) /\ RowsBacked(p)
    BY <1>1, <1>3, <1>4, ReadyFlat, RowsBackedFlat
  <1>7. \A x \in ToSet(p) : x.op \in {"node", "edge"}
    BY <1>4, <1>5
  <1>8. ASSUME NEW s \in ToSet(f.schemas)
        PROVE  /\ Schema(s.id) \in NodeKeys(p)
               /\ \A v \in ToSet(s.values) : Value(v.id) \in NodeKeys(p)
    <2>1. PICK i \in 1..Len(ss) : f.schemas[i] = s
      BY <1>2, <1>3, ListParts
    <2>2. ToSet(SchemaProgram(s)) \subseteq ToSet(p)
      BY <1>3, <1>5, <2>1
    <2>3. NodeKeys(SchemaProgram(s)) \subseteq NodeKeys(p)
      BY <2>2, MoreNodeKeys
    <2>4. /\ Schema(s.id) \in NodeKeys(SchemaProgram(s))
          /\ \A v \in ToSet(s.values) : Value(v.id) \in NodeKeys(SchemaProgram(s))
      BY <1>2, SchemaParts
    <2>5. QED
      BY <2>3, <2>4
  <1>9. QED
    BY <1>5, <1>6, <1>7, <1>8

LEMMA ConceptsOfFile ==
  ASSUME NEW f, IsDomainFile(f), NEW p, p = Each(f.concepts, ConceptNode)
  PROVE  /\ IsList(p) /\ RowsBacked(p)
         /\ \A x \in ToSet(p) : x.op = "node"
         /\ \A c \in ToSet(f.concepts) : Concept(c.id) \in NodeKeys(p)
  <1>1. p = [i \in DOMAIN f.concepts |-> ConceptNode(f.concepts[i])] /\ IsList(f.concepts)
    BY DEF Each, IsDomainFile
  <1>2. IsList(p) /\ Len(p) = Len(f.concepts)
    BY <1>1, ListImage
  <1>3. \A x \in ToSet(p) : \E c \in ToSet(f.concepts) : x = ConceptNode(c)
    BY <1>1 DEF ToSet
  <1>4. \A c \in ToSet(f.concepts) : ConceptNode(c) \in ToSet(p)
    BY <1>1 DEF ToSet
  <1>5. ASSUME NEW c
        PROVE  /\ ConceptNode(c).op = "node" /\ ConceptNode(c).key = Concept(c.id)
               /\ \A k \in DOMAIN ConceptNode(c).rows : k[1] = Concept(c.id)
    <2> DEFINE row == English(Concept(c.id), c.name)
    <2>1. row[1][1] = Concept(c.id)
      BY DEF English
    <2> HIDE DEF row
    <2>2. ToSet(<<row>>) = {row}
      BY SingleList
    <2>3. \A k \in DOMAIN Upserted(<<row>>) : k = row[1]
      BY <2>2 DEF Upserted
    <2>4. ConceptNode(c).rows = Upserted(<<row>>)
      BY DEF ConceptNode, Node, row
    <2>5. QED
      BY <2>1, <2>3, <2>4 DEF ConceptNode, Node
  <1>6. \A c \in ToSet(f.concepts) : Concept(c.id) \in NodeKeys(p)
    BY <1>4, <1>5 DEF NodeKeys
  <1>7. RowsBacked(p)
    BY <1>3, <1>5, <1>6 DEF RowsBacked
  <1>8. QED
    BY <1>2, <1>3, <1>5, <1>6, <1>7

LEMMA NodesAreReady ==
  ASSUME NEW p, IsList(p), \A x \in ToSet(p) : x.op = "node"
  PROVE  Ready(p)
  BY ListParts DEF Ready

LEMMA RowsBackedJoined ==
  ASSUME NEW p, NEW q, IsList(p), IsList(q), RowsBacked(p), RowsBacked(q)
  PROVE  RowsBacked(p \o q)
  <1>1. ToSet(p \o q) = ToSet(p) \cup ToSet(q)
    BY JoinedList
  <1>2. NodeKeys(p) \subseteq NodeKeys(p \o q) /\ NodeKeys(q) \subseteq NodeKeys(p \o q)
    BY <1>1, MoreNodeKeys
  <1>3. QED
    BY <1>1, <1>2 DEF RowsBacked

\* Edges may follow in any order, for nodes that are merged before all of them.
LEMMA EdgesAdded ==
  ASSUME NEW p, IsList(p), Orderly(p), RowsBacked(p), NEW q, EdgeList(q), NEW r, r = p \o q
  PROVE  IsList(r) /\ Orderly(r) /\ RowsBacked(r) /\ ToSet(r) = ToSet(p) \cup ToSet(q)
  <1>1. IsList(q) /\ \A s \in ToSet(q) : s.op # "node" /\ s.rows = NoRows
    BY DEF EdgeList, Outgoing
  <1>2. IsList(r) /\ ToSet(r) = ToSet(p) \cup ToSet(q)
    BY <1>1, JoinedList
  <1>3. Orderly(r)
    BY <1>1, OrderlyThen
  <1>4. RowsBacked(q)
    BY <1>1 DEF RowsBacked, NoRows
  <1>5. RowsBacked(r)
    BY <1>1, <1>4, RowsBackedJoined
  <1>6. QED
    BY <1>2, <1>3, <1>5

\* What a file declares, as its program brings it.
Declares(p, f) ==
    /\ {x \in ToSet(p) : x.op = "node"} = DeclaredNodes(f)
    /\ {x \in ToSet(p) : x.op = "edge"} = DeclaredEdges(f)
Knows(p, f) ==
    /\ \A c \in ToSet(f.concepts) : Concept(c.id) \in NodeKeys(p)
    /\ \A s \in ToSet(f.schemas) :
         /\ Schema(s.id) \in NodeKeys(p)
         /\ \A v \in ToSet(s.values) : Value(v.id) \in NodeKeys(p)

\* The last statement is a commit.
Closes(p) == p[Len(p)].op = "commit"

CommitAdded(q, p) == q = p \o <<Commit(NoRows)>>

\* The one commit of a file is the last of its statements.
LEMMA Committed ==
  ASSUME NEW p, IsList(p), Orderly(p), RowsBacked(p), \A x \in ToSet(p) : x.op \in {"node", "edge"},
         NEW q, CommitAdded(q, p)
  PROVE  /\ IsList(q) /\ Len(q) >= 1 /\ Orderly(q) /\ RowsBacked(q) /\ Backed(q) /\ Closes(q)
         /\ ToSet(q) = ToSet(p) \cup {Commit(NoRows)}
  <1> DEFINE end == <<Commit(NoRows)>>
  <1>1. Commit(NoRows).op = "commit" /\ Commit(NoRows).rows = NoRows
    BY DEF Commit
  <1>2. IsList(end) /\ ToSet(end) = {Commit(NoRows)} /\ Len(end) = 1
    BY SingleList
  <1>3. q = p \o end
    BY DEF CommitAdded
  <1> HIDE DEF end
  <1>4. /\ IsList(q) /\ ToSet(q) = ToSet(p) \cup {Commit(NoRows)} /\ Len(q) = Len(p) + 1
        /\ \A n \in 1..Len(p) : q[n] = p[n]
        /\ q[Len(q)] = Commit(NoRows)
    <2>1. /\ IsList(p \o end) /\ ToSet(p \o end) = ToSet(p) \cup ToSet(end)
          /\ Len(p \o end) = Len(p) + Len(end)
          /\ \A n \in 1..Len(p) : (p \o end)[n] = p[n]
          /\ \A n \in 1..Len(end) : (p \o end)[Len(p) + n] = end[n]
      <3>1. IsList(end)
        BY <1>2
      <3>2. QED
        BY <3>1, JoinedList
    <2>2. end[1] = Commit(NoRows)
      BY DEF end
    <2>3. QED
      BY <1>2, <1>3, <2>1, <2>2
  <1>5. Orderly(q)
    BY <1>1, <1>2, <1>3, OrderlyThen
  <1>6. RowsBacked(end)
    BY <1>1, <1>2 DEF RowsBacked, NoRows
  <1>7. RowsBacked(q)
    BY <1>2, <1>3, <1>6, RowsBackedJoined
  <1>8. Len(p) \in Nat
    BY ListParts
  <1>9. \A n \in 1..Len(p) : q[n].op # "commit"
    BY <1>4, ListParts
  <1>10. ASSUME NEW c \in 1..Len(q), q[c].op = "commit", NEW n \in 1..c, NEW k \in DOMAIN q[n].rows
         PROVE  Before(q, k[1], c)
    <2>1. c = Len(p) + 1
      BY <1>4, <1>8, <1>9, <1>10
    <2>2. q[n] \in ToSet(q)
      BY <1>4, <1>8, <1>10, ListParts
    <2>3. k[1] \in NodeKeys(q)
      BY <1>7, <1>10, <2>2 DEF RowsBacked
    <2>4. NodeKeys(q) = NodeKeys(p)
      BY <1>1, <1>4 DEF NodeKeys
    <2>5. PICK m \in 1..Len(p) : p[m].op = "node" /\ p[m].key = k[1]
      BY <2>3, <2>4, NodeKeysAt
    <2>6. q[m] = p[m] /\ m \in 1..(c - 1)
      BY <1>4, <1>8, <2>1
    <2>7. QED
      BY <2>5, <2>6 DEF Before
  <1>11. Backed(q)
    BY <1>10 DEF Backed
  <1>12. Closes(q)
    BY <1>1, <1>4 DEF Closes
  <1>13. QED
    BY <1>4, <1>5, <1>7, <1>8, <1>11, <1>12

LEMMA FileParts ==
  ASSUME NEW f, IsDomainFile(f), NEW p, p = DomainProgram(f)
  PROVE  /\ IsList(p) /\ Len(p) >= 1 /\ Orderly(p) /\ RowsBacked(p) /\ Backed(p) /\ Closes(p)
         /\ \A x \in ToSet(p) : x.op \in Kinds
         /\ Declares(p, f) /\ Knows(p, f)
  <1> DEFINE S == Flat(f.schemas, SchemaProgram)
             D == <<DomainNode(f)>>
             C == Each(f.concepts, ConceptNode)
             B == BelongsTo(f)
             T == TypedEdges(f)
             N == ContainsEdges(f)
             H == SchemaEdges(f)
             V == ValueReferences(f)
             p1 == S \o D
             p2 == p1 \o C
             p3 == p2 \o B
             p4 == p3 \o T
             p5 == p4 \o N
             p6 == p5 \o H
             p7 == p6 \o V
             e1 == B \o T
             e2 == e1 \o N
             e3 == e2 \o H
             e4 == e3 \o V
  <1>1. CommitAdded(p, p7)
    BY DEF DomainProgram, CommitAdded
  <1>2. /\ DeclaredNodes(f) = {s \in ToSet(S) : s.op = "node"} \cup {DomainNode(f)} \cup ToSet(C)
        /\ DeclaredEdges(f) = {s \in ToSet(S) : s.op = "edge"} \cup ToSet(e4)
    BY DEF DeclaredNodes, DeclaredEdges
  <1>3. /\ IsList(S) /\ Ready(S) /\ RowsBacked(S)
        /\ \A x \in ToSet(S) : x.op \in {"node", "edge"}
        /\ \A s \in ToSet(f.schemas) :
             /\ Schema(s.id) \in NodeKeys(S)
             /\ \A v \in ToSet(s.values) : Value(v.id) \in NodeKeys(S)
    BY SchemasOfFile
  <1>4. /\ IsList(C) /\ RowsBacked(C) /\ \A x \in ToSet(C) : x.op = "node"
        /\ \A c \in ToSet(f.concepts) : Concept(c.id) \in NodeKeys(C)
    BY ConceptsOfFile
  <1>5. EdgeList(B) /\ EdgeList(T) /\ EdgeList(N) /\ EdgeList(H) /\ EdgeList(V)
    BY EdgesOfFile
  <1>6. IsList(D) /\ ToSet(D) = {DomainNode(f)}
    BY SingleList
  <1>7. DomainNode(f).op = "node" /\ DomainNode(f).rows = NoRows
    BY DEF DomainNode, Node
  <1> HIDE DEF S, D, C, B, T, N, H, V
  <1>8. RowsBacked(D)
    BY <1>6, <1>7 DEF RowsBacked, NoRows
  <1>9. Ready(D) /\ Ready(C)
    BY <1>4, <1>6, <1>7, NodesAreReady
  <1>10. IsList(p1) /\ Ready(p1) /\ RowsBacked(p1) /\ ToSet(p1) = ToSet(S) \cup ToSet(D)
    BY <1>3, <1>6, <1>8, <1>9, JoinedList, ReadyJoined, RowsBackedJoined
  <1> HIDE DEF p1
  <1>11. IsList(p2) /\ Orderly(p2) /\ RowsBacked(p2) /\ ToSet(p2) = ToSet(p1) \cup ToSet(C)
    BY <1>4, <1>9, <1>10, JoinedList, ReadyJoined, ReadyIsOrderly, RowsBackedJoined
  <1> HIDE DEF p2
  <1>12. IsList(p3) /\ Orderly(p3) /\ RowsBacked(p3) /\ ToSet(p3) = ToSet(p2) \cup ToSet(B)
    BY <1>5, <1>11, EdgesAdded
  <1> HIDE DEF p3
  <1>13. IsList(p4) /\ Orderly(p4) /\ RowsBacked(p4) /\ ToSet(p4) = ToSet(p3) \cup ToSet(T)
    BY <1>5, <1>12, EdgesAdded
  <1> HIDE DEF p4
  <1>14. IsList(p5) /\ Orderly(p5) /\ RowsBacked(p5) /\ ToSet(p5) = ToSet(p4) \cup ToSet(N)
    BY <1>5, <1>13, EdgesAdded
  <1> HIDE DEF p5
  <1>15. IsList(p6) /\ Orderly(p6) /\ RowsBacked(p6) /\ ToSet(p6) = ToSet(p5) \cup ToSet(H)
    BY <1>5, <1>14, EdgesAdded
  <1> HIDE DEF p6
  <1>16. IsList(p7) /\ Orderly(p7) /\ RowsBacked(p7) /\ ToSet(p7) = ToSet(p6) \cup ToSet(V)
    BY <1>5, <1>15, EdgesAdded
  <1> HIDE DEF p7
  <1>17. IsList(B) /\ IsList(T) /\ IsList(N) /\ IsList(H) /\ IsList(V)
    BY <1>5 DEF EdgeList
  <1>18. IsList(e1) /\ ToSet(e1) = ToSet(B) \cup ToSet(T)
    BY <1>17, JoinedList
  <1> HIDE DEF e1
  <1>19. IsList(e2) /\ ToSet(e2) = ToSet(e1) \cup ToSet(N)
    BY <1>17, <1>18, JoinedList
  <1> HIDE DEF e2
  <1>20. IsList(e3) /\ ToSet(e3) = ToSet(e2) \cup ToSet(H)
    BY <1>17, <1>19, JoinedList
  <1> HIDE DEF e3
  <1>21. IsList(e4) /\ ToSet(e4) = ToSet(e3) \cup ToSet(V)
    BY <1>17, <1>20, JoinedList
  <1> HIDE DEF e4
  <1>22. ToSet(p7) = ToSet(S) \cup {DomainNode(f)} \cup ToSet(C) \cup ToSet(e4)
    BY <1>6, <1>10, <1>11, <1>12, <1>13, <1>14, <1>15, <1>16, <1>18, <1>19, <1>20, <1>21
  <1>23. \A x \in ToSet(e4) : x.op = "edge"
    BY <1>5, <1>18, <1>19, <1>20, <1>21 DEF EdgeList, Outgoing
  <1>24. \A x \in ToSet(p7) : x.op \in {"node", "edge"}
    BY <1>3, <1>4, <1>7, <1>22, <1>23
  <1>25. /\ IsList(p) /\ Len(p) >= 1 /\ Orderly(p) /\ RowsBacked(p) /\ Backed(p) /\ Closes(p)
         /\ ToSet(p) = ToSet(p7) \cup {Commit(NoRows)}
    BY <1>1, <1>16, <1>24, Committed
  <1>26. Commit(NoRows).op = "commit"
    BY DEF Commit
  <1>27. \A x \in ToSet(p) : x.op \in Kinds
    BY <1>24, <1>25, <1>26 DEF Kinds
  <1>28. {x \in ToSet(p) : x.op = "node"} = DeclaredNodes(f)
    BY <1>2, <1>4, <1>7, <1>22, <1>23, <1>25, <1>26
  <1>29. {x \in ToSet(p) : x.op = "edge"} = DeclaredEdges(f)
    BY <1>2, <1>4, <1>7, <1>22, <1>23, <1>25, <1>26
  <1>30. NodeKeys(S) \subseteq NodeKeys(p) /\ NodeKeys(C) \subseteq NodeKeys(p)
    BY <1>22, <1>25, MoreNodeKeys
  <1>31. Knows(p, f)
    BY <1>3, <1>4, <1>30 DEF Knows
  <1>32. QED
    BY <1>25, <1>27, <1>28, <1>29, <1>31 DEF Declares

-----------------------------------------------------------------------------
(* What the program of a run consists of.                                   *)

\* Where the statement n of the flattened list comes from, and where the parts lie.
PartOf(n, i, j, ss, off) == i \in 1..Len(ss) /\ j \in 1..Len(ss[i]) /\ n = off[i] + j

LEMMA LiesIn ==
  ASSUME NEW ss, NEW flat, NEW off, Consists(flat, ss, off), NEW n \in 1..Len(flat)
  PROVE  \E i, j : PartOf(n, i, j, ss, off)
  <1>1. PICK i \in 1..Len(ss) : \E j \in 1..Len(ss[i]) : n = off[i] + j
    BY DEF Consists
  <1>2. PICK j \in 1..Len(ss[i]) : n = off[i] + j
    BY <1>1
  <1>3. PartOf(n, i, j, ss, off)
    BY <1>2 DEF PartOf
  <1>4. QED
    BY <1>3

\* A place in an earlier part is an earlier place.
LEMMA EarlierPlace ==
  ASSUME NEW d \in Nat, NEW len \in Nat, NEW m \in 1..len, NEW e \in Nat, d + len <= e,
         NEW j \in Nat, j >= 1
  PROVE  d + m \in 1..((e + j) - 1)
  OBVIOUS

LEMMA BackedFlat ==
  ASSUME NEW ss, IsList(ss),
         \A i \in 1..Len(ss) : IsList(ss[i]) /\ RowsBacked(ss[i]) /\ Backed(ss[i])
  PROVE  Backed(FlattenSeq(ss))
  <1> DEFINE flat == FlattenSeq(ss)
  <1>1. PICK off : Consists(flat, ss, off)
    BY Flattened
  <1> HIDE DEF flat
  <1>2. \A i \in 1..Len(ss) : /\ off[i] \in Nat /\ Len(ss[i]) \in Nat
                              /\ off[i] + Len(ss[i]) <= Len(flat)
                              /\ \A j \in 1..Len(ss[i]) : flat[off[i] + j] = ss[i][j]
    BY <1>1, ListParts DEF Consists
  <1>3. \A i, k \in 1..Len(ss) : i < k => off[i] + Len(ss[i]) <= off[k]
    BY <1>1 DEF Consists
  <1>4. IsList(flat) /\ Len(flat) \in Nat /\ Len(ss) \in Nat
    BY <1>1, ListParts DEF Consists
  <1>5. ASSUME NEW c \in 1..Len(flat), flat[c].op = "commit", NEW n \in 1..c,
               NEW k \in DOMAIN flat[n].rows
        PROVE  Before(flat, k[1], c)
    <2>1. n \in 1..Len(flat)
      BY <1>4, <1>5
    <2>2. PICK i, j : PartOf(c, i, j, ss, off)
      BY <1>1, <1>5, LiesIn
    <2>3. PICK a, b : PartOf(n, a, b, ss, off)
      BY <1>1, <2>1, LiesIn
    <2>4. /\ i \in 1..Len(ss) /\ j \in 1..Len(ss[i]) /\ c = off[i] + j
          /\ a \in 1..Len(ss) /\ b \in 1..Len(ss[a]) /\ n = off[a] + b
      BY <2>2, <2>3 DEF PartOf
    <2>5. flat[c] = ss[i][j] /\ flat[n] = ss[a][b]
      BY <1>2, <2>4
    <2>6. ~(i < a)
      <3>1. i < a => off[i] + Len(ss[i]) <= off[a]
        BY <1>3, <2>4
      <3>2. off[i] \in Nat /\ off[a] \in Nat /\ Len(ss[i]) \in Nat /\ Len(ss[a]) \in Nat
        BY <1>2, <2>4
      <3>3. QED
        BY <1>5, <2>4, <3>1, <3>2
    <2>7. CASE a = i
      <3>1. b \in 1..j
        BY <1>2, <1>5, <2>4, <2>7
      <3>2. Before(ss[i], k[1], j)
        BY <1>5, <2>4, <2>5, <2>7, <3>1 DEF Backed
      <3>3. QED
        BY <1>2, <2>4, <3>2, BeforeInPart
    <2>8. CASE a < i
      <3>1. ss[a][b] \in ToSet(ss[a])
        BY <2>4, ListParts
      <3>2. k[1] \in NodeKeys(ss[a])
        BY <1>5, <2>4, <2>5, <3>1 DEF RowsBacked
      <3>3. PICK m \in 1..Len(ss[a]) : ss[a][m].op = "node" /\ ss[a][m].key = k[1]
        BY <2>4, <3>2, NodeKeysAt
      <3>4. flat[off[a] + m] = ss[a][m]
        BY <1>2, <2>4
      <3>5. off[a] + Len(ss[a]) <= off[i]
        BY <1>3, <2>4, <2>8
      <3>6. off[a] + m \in 1..(c - 1)
        <4>1. /\ off[a] \in Nat /\ Len(ss[a]) \in Nat /\ off[i] \in Nat /\ Len(ss[i]) \in Nat
          BY <1>2, <2>4
        <4>2. j \in Nat /\ j >= 1 /\ c = off[i] + j
          BY <2>4, <4>1
        <4>3. QED
          BY <3>5, <4>1, <4>2, EarlierPlace
      <3>7. QED
        BY <3>3, <3>4, <3>6 DEF Before
    <2>9. a < i \/ a = i
      BY <1>4, <2>4, <2>6
    <2>10. QED
      BY <2>7, <2>8, <2>9
  <1>6. QED
    BY <1>5 DEF Backed, flat

\* The program has the statement at a place where it has merged its ends.
Arrives(p, s) == \E n \in 1..Len(p) : p[n] = s /\ \A k \in EndsOf(s) : Before(p, k, n)

LEMMA ArrivesFlat ==
  ASSUME NEW ss, IsList(ss), \A i \in 1..Len(ss) : IsList(ss[i]) /\ Orderly(ss[i]),
         NEW i \in 1..Len(ss), NEW s \in ToSet(ss[i]), s.op = "edge",
         \A k \in EndsOf(s) : \E a \in 1..i : k \in NodeKeys(ss[a])
  PROVE  Arrives(FlattenSeq(ss), s)
  <1> DEFINE flat == FlattenSeq(ss)
  <1>1. PICK off : Consists(flat, ss, off)
    BY Flattened
  <1> HIDE DEF flat
  <1>2. \A a \in 1..Len(ss) : /\ off[a] \in Nat /\ Len(ss[a]) \in Nat
                              /\ off[a] + Len(ss[a]) <= Len(flat)
                              /\ \A j \in 1..Len(ss[a]) : flat[off[a] + j] = ss[a][j]
    BY <1>1, ListParts DEF Consists
  <1>3. IsList(flat) /\ Len(flat) \in Nat /\ Len(ss) \in Nat
    BY <1>1, ListParts DEF Consists
  <1>4. PICK j \in 1..Len(ss[i]) : ss[i][j] = s
    BY ListParts
  <1>5. off[i] + j \in 1..Len(flat) /\ flat[off[i] + j] = s
    BY <1>2, <1>3, <1>4
  <1>6. ASSUME NEW k \in EndsOf(s) PROVE Before(flat, k, off[i] + j)
    <2>1. PICK a \in 1..i : k \in NodeKeys(ss[a])
      OBVIOUS
    <2>2. a \in 1..Len(ss)
      BY <1>3
    <2>3. CASE a = i
      <3>1. Before(ss[i], k, j)
        BY <1>4, <2>1, <2>3 DEF Orderly
      <3>2. QED
        BY <1>2, <1>4, <3>1, BeforeInPart
    <2>4. CASE a < i
      <3>1. PICK m \in 1..Len(ss[a]) : ss[a][m].op = "node" /\ ss[a][m].key = k
        BY <2>1, <2>2, NodeKeysAt
      <3>2. flat[off[a] + m] = ss[a][m]
        BY <1>2, <2>2
      <3>3. off[a] + Len(ss[a]) <= off[i]
        BY <1>1, <2>2, <2>4 DEF Consists
      <3>4. off[a] + m \in 1..((off[i] + j) - 1)
        <4>1. /\ off[a] \in Nat /\ Len(ss[a]) \in Nat /\ off[i] \in Nat /\ Len(ss[i]) \in Nat
          BY <1>2, <2>2
        <4>2. j \in Nat /\ j >= 1
          BY <4>1
        <4>3. QED
          BY <3>3, <4>1, <4>2, EarlierPlace
      <3>5. QED
        BY <3>1, <3>2, <3>4 DEF Before
    <2>5. a < i \/ a = i
      BY <1>3, <2>1
    <2>6. QED
      BY <2>3, <2>4, <2>5
  <1>7. QED
    BY <1>5, <1>6 DEF Arrives, flat

LEMMA NonEmptyList == ASSUME NEW p, IsList(p), NEW x \in ToSet(p) PROVE Len(p) >= 1
  BY ListParts

LEMMA ClosesFlat ==
  ASSUME NEW ss, IsList(ss), \A i \in 1..Len(ss) : IsList(ss[i]) /\ Len(ss[i]) >= 1 /\ Closes(ss[i]),
         Len(FlattenSeq(ss)) >= 1
  PROVE  Closes(FlattenSeq(ss))
  <1> DEFINE flat == FlattenSeq(ss)
  <1>1. PICK off : Consists(flat, ss, off)
    BY Flattened
  <1>2. Len(flat) >= 1
    OBVIOUS
  <1> HIDE DEF flat
  <1>3. IsList(flat) /\ Len(flat) \in Nat
    BY <1>1, ListParts DEF Consists
  <1>4. Len(flat) \in 1..Len(flat)
    BY <1>2, <1>3
  <1>5. PICK i, j : PartOf(Len(flat), i, j, ss, off)
    BY <1>1, <1>4, LiesIn
  <1>6. i \in 1..Len(ss) /\ j \in 1..Len(ss[i]) /\ Len(flat) = off[i] + j
    BY <1>5 DEF PartOf
  <1>7. off[i] \in Nat /\ Len(ss[i]) \in Nat /\ off[i] + Len(ss[i]) <= Len(flat)
    BY <1>1, <1>6, ListParts DEF Consists
  <1>8. j = Len(ss[i])
    BY <1>3, <1>6, <1>7
  <1>9. flat[off[i] + j] = ss[i][j]
    BY <1>1, <1>6 DEF Consists
  <1>10. flat[Len(flat)] = ss[i][Len(ss[i])]
    BY <1>6, <1>8, <1>9
  <1>11. QED
    BY <1>6, <1>10 DEF Closes, flat

LEMMA FilesParts ==
  ASSUME NEW fs, IsList(fs), \A f \in ToSet(fs) : IsDomainFile(f),
         NEW p, p = Flat(fs, DomainProgram)
  PROVE  /\ IsList(p) /\ (fs # <<>> => Len(p) >= 1 /\ Closes(p)) /\ RowsBacked(p) /\ Backed(p)
         /\ \A x \in ToSet(p) : x.op \in Kinds
         /\ \A f \in ToSet(fs) : Knows(p, f)
         /\ {x \in ToSet(p) : x.op = "node"} = UNION {DeclaredNodes(f) : f \in ToSet(fs)}
         /\ {x \in ToSet(p) : x.op = "edge"} = UNION {DeclaredEdges(f) : f \in ToSet(fs)}
         /\ \A s \in BackwardEdges(fs) : Arrives(p, s)
  <1> DEFINE ss == [i \in DOMAIN fs |-> DomainProgram(fs[i])]
  <1>1. p = FlattenSeq(ss)
    BY DEF Flat
  <1>2. IsList(ss) /\ Len(ss) = Len(fs)
    BY ListImage
  <1>3. Len(fs) \in Nat /\ DOMAIN fs = 1..Len(fs) /\ \A i \in 1..Len(ss) : fs[i] \in ToSet(fs)
    BY <1>2, ListParts
  <1>4. \A i \in 1..Len(ss) : ss[i] = DomainProgram(fs[i])
    BY <1>2, <1>3
  <1> HIDE DEF ss
  <1>5. \A i \in 1..Len(ss) :
           /\ IsList(ss[i]) /\ Len(ss[i]) >= 1 /\ Orderly(ss[i]) /\ RowsBacked(ss[i]) /\ Backed(ss[i])
           /\ Closes(ss[i])
           /\ \A x \in ToSet(ss[i]) : x.op \in Kinds
           /\ Declares(ss[i], fs[i]) /\ Knows(ss[i], fs[i])
    BY <1>3, <1>4, FileParts
  <1>6. IsList(p) /\ ToSet(p) = UNION {ToSet(ss[i]) : i \in 1..Len(ss)}
    BY <1>1, <1>2, <1>5, FlattenedSet
  <1>7. RowsBacked(p) /\ Backed(p)
    BY <1>1, <1>2, <1>5, RowsBackedFlat, BackedFlat
  <1>8. \A x \in ToSet(p) : x.op \in Kinds
    BY <1>5, <1>6
  <1>9. ASSUME fs # <<>> PROVE Len(p) >= 1 /\ Closes(p)
    <2>1. Len(fs) # 0
      BY <1>3, <1>9, EmptySeq DEF IsList
    <2>2. 1 \in 1..Len(ss)
      BY <1>2, <1>3, <2>1
    <2>3. IsList(ss[1]) /\ Len(ss[1]) >= 1
      BY <1>5, <2>2
    <2>4. 1 \in 1..Len(ss[1])
      BY <2>3, ListParts
    <2>5. ss[1][1] \in ToSet(p)
      BY <1>6, <2>2, <2>3, <2>4, ListParts
    <2>6. IsList(p)
      BY <1>6
    <2>7. Len(p) >= 1
      BY <2>5, <2>6, NonEmptyList
    <2>8. QED
      BY <1>1, <1>2, <1>5, <2>7, ClosesFlat
  <1>10. \A f \in ToSet(fs) : \E i \in 1..Len(ss) : fs[i] = f
    BY <1>2, ListParts
  <1>11. ASSUME NEW f \in ToSet(fs) PROVE Knows(p, f)
    <2>1. PICK i \in 1..Len(ss) : fs[i] = f
      BY <1>10
    <2>2. Knows(ss[i], f) /\ ToSet(ss[i]) \subseteq ToSet(p)
      BY <1>5, <1>6, <2>1
    <2>3. NodeKeys(ss[i]) \subseteq NodeKeys(p)
      BY <2>2, MoreNodeKeys
    <2>4. QED
      BY <2>2, <2>3 DEF Knows
  <1>12. {x \in ToSet(p) : x.op = "node"} = UNION {DeclaredNodes(f) : f \in ToSet(fs)}
    <2>1. \A i \in 1..Len(ss) : {x \in ToSet(ss[i]) : x.op = "node"} = DeclaredNodes(fs[i])
      BY <1>5 DEF Declares
    <2>2. \A x : x \in ToSet(p) /\ x.op = "node" <=> \E i \in 1..Len(ss) : x \in DeclaredNodes(fs[i])
      BY <1>6, <2>1
    <2>3. QED
      BY <1>3, <1>10, <2>2
  <1>13. {x \in ToSet(p) : x.op = "edge"} = UNION {DeclaredEdges(f) : f \in ToSet(fs)}
    <2>1. \A i \in 1..Len(ss) : {x \in ToSet(ss[i]) : x.op = "edge"} = DeclaredEdges(fs[i])
      BY <1>5 DEF Declares
    <2>2. \A x : x \in ToSet(p) /\ x.op = "edge" <=> \E i \in 1..Len(ss) : x \in DeclaredEdges(fs[i])
      BY <1>6, <2>1
    <2>3. QED
      BY <1>3, <1>10, <2>2
  <1>14. ASSUME NEW s \in BackwardEdges(fs) PROVE Arrives(p, s)
    <2>1. PICK i \in DOMAIN fs :
            /\ s \in DeclaredEdges(fs[i])
            /\ {s.key[2], s.key[3]} \subseteq
                 {n.key : n \in UNION {DeclaredNodes(fs[j]) : j \in 1..i}}
      BY DEF BackwardEdges
    <2>2. i \in 1..Len(ss)
      BY <1>2, <1>3
    <2>3. s \in ToSet(ss[i]) /\ s.op = "edge"
      BY <1>5, <2>1, <2>2 DEF Declares
    <2>4. ASSUME NEW k \in EndsOf(s) PROVE \E a \in 1..i : k \in NodeKeys(ss[a])
      <3>1. PICK a \in 1..i : \E n \in DeclaredNodes(fs[a]) : n.key = k
        BY <2>1 DEF EndsOf
      <3>2. a \in 1..Len(ss)
        BY <1>2, <1>3, <2>2
      <3>3. k \in NodeKeys(ss[a])
        BY <1>5, <3>1, <3>2 DEF Declares, NodeKeys
      <3>4. QED
        BY <3>3
    <2>5. QED
      BY <1>1, <1>2, <1>5, <2>2, <2>3, <2>4, ArrivesFlat
  <1>15. QED
    BY <1>6, <1>7, <1>8, <1>9, <1>11, <1>12, <1>13, <1>14

\* The overlays: a commit each, of rows that name what the files know.
LEMMA OverlayParts ==
  ASSUME NEW os, IsList(os), \A o \in ToSet(os) : IsList(o.rows),
         NEW q, q = Flat(os, OverlayProgram)
  PROVE  /\ IsList(q) /\ \A x \in ToSet(q) : x.op = "commit"
         /\ \A x \in ToSet(q) : \A k \in DOMAIN x.rows :
              \E o \in ToSet(os) : \E row \in ToSet(o.rows) : k[1] = row.node
  <1> DEFINE ss == [i \in DOMAIN os |-> OverlayProgram(os[i])]
             Named(x, o) == \A k \in DOMAIN x.rows : \E row \in ToSet(o.rows) : k[1] = row.node
  <1>1. q = FlattenSeq(ss)
    BY DEF Flat
  <1>2. IsList(ss) /\ Len(ss) = Len(os)
    BY ListImage
  <1>3. \A i \in 1..Len(ss) : ss[i] = OverlayProgram(os[i]) /\ os[i] \in ToSet(os)
    BY <1>2, ListParts
  <1> HIDE DEF ss
  <1>4. ASSUME NEW o \in ToSet(os)
        PROVE  /\ IsList(OverlayProgram(o))
               /\ \A x \in ToSet(OverlayProgram(o)) : x.op = "commit" /\ Named(x, o)
    <2> DEFINE list == [i \in DOMAIN o.rows |-> <<<<o.rows[i].node, o.language>>, o.rows[i].name>>]
               only == Commit(Upserted(list))
    <2>1. OverlayProgram(o) = <<only>>
      BY DEF OverlayProgram, Each
    <2>2. \A r \in ToSet(list) : \E row \in ToSet(o.rows) : r[1][1] = row.node
      <3>1. \A r \in ToSet(list) : \E i \in DOMAIN o.rows : r = list[i]
        BY DEF ToSet
      <3>2. \A i \in DOMAIN o.rows : list[i][1][1] = o.rows[i].node
        OBVIOUS
      <3>3. \A i \in DOMAIN o.rows : o.rows[i] \in ToSet(o.rows)
        BY DEF ToSet
      <3> HIDE DEF list
      <3>4. QED
        BY <3>1, <3>2, <3>3
    <2> HIDE DEF list
    <2>3. \A k \in DOMAIN Upserted(list) : \E r \in ToSet(list) : k = r[1]
      BY DEF Upserted
    <2>4. only.op = "commit" /\ only.rows = Upserted(list)
      BY DEF Commit
    <2>5. Named(only, o)
      BY <2>2, <2>3, <2>4
    <2> HIDE DEF only, Named
    <2>6. IsList(OverlayProgram(o)) /\ ToSet(OverlayProgram(o)) = {only}
      BY <2>1, SingleList
    <2>7. QED
      BY <2>4, <2>5, <2>6 DEF only
  <1> HIDE DEF Named
  <1>5. \A i \in 1..Len(ss) : /\ IsList(ss[i])
                              /\ \A x \in ToSet(ss[i]) : x.op = "commit" /\ Named(x, os[i])
    BY <1>3, <1>4
  <1>6. IsList(q) /\ ToSet(q) = UNION {ToSet(ss[i]) : i \in 1..Len(ss)}
    BY <1>1, <1>2, <1>5, FlattenedSet
  <1>7. \A x \in ToSet(q) : x.op = "commit" /\ \E o \in ToSet(os) : Named(x, o)
    BY <1>3, <1>5, <1>6
  <1>8. QED
    BY <1>6, <1>7 DEF Named

\* A commit of rows that name nodes merged before.
LEMMA CommitsAdded ==
  ASSUME NEW p, IsList(p), RowsBacked(p), Backed(p), NEW q, IsList(q),
         \A x \in ToSet(q) : x.op = "commit" /\ \A k \in DOMAIN x.rows : k[1] \in NodeKeys(p)
  PROVE  Backed(p \o q)
  <1> DEFINE r == p \o q
  <1>1. /\ IsList(r) /\ Len(r) = Len(p) + Len(q) /\ Len(p) \in Nat /\ Len(q) \in Nat
        /\ \A i \in 1..Len(p) : r[i] = p[i]
        /\ \A i \in 1..Len(q) : r[Len(p) + i] = q[i]
    BY JoinedList, ListParts
  <1> HIDE DEF r
  <1>2. ASSUME NEW c \in 1..Len(r), r[c].op = "commit", NEW n \in 1..c, NEW k \in DOMAIN r[n].rows
        PROVE  Before(r, k[1], c)
    <2>1. CASE c <= Len(p)
      <3>1. c \in 1..Len(p) /\ r[c] = p[c] /\ n \in 1..Len(p) /\ r[n] = p[n]
        BY <1>1, <1>2, <2>1
      <3>2. Before(p, k[1], c)
        BY <1>2, <3>1 DEF Backed
      <3>3. PICK m \in 1..(c - 1) : p[m].op = "node" /\ p[m].key = k[1]
        BY <3>2 DEF Before
      <3>4. r[m] = p[m]
        BY <1>1, <3>1
      <3>5. QED
        BY <3>3, <3>4 DEF Before
    <2>2. CASE ~(c <= Len(p))
      <3>1. k[1] \in NodeKeys(p)
        <4>1. CASE n <= Len(p)
          <5>1. r[n] = p[n] /\ n \in 1..Len(p)
            BY <1>1, <1>2, <4>1
          <5>2. p[n] \in ToSet(p)
            BY <5>1, ListParts
          <5>3. QED
            BY <1>2, <5>1, <5>2 DEF RowsBacked
        <4>2. CASE ~(n <= Len(p))
          <5>1. n - Len(p) \in 1..Len(q) /\ n = Len(p) + (n - Len(p))
            BY <1>1, <1>2, <4>2
          <5>2. r[n] = q[n - Len(p)]
            BY <1>1, <5>1
          <5>3. r[n] \in ToSet(q)
            BY <5>1, <5>2, ListParts
          <5>4. QED
            BY <1>2, <5>3
        <4>3. QED
          BY <4>1, <4>2
      <3>2. PICK m \in 1..Len(p) : p[m].op = "node" /\ p[m].key = k[1]
        BY <3>1, NodeKeysAt
      <3>3. r[m] = p[m] /\ m \in 1..(c - 1)
        BY <1>1, <1>2, <2>2
      <3>4. QED
        BY <3>2, <3>3 DEF Before
    <2>3. QED
      BY <2>1, <2>2
  <1>3. QED
    BY <1>2 DEF Backed, r

LEMMA ArrivesThen ==
  ASSUME NEW p, IsList(p), NEW q, IsList(q), NEW s, Arrives(p, s)
  PROVE  Arrives(p \o q, s)
  <1> DEFINE r == p \o q
  <1>1. /\ Len(r) = Len(p) + Len(q) /\ Len(p) \in Nat /\ Len(q) \in Nat
        /\ \A i \in 1..Len(p) : r[i] = p[i]
    BY JoinedList, ListParts
  <1> HIDE DEF r
  <1>2. PICK n \in 1..Len(p) : p[n] = s /\ \A k \in EndsOf(s) : Before(p, k, n)
    BY DEF Arrives
  <1>3. n \in 1..Len(r) /\ r[n] = s
    BY <1>1, <1>2
  <1>4. ASSUME NEW k \in EndsOf(s) PROVE Before(r, k, n)
    <2>1. PICK m \in 1..(n - 1) : p[m].op = "node" /\ p[m].key = k
      BY <1>2 DEF Before
    <2>2. r[m] = p[m]
      BY <1>1
    <2>3. QED
      BY <2>1, <2>2 DEF Before
  <1>5. QED
    BY <1>3, <1>4 DEF Arrives, r

LEMMA FilesOfRun ==
  ASSUME NEW ed, IsEdition(ed), NEW a
  PROVE  /\ IsList(Files(ed, a)) /\ \A f \in ToSet(Files(ed, a)) : IsDomainFile(f)
         /\ IsList(Overlays(ed, a)) /\ \A o \in ToSet(Overlays(ed, a)) : IsList(o.rows)
  <1>1. /\ IsList(ed.files) /\ \A f \in ToSet(ed.files) : IsDomainFile(f)
        /\ IsList(ed.overlays) /\ \A o \in ToSet(ed.overlays) : IsList(o.rows)
    BY DEF IsEdition
  <1>2. CASE a = AllDomains
    BY <1>1, <1>2 DEF Files, Overlays
  <1>3. CASE a # AllDomains
    <2> DEFINE ones == [i \in DOMAIN ed.files |->
                          IF ed.files[i].domain = a THEN <<ed.files[i]>> ELSE <<>>]
    <2>1. Files(ed, a) = FlattenSeq(ones)
      BY <1>3 DEF Files, Only, Flat
    <2>2. IsList(ones) /\ Len(ones) = Len(ed.files)
      BY <1>1, ListImage
    <2>3. ASSUME NEW i \in 1..Len(ones) PROVE IsList(ones[i]) /\ ToSet(ones[i]) \subseteq ToSet(ed.files)
      <3>1. i \in DOMAIN ed.files /\ ed.files[i] \in ToSet(ed.files)
        BY <1>1, <2>2, ListParts
      <3>2. CASE ed.files[i].domain = a
        <4>1. ones[i] = <<ed.files[i]>>
          BY <3>1, <3>2
        <4>2. QED
          BY <3>1, <4>1, SingleList
      <3>3. CASE ed.files[i].domain # a
        <4>1. ones[i] = <<>>
          BY <3>1, <3>3
        <4>2. QED
          BY <4>1, EmptyList
      <3>4. QED
        BY <3>2, <3>3
    <2> HIDE DEF ones
    <2>4. IsList(Files(ed, a)) /\ ToSet(Files(ed, a)) \subseteq ToSet(ed.files)
      BY <2>1, <2>2, <2>3, FlattenedSet
    <2>5. Overlays(ed, a) = <<>>
      BY <1>3 DEF Overlays
    <2>6. QED
      BY <1>1, <2>4, <2>5, EmptyList
  <1>4. QED
    BY <1>2, <1>3

LEMMA ProgramParts ==
  ASSUME NEW ed, IsEdition(ed), NEW a
  PROVE  LET p == Program(ed, a)
             fs == Files(ed, a)
         IN  /\ IsList(p) /\ \A x \in ToSet(p) : x.op \in Kinds
             /\ fs # <<>> => Len(p) >= 1 /\ Closes(p)
             /\ OverlaysKnown(fs, Overlays(ed, a)) => Backed(p) /\ RowsBacked(p)
             /\ {x \in ToSet(p) : x.op = "node"} = UNION {DeclaredNodes(f) : f \in ToSet(fs)}
             /\ {x \in ToSet(p) : x.op = "edge"} = UNION {DeclaredEdges(f) : f \in ToSet(fs)}
             /\ \A s \in BackwardEdges(fs) : Arrives(p, s)
  <1> DEFINE fs == Files(ed, a)
             os == Overlays(ed, a)
             first == Flat(fs, DomainProgram)
             then == Flat(os, OverlayProgram)
             p == first \o then
  <1>1. Program(ed, a) = p
    BY DEF Program
  <1>2. IsList(fs) /\ (\A f \in ToSet(fs) : IsDomainFile(f)) /\ IsList(os)
         /\ \A o \in ToSet(os) : IsList(o.rows)
    BY FilesOfRun
  <1>3. /\ IsList(first) /\ (fs # <<>> => Len(first) >= 1 /\ Closes(first)) /\ RowsBacked(first) /\ Backed(first)
        /\ \A x \in ToSet(first) : x.op \in Kinds
        /\ \A f \in ToSet(fs) : Knows(first, f)
        /\ {x \in ToSet(first) : x.op = "node"} = UNION {DeclaredNodes(f) : f \in ToSet(fs)}
        /\ {x \in ToSet(first) : x.op = "edge"} = UNION {DeclaredEdges(f) : f \in ToSet(fs)}
        /\ \A s \in BackwardEdges(fs) : Arrives(first, s)
    <2> HIDE DEF fs
    <2>1. QED
      BY <1>2, FilesParts
  <1>4. /\ IsList(then) /\ \A x \in ToSet(then) : x.op = "commit"
        /\ \A x \in ToSet(then) : \A k \in DOMAIN x.rows :
              \E o \in ToSet(os) : \E row \in ToSet(o.rows) : k[1] = row.node
    <2> HIDE DEF os
    <2>1. QED
      BY <1>2, OverlayParts
  <1> HIDE DEF fs, os, first, then
  <1>5. /\ IsList(p) /\ ToSet(p) = ToSet(first) \cup ToSet(then) /\ Len(p) = Len(first) + Len(then)
        /\ Len(first) \in Nat /\ Len(then) \in Nat
        /\ (\A n \in 1..Len(first) : p[n] = first[n])
        /\ \A n \in 1..Len(then) : p[Len(first) + n] = then[n]
    <2>1. IsList(first) /\ IsList(then)
      BY <1>3, <1>4
    <2>2. Len(first) \in Nat /\ Len(then) \in Nat
      BY <2>1, ListParts
    <2>3. QED
      BY <2>1, <2>2, JoinedList
  <1>6. ASSUME OverlaysKnown(fs, os) PROVE Backed(p) /\ RowsBacked(p)
    <2>1. ASSUME NEW x \in ToSet(then), NEW k \in DOMAIN x.rows PROVE k[1] \in NodeKeys(first)
      <3>1. PICK o \in ToSet(os) : \E row \in ToSet(o.rows) : k[1] = row.node
        BY <1>4, <2>1
      <3>2. k[1] \in {Concept(c) : c \in KnownConcepts(fs)} \cup {Schema(s) : s \in KnownSchemas(fs)}
                       \cup {Value(v) : v \in KnownValues(fs)}
        BY <1>6, <3>1 DEF OverlaysKnown
      <3>3. CASE k[1] \in {Concept(c) : c \in KnownConcepts(fs)}
        <4>1. PICK f \in ToSet(fs) : \E c \in ToSet(f.concepts) : k[1] = Concept(c.id)
          BY <3>3 DEF KnownConcepts
        <4>2. QED
          BY <1>3, <4>1 DEF Knows
      <3>4. CASE k[1] \in {Schema(s) : s \in KnownSchemas(fs)}
        <4>1. PICK f \in ToSet(fs) : \E s \in ToSet(f.schemas) : k[1] = Schema(s.id)
          BY <3>4 DEF KnownSchemas
        <4>2. QED
          BY <1>3, <4>1 DEF Knows
      <3>5. CASE k[1] \in {Value(v) : v \in KnownValues(fs)}
        <4>1. PICK f \in ToSet(fs) :
                \E s \in ToSet(f.schemas) : \E v \in ToSet(s.values) : k[1] = Value(v.id)
          BY <3>5 DEF KnownValues
        <4>2. QED
          BY <1>3, <4>1 DEF Knows
      <3>6. QED
        BY <3>2, <3>3, <3>4, <3>5
    <2>2. Backed(p)
      BY <1>3, <1>4, <2>1, CommitsAdded
    <2>3. NodeKeys(first) \subseteq NodeKeys(p)
      BY <1>5, MoreNodeKeys
    <2>4. RowsBacked(p)
      BY <1>3, <1>5, <2>1, <2>3 DEF RowsBacked
    <2>5. QED
      BY <2>2, <2>4
  <1>7. \A x \in ToSet(p) : x.op \in Kinds
    BY <1>3, <1>4, <1>5 DEF Kinds
  <1>8. ASSUME fs # <<>> PROVE Len(p) >= 1 /\ Closes(p)
    <2>1. Len(first) >= 1 /\ Closes(first)
      BY <1>3, <1>8
    <2>2. Len(p) >= 1
      BY <1>5, <2>1
    <2>3. CASE Len(then) = 0
      <3>1. Len(p) = Len(first) /\ Len(first) \in 1..Len(first)
        BY <1>5, <2>1, <2>3
      <3>2. p[Len(p)] = first[Len(first)]
        BY <1>5, <3>1
      <3>3. QED
        BY <2>1, <2>2, <3>2 DEF Closes
    <2>4. CASE Len(then) # 0
      <3>1. Len(then) \in 1..Len(then)
        BY <1>5, <2>4
      <3>2. p[Len(p)] = then[Len(then)]
        BY <1>5, <3>1
      <3>3. then[Len(then)] \in ToSet(then)
        BY <1>4, <3>1, ListParts
      <3>4. QED
        BY <1>4, <2>2, <3>2, <3>3 DEF Closes
    <2>5. QED
      BY <2>3, <2>4
  <1>9. /\ {x \in ToSet(p) : x.op = "node"} = UNION {DeclaredNodes(f) : f \in ToSet(fs)}
        /\ {x \in ToSet(p) : x.op = "edge"} = UNION {DeclaredEdges(f) : f \in ToSet(fs)}
    BY <1>3, <1>4, <1>5
  <1>10. \A s \in BackwardEdges(fs) : Arrives(p, s)
    BY <1>3, <1>4, ArrivesThen
  <1>11. QED
    BY <1>1, <1>5, <1>6, <1>7, <1>8, <1>9, <1>10 DEF fs, os

-----------------------------------------------------------------------------
(* What the statements do to the graph, one after the other.                *)

IsGraph(g) == g = [nodes |-> g.nodes, edges |-> g.edges]
\* No edge lacks an end.
Whole(g) == \A e \in DOMAIN g.edges : {e[2], e[3]} \subseteq DOMAIN g.nodes

\* h is f with v for k.
IsPut(h, f, k, v) ==
    /\ DOMAIN h = DOMAIN f \cup {k} /\ h[k] = v
    /\ \A x \in DOMAIN f : x # k => h[x] = f[x]

LEMMA PutIs == ASSUME NEW f, NEW k, NEW v PROVE IsPut(Put(f, k, v), f, k, v)
  BY DEF Put, IsPut

LEMMA NodeApplied ==
  ASSUME NEW g, IsGraph(g), NEW s, s.op = "node"
  PROVE  /\ IsGraph(Applied(g, s)) /\ Applied(g, s).edges = g.edges
         /\ IsPut(Applied(g, s).nodes, g.nodes, s.key, s.props)
  <1> DEFINE nodes == Put(g.nodes, s.key, s.props)
             h == [g EXCEPT !.nodes = nodes]
  <1>1. Applied(g, s) = h
    BY DEF Applied, MergeNode
  <1>2. DOMAIN g = {"nodes", "edges"}
    BY DEF IsGraph
  <1> HIDE DEF nodes
  <1>3. h = [nodes |-> nodes, edges |-> g.edges]
    BY <1>2
  <1>4. IsPut(nodes, g.nodes, s.key, s.props)
    BY PutIs DEF nodes
  <1>5. Applied(g, s).nodes = nodes /\ Applied(g, s).edges = g.edges
    BY <1>1, <1>3
  <1>6. QED
    BY <1>1, <1>3, <1>4, <1>5 DEF IsGraph

LEMMA EdgeApplied ==
  ASSUME NEW g, IsGraph(g), NEW s, s.op = "edge"
  PROVE  /\ IsGraph(Applied(g, s)) /\ Applied(g, s).nodes = g.nodes
         /\ EndsOf(s) \subseteq DOMAIN g.nodes =>
              IsPut(Applied(g, s).edges, g.edges, s.key, s.props)
         /\ ~(EndsOf(s) \subseteq DOMAIN g.nodes) => Applied(g, s) = g
  <1> DEFINE edges == Put(g.edges, s.key, s.props)
             h == [g EXCEPT !.edges = edges]
  <1>1. Applied(g, s) = IF EndsOf(s) \subseteq DOMAIN g.nodes THEN h ELSE g
    BY DEF Applied, MergeEdge, EndsOf
  <1>2. DOMAIN g = {"nodes", "edges"}
    BY DEF IsGraph
  <1> HIDE DEF edges
  <1>3. h = [nodes |-> g.nodes, edges |-> edges]
    BY <1>2
  <1>4. IsPut(edges, g.edges, s.key, s.props)
    BY PutIs DEF edges
  <1>5. EndsOf(s) \subseteq DOMAIN g.nodes => Applied(g, s).edges = edges /\ Applied(g, s).nodes = g.nodes
    BY <1>1, <1>3
  <1>6. QED
    BY <1>1, <1>3, <1>4, <1>5 DEF IsGraph

LEMMA CommitApplied == ASSUME NEW g, NEW s, s.op = "commit" PROVE Applied(g, s) = g
  BY DEF Applied

\* What is in the graph stays, and every edge keeps its ends.
LEMMA AppliedGrows ==
  ASSUME NEW g, IsGraph(g), NEW s, s.op \in Kinds
  PROVE  /\ IsGraph(Applied(g, s))
         /\ DOMAIN g.nodes \subseteq DOMAIN Applied(g, s).nodes
         /\ DOMAIN g.edges \subseteq DOMAIN Applied(g, s).edges
         /\ Whole(g) => Whole(Applied(g, s))
  <1>1. CASE s.op = "node"
    BY <1>1, NodeApplied DEF Whole, IsPut
  <1>2. CASE s.op = "edge"
    <2>1. CASE EndsOf(s) \subseteq DOMAIN g.nodes
      <3>1. /\ IsGraph(Applied(g, s)) /\ Applied(g, s).nodes = g.nodes
            /\ IsPut(Applied(g, s).edges, g.edges, s.key, s.props)
        BY <1>2, <2>1, EdgeApplied
      <3>2. DOMAIN Applied(g, s).edges = DOMAIN g.edges \cup {s.key}
        BY <3>1 DEF IsPut
      <3>3. QED
        BY <2>1, <3>1, <3>2 DEF Whole, EndsOf
    <2>2. CASE ~(EndsOf(s) \subseteq DOMAIN g.nodes)
      BY <1>2, <2>2, EdgeApplied
    <2>3. QED
      BY <2>1, <2>2
  <1>3. CASE s.op = "commit"
    BY <1>3, CommitApplied
  <1>4. QED
    BY <1>1, <1>2, <1>3 DEF Kinds

\* A statement says what its edge or node is to be; no two of one key differ.
Consistent(p) ==
    \A x, y \in ToSet(p) :
        x.op = y.op /\ x.op # "commit" /\ x.key = y.key => x.props = y.props

EndsBefore(p, n) == \A k \in EndsOf(p[n]) : Before(p, k, n)

\* After n statements: their nodes, and the edges that come after their ends ...
Reached(p, n, g) ==
    \A m \in 1..n :
        /\ p[m].op = "node" => p[m].key \in DOMAIN g.nodes
        /\ p[m].op = "edge" /\ EndsBefore(p, m) => p[m].key \in DOMAIN g.edges
\* ... all as the statements say.
AsWritten(p, n, g) ==
    \A m \in 1..n :
        /\ p[m].op = "node" => g.nodes[p[m].key] = p[m].props
        /\ p[m].op = "edge" /\ p[m].key \in DOMAIN g.edges => g.edges[p[m].key] = p[m].props

LEMMA ReachedOne ==
  ASSUME NEW p, NEW n \in Nat, NEW g, IsGraph(g), Reached(p, n, g), p[n + 1].op \in Kinds
  PROVE  Reached(p, n + 1, Applied(g, p[n + 1]))
  <1> DEFINE s == p[n + 1]
             h == Applied(g, s)
  <1>1. /\ IsGraph(h) /\ DOMAIN g.nodes \subseteq DOMAIN h.nodes
        /\ DOMAIN g.edges \subseteq DOMAIN h.edges
    BY AppliedGrows
  <1>2. ASSUME NEW m \in 1..(n + 1), p[m].op = "node" PROVE p[m].key \in DOMAIN h.nodes
    <2>1. CASE m \in 1..n
      BY <1>1, <1>2, <2>1 DEF Reached
    <2>2. CASE m = n + 1
      <3>1. IsPut(h.nodes, g.nodes, s.key, s.props)
        BY <1>2, <2>2, NodeApplied
      <3>2. QED
        BY <2>2, <3>1 DEF IsPut
    <2>3. QED
      BY <2>1, <2>2
  <1>3. ASSUME NEW m \in 1..(n + 1), p[m].op = "edge", EndsBefore(p, m)
        PROVE  p[m].key \in DOMAIN h.edges
    <2>1. CASE m \in 1..n
      BY <1>1, <1>3, <2>1 DEF Reached
    <2>2. CASE m = n + 1
      <3>1. EndsOf(s) \subseteq DOMAIN g.nodes
        <4>1. ASSUME NEW k \in EndsOf(s) PROVE k \in DOMAIN g.nodes
          <5>1. Before(p, k, n + 1)
            BY <1>3, <2>2, <4>1 DEF EndsBefore
          <5>2. PICK i \in 1..n : p[i].op = "node" /\ p[i].key = k
            BY <5>1 DEF Before
          <5>3. QED
            BY <5>2 DEF Reached
        <4>2. QED
          BY <4>1
      <3>2. IsPut(h.edges, g.edges, s.key, s.props)
        BY <1>3, <2>2, <3>1, EdgeApplied
      <3>3. QED
        BY <2>2, <3>2 DEF IsPut
    <2>3. QED
      BY <2>1, <2>2
  <1>4. QED
    BY <1>2, <1>3 DEF Reached, h, s

LEMMA AsWrittenOne ==
  ASSUME NEW p, IsList(p), Consistent(p), NEW n \in Nat, n < Len(p), NEW g, IsGraph(g), Whole(g),
         Reached(p, n, g), AsWritten(p, n, g), p[n + 1].op \in Kinds
  PROVE  AsWritten(p, n + 1, Applied(g, p[n + 1]))
  <1> DEFINE s == p[n + 1]
             h == Applied(g, s)
  <1>1. Len(p) \in Nat
    BY ListParts
  <1>2. n + 1 \in 1..Len(p) /\ \A m \in 1..(n + 1) : m \in 1..Len(p)
    BY <1>1
  <1>3. s \in ToSet(p) /\ \A m \in 1..(n + 1) : p[m] \in ToSet(p)
    BY <1>2, ListParts
  <1>4. \A m \in 1..(n + 1) :
          p[m].op = s.op /\ s.op # "commit" /\ p[m].key = s.key => p[m].props = s.props
    BY <1>3 DEF Consistent
  <1>5. \A m \in 1..(n + 1) : m \in 1..n \/ m = n + 1
    OBVIOUS
  <1>6. CASE s.op = "node"
    <2>1. h.edges = g.edges /\ IsPut(h.nodes, g.nodes, s.key, s.props)
      BY <1>6, NodeApplied
    <2>2. /\ h.nodes[s.key] = s.props
          /\ \A x \in DOMAIN g.nodes : x # s.key => h.nodes[x] = g.nodes[x]
      BY <2>1 DEF IsPut
    <2> HIDE DEF h
    <2>3. ASSUME NEW m \in 1..(n + 1), p[m].op = "node" PROVE h.nodes[p[m].key] = p[m].props
      <3>1. CASE p[m].key = s.key
        BY <1>4, <1>6, <2>2, <2>3, <3>1
      <3>2. CASE p[m].key # s.key
        <4>1. m \in 1..n
          BY <1>5, <3>2
        <4>2. p[m].key \in DOMAIN g.nodes /\ g.nodes[p[m].key] = p[m].props
          BY <2>3, <4>1 DEF Reached, AsWritten
        <4>3. QED
          BY <2>2, <3>2, <4>2
      <3>3. QED
        BY <3>1, <3>2
    <2>4. ASSUME NEW m \in 1..(n + 1), p[m].op = "edge", p[m].key \in DOMAIN h.edges
          PROVE  h.edges[p[m].key] = p[m].props
      <3>1. m \in 1..n
        BY <1>5, <1>6, <2>4
      <3>2. QED
        BY <2>1, <2>4, <3>1 DEF AsWritten
    <2>5. QED
      BY <2>3, <2>4 DEF AsWritten, h
  <1>7. CASE s.op = "edge"
    <2>1. IsGraph(h) /\ h.nodes = g.nodes
      BY <1>7, EdgeApplied
    <2>2. \A x \in DOMAIN h.edges :
            IF x = s.key /\ EndsOf(s) \subseteq DOMAIN g.nodes THEN h.edges[x] = s.props
            ELSE x \in DOMAIN g.edges /\ h.edges[x] = g.edges[x]
      <3>1. CASE EndsOf(s) \subseteq DOMAIN g.nodes
        <4>1. IsPut(h.edges, g.edges, s.key, s.props)
          BY <1>7, <3>1, EdgeApplied
        <4> HIDE DEF h
        <4>2. QED
          BY <3>1, <4>1 DEF IsPut
      <3>2. CASE ~(EndsOf(s) \subseteq DOMAIN g.nodes)
        <4>1. h = g
          BY <1>7, <3>2, EdgeApplied
        <4>2. QED
          BY <3>2, <4>1
      <3>3. QED
        BY <3>1, <3>2
    <2>3. ~(EndsOf(s) \subseteq DOMAIN g.nodes) => h = g
      BY <1>7, EdgeApplied
    <2> HIDE DEF h
    <2>4. ASSUME NEW m \in 1..(n + 1), p[m].op = "node" PROVE h.nodes[p[m].key] = p[m].props
      <3>1. m \in 1..n
        BY <1>5, <1>7, <2>4
      <3>2. QED
        BY <2>1, <2>4, <3>1 DEF AsWritten
    <2>5. ASSUME NEW m \in 1..(n + 1), p[m].op = "edge", p[m].key \in DOMAIN h.edges
          PROVE  h.edges[p[m].key] = p[m].props
      <3>1. CASE p[m].key = s.key /\ EndsOf(s) \subseteq DOMAIN g.nodes
        BY <1>4, <1>7, <2>2, <2>5, <3>1
      <3>2. CASE ~(p[m].key = s.key /\ EndsOf(s) \subseteq DOMAIN g.nodes)
        <4>1. p[m].key \in DOMAIN g.edges /\ h.edges[p[m].key] = g.edges[p[m].key]
          BY <2>2, <2>5, <3>2
        <4>2. CASE m \in 1..n
          BY <2>5, <4>1, <4>2 DEF AsWritten
        <4>3. CASE m = n + 1
          <5>1. ~(EndsOf(s) \subseteq DOMAIN g.nodes)
            BY <3>2, <4>3
          <5>2. EndsOf(s) \subseteq DOMAIN g.nodes
            BY <4>1, <4>3 DEF Whole, EndsOf
          <5>3. QED
            BY <5>1, <5>2
        <4>4. QED
          BY <1>5, <4>2, <4>3
      <3>3. QED
        BY <3>1, <3>2
    <2>6. QED
      BY <2>4, <2>5 DEF AsWritten, h
  <1>8. CASE s.op = "commit"
    <2>1. h = g
      BY <1>8, CommitApplied
    <2>2. ASSUME NEW m \in 1..(n + 1), p[m].op # "commit" PROVE m \in 1..n
      BY <1>5, <1>8, <2>2
    <2>3. AsWritten(p, n + 1, g)
      BY <2>2 DEF AsWritten
    <2>4. QED
      BY <2>1, <2>3 DEF h, s
  <1>9. QED
    BY <1>6, <1>7, <1>8 DEF Kinds

-----------------------------------------------------------------------------
(* A run without a mishap.                                                  *)

\* What is left after each of the first n statements.
Leaves(f, p, n) ==
    f = [m \in 0..n |->
           IF m = 0 THEN Nothing
           ELSE LET before == f[m - 1]
                IN  [graph |-> Applied(before.graph, p[m]), rows |-> Over(p[m].rows, before.rows)]]

LEMMA LeavesOne ==
  ASSUME NEW p, NEW n \in Nat, NEW f, Leaves(f, p, n)
  PROVE  \E g : Leaves(g, p, n + 1)
  <1> DEFINE more == [graph |-> Applied(f[n].graph, p[n + 1]), rows |-> Over(p[n + 1].rows, f[n].rows)]
             g == [m \in 0..(n + 1) |-> IF m <= n THEN f[m] ELSE more]
  <1>1. \A m \in 0..n :
          f[m] = IF m = 0 THEN Nothing
                 ELSE [graph |-> Applied(f[m - 1].graph, p[m]), rows |-> Over(p[m].rows, f[m - 1].rows)]
    BY DEF Leaves
  <1> HIDE DEF more
  <1>2. /\ \A m \in 0..n : g[m] = f[m]
        /\ g[n + 1] = more /\ g[n] = f[n] /\ n + 1 # 0 /\ n + 1 - 1 = n
        /\ g = [m \in 0..(n + 1) |-> g[m]]
    OBVIOUS
  <1> HIDE DEF g
  <1>3. ASSUME NEW m \in 0..(n + 1)
        PROVE  g[m] = IF m = 0 THEN Nothing
                      ELSE [graph |-> Applied(g[m - 1].graph, p[m]), rows |-> Over(p[m].rows, g[m - 1].rows)]
    <2>1. CASE m = n + 1
      <3>1. m # 0 /\ m - 1 = n
        BY <2>1
      <3>2. g[m] = more /\ g[m - 1] = f[n] /\ p[m] = p[n + 1]
        BY <1>2, <2>1, <3>1
      <3>3. QED
        BY <3>1, <3>2 DEF more
    <2>2. CASE m \in 0..n
      <3>1. m # 0 => m - 1 \in 0..n
        BY <2>2
      <3>2. QED
        BY <1>1, <1>2, <2>2, <3>1
    <2>3. QED
      BY <2>1, <2>2
  <1>4. Leaves(g, p, n + 1)
    BY <1>2, <1>3 DEF Leaves
  <1>5. QED
    BY <1>4

LEMMA LeavesExists ==
  ASSUME NEW p, NEW n \in Nat
  PROVE  \E f : Leaves(f, p, n)
  <1> DEFINE T == {m \in 0..n : \E f : Leaves(f, p, m)}
  <1>1. 0 \in T
    <2>1. Leaves([m \in 0..0 |-> Nothing], p, 0)
      BY DEF Leaves
    <2>2. QED
      BY <2>1
  <1>2. ASSUME NEW m \in 0..n, m \in T, m < n PROVE m + 1 \in T
    BY <1>2, LeavesOne
  <1> HIDE DEF T
  <1>3. 0..n \subseteq T
    BY <1>1, <1>2, Climb
  <1>4. QED
    BY <1>3 DEF T

LEMMA SeededIs ==
  ASSUME NEW e, NEW p, p = Program(Editions[e], AllDomains), Len(p) \in Nat
  PROVE  \E f : Leaves(f, p, Len(p)) /\ Seeded(e) = f[Len(p)]
  <1> DEFINE f == CHOOSE f :
        f = [m \in 0..Len(p) |->
               IF m = 0 THEN Nothing
               ELSE LET before == f[m - 1]
                    IN  [graph |-> Applied(before.graph, p[m]), rows |-> Over(p[m].rows, before.rows)]]
  <1>1. \E g : g = [m \in 0..Len(p) |->
               IF m = 0 THEN Nothing
               ELSE LET before == g[m - 1]
                    IN  [graph |-> Applied(before.graph, p[m]), rows |-> Over(p[m].rows, before.rows)]]
    <2>1. PICK g : Leaves(g, p, Len(p))
      BY LeavesExists
    <2>2. QED
      BY <2>1 DEF Leaves
  <1>2. f = [m \in 0..Len(p) |->
               IF m = 0 THEN Nothing
               ELSE LET before == f[m - 1]
                    IN  [graph |-> Applied(before.graph, p[m]), rows |-> Over(p[m].rows, before.rows)]]
    BY <1>1
  <1>3. Seeded(e) = f[Len(p)]
    BY DEF Seeded
  <1> HIDE DEF f
  <1>4. QED
    BY <1>2, <1>3 DEF Leaves

\* Every row comes from one of the first n statements.
RowsFrom(rs, p, n) == \A k \in DOMAIN rs : \E m \in 1..n : k \in DOMAIN p[m].rows

LEMMA RowsFromOne ==
  ASSUME NEW rs, NEW p, NEW n \in Nat, RowsFrom(rs, p, n)
  PROVE  RowsFrom(Over(p[n + 1].rows, rs), p, n + 1)
  <1>1. DOMAIN Over(p[n + 1].rows, rs) = DOMAIN rs \cup DOMAIN p[n + 1].rows
    BY DEF Over
  <1>2. n + 1 \in 1..(n + 1) /\ \A m \in 1..n : m \in 1..(n + 1)
    OBVIOUS
  <1>3. QED
    BY <1>1, <1>2 DEF RowsFrom

LEMMA LeavesSound ==
  ASSUME NEW p, IsList(p), \A x \in ToSet(p) : x.op \in Kinds, NEW f, Leaves(f, p, Len(p)),
         NEW n \in 0..Len(p)
  PROVE  /\ IsGraph(f[n].graph) /\ Whole(f[n].graph) /\ Reached(p, n, f[n].graph)
         /\ RowsFrom(f[n].rows, p, n)
         /\ Consistent(p) => AsWritten(p, n, f[n].graph)
  <1> DEFINE Good(m) ==
        /\ IsGraph(f[m].graph) /\ Whole(f[m].graph) /\ Reached(p, m, f[m].graph)
        /\ RowsFrom(f[m].rows, p, m)
        /\ Consistent(p) => AsWritten(p, m, f[m].graph)
             T == {m \in 0..Len(p) : Good(m)}
  <1>1. Len(p) \in Nat
    BY ListParts
  <1>2. \A m \in 0..Len(p) :
          f[m] = IF m = 0 THEN Nothing
                 ELSE [graph |-> Applied(f[m - 1].graph, p[m]), rows |-> Over(p[m].rows, f[m - 1].rows)]
    BY DEF Leaves
  <1>3. Good(0)
    <2>1. f[0] = Nothing
      <3>1. 0 \in 0..Len(p)
        BY <1>1
      <3>2. f[0] = IF 0 = 0 THEN Nothing
                   ELSE [graph |-> Applied(f[0 - 1].graph, p[0]), rows |-> Over(p[0].rows, f[0 - 1].rows)]
        BY <1>2, <3>1
      <3>3. QED
        BY <3>2
    <2>2. f[0].graph = EmptyGraph /\ f[0].rows = <<>>
      BY <2>1 DEF Nothing, NoRows
    <2>3. IsGraph(EmptyGraph) /\ DOMAIN EmptyGraph.edges = {}
      BY DEF EmptyGraph, IsGraph
    <2>4. DOMAIN f[0].rows = {}
      BY <2>2
    <2>5. QED
      BY <2>2, <2>3, <2>4 DEF Whole, Reached, RowsFrom, AsWritten
  <1>4. ASSUME NEW m \in 0..Len(p), Good(m), m < Len(p) PROVE Good(m + 1)
    <2>1. m + 1 \in 1..Len(p) /\ m + 1 # 0 /\ (m + 1) - 1 = m /\ m \in Nat
      BY <1>1, <1>4
    <2>2. f[m + 1] = [graph |-> Applied(f[m].graph, p[m + 1]), rows |-> Over(p[m + 1].rows, f[m].rows)]
      <3>1. m + 1 \in 0..Len(p)
        BY <2>1
      <3>2. f[m + 1] = [graph |-> Applied(f[(m + 1) - 1].graph, p[m + 1]),
                        rows |-> Over(p[m + 1].rows, f[(m + 1) - 1].rows)]
        BY <1>2, <2>1, <3>1
      <3>3. QED
        BY <2>1, <3>2
    <2>3. /\ f[m + 1].graph = Applied(f[m].graph, p[m + 1])
          /\ f[m + 1].rows = Over(p[m + 1].rows, f[m].rows)
      BY <2>2
    <2>4. p[m + 1].op \in Kinds
      BY <2>1, ListParts
    <2>5. IsGraph(f[m + 1].graph) /\ Whole(f[m + 1].graph)
      BY <1>4, <2>3, <2>4, AppliedGrows
    <2>6. Reached(p, m + 1, f[m + 1].graph)
      BY <1>4, <2>1, <2>3, <2>4, ReachedOne
    <2>7. RowsFrom(f[m + 1].rows, p, m + 1)
      BY <1>4, <2>1, <2>3, RowsFromOne
    <2>8. Consistent(p) => AsWritten(p, m + 1, f[m + 1].graph)
      BY <1>4, <2>1, <2>3, <2>4, AsWrittenOne
    <2>9. QED
      BY <2>5, <2>6, <2>7, <2>8
  <1> HIDE DEF Good
  <1>5. 0 \in T /\ \A m \in 0..Len(p) : m \in T /\ m < Len(p) => m + 1 \in T
    BY <1>1, <1>3, <1>4
  <1> HIDE DEF T
  <1>6. 0..Len(p) \subseteq T
    BY <1>1, <1>5, Climb
  <1>7. Good(n)
    BY <1>6 DEF T
  <1>8. QED
    BY <1>7 DEF Good

\* The rows of a whole program name nodes that it has brought.
LEMMA RowsHaveNodes ==
  ASSUME NEW p, IsList(p), RowsBacked(p), NEW g, Reached(p, Len(p), g),
         NEW rs, RowsFrom(rs, p, Len(p)), NEW k \in DOMAIN rs
  PROVE  k[1] \in DOMAIN g.nodes
  <1>1. PICK m \in 1..Len(p) : k \in DOMAIN p[m].rows
    BY DEF RowsFrom
  <1>2. k[1] \in NodeKeys(p)
    BY <1>1, ListParts DEF RowsBacked
  <1>3. PICK i \in 1..Len(p) : p[i].op = "node" /\ p[i].key = k[1]
    BY <1>2, NodeKeysAt
  <1>4. QED
    BY <1>3 DEF Reached

-----------------------------------------------------------------------------
(* The run in progress.                                                     *)

Now == Programs[seeder.edition][seeder.args]

\* The run and what it has written are well typed ...
SeedType ==
    /\ seeder = [at |-> seeder.at, edition |-> seeder.edition, args |-> seeder.args,
                 next |-> seeder.next]
    /\ seeder.at \in Steps /\ seeder.edition \in DOMAIN Editions /\ seeder.args \in Runs
    /\ seeder.next \in 1..Len(Now) /\ runs \in 0..MaxRuns
    /\ IsGraph(graph) /\ Whole(graph)
    /\ \A k \in DOMAIN rows : k[1] \in DOMAIN graph.nodes
\* ... and what it waits to commit are rows of the statements it has executed.
SeedProgress ==
    /\ seeder.at \in {"ask", "write"} =>
         Accepted(Files(Editions[seeder.edition], seeder.args),
                  Overlays(Editions[seeder.edition], seeder.args))
    /\ seeder.at = "ask" => seeder.next = 1
    /\ seeder.at # "write" => open = NoRows
    /\ seeder.at = "write" => /\ RowsFrom(open, Now, seeder.next - 1)
                              /\ Reached(Now, seeder.next - 1, graph)
SeedInv == SeedType /\ SeedProgress

LEMMA EditionsAre ==
  /\ 1 \in DOMAIN Editions /\ AllDomains \in Runs /\ MaxRuns \in Nat
  /\ \A e \in DOMAIN Editions : IsEdition(Editions[e])
  <1>1. IsList(Editions) /\ Editions # <<>>
    BY EditionsAssumption
  <1>2. Len(Editions) \in Nat /\ DOMAIN Editions = 1..Len(Editions)
    BY <1>1, ListParts
  <1>3. Len(Editions) # 0
    BY <1>1, EmptySeq DEF IsList
  <1>4. QED
    BY <1>2, <1>3, EditionsAssumption, BrowsingAssumption DEF ToSet

\* What every run executes.
LEMMA RunProgram ==
  ASSUME NEW e \in DOMAIN Editions, NEW a \in Runs, NEW p, p = Programs[e][a]
  PROVE  /\ IsList(p) /\ \A x \in ToSet(p) : x.op \in Kinds
         /\ a = AllDomains \/ Files(Editions[e], a) # <<>> => Len(p) >= 1 /\ Closes(p)
         /\ OverlaysKnown(Files(Editions[e], a), Overlays(Editions[e], a)) =>
              Backed(p) /\ RowsBacked(p)
  <1>1. p = Program(Editions[e], a)
    BY DEF Programs
  <1>2. IsEdition(Editions[e])
    BY EditionsAre
  <1>3. a = AllDomains => Files(Editions[e], a) # <<>>
    BY <1>2 DEF Files, IsEdition
  <1>4. QED
    BY <1>1, <1>2, <1>3, ProgramParts

\* What a full run executes, and what the files declare.
LEMMA FullProgram ==
  ASSUME NEW e \in DOMAIN Editions, NEW p, p = Programs[e][AllDomains]
  PROVE  /\ {x \in ToSet(p) : x.op = "node"} = Declared[e].nodes
         /\ {x \in ToSet(p) : x.op = "edge"} = Declared[e].edges
         /\ Declared[e].backward \subseteq Declared[e].edges
         /\ \A s \in Declared[e].backward : Arrives(p, s)
  <1>1. AllDomains \in Runs /\ IsEdition(Editions[e])
    BY EditionsAre
  <1>2. p = Program(Editions[e], AllDomains) /\ Files(Editions[e], AllDomains) = Editions[e].files
    BY <1>1 DEF Programs, Files
  <1>3. /\ Declared[e].nodes = UNION {DeclaredNodes(f) : f \in ToSet(Editions[e].files)}
        /\ Declared[e].edges = UNION {DeclaredEdges(f) : f \in ToSet(Editions[e].files)}
        /\ Declared[e].backward = BackwardEdges(Editions[e].files)
    BY DEF Declared
  <1>4. BackwardEdges(Editions[e].files) \subseteq
          UNION {DeclaredEdges(f) : f \in ToSet(Editions[e].files)}
    BY DEF BackwardEdges, ToSet
  <1>5. QED
    BY <1>1, <1>2, <1>3, <1>4, ProgramParts

LEMMA SeededSound ==
  ASSUME "seeded" \in Starts, NEW p, p = Programs[1][AllDomains]
  PROVE  /\ IsGraph(Seeded(1).graph) /\ Whole(Seeded(1).graph)
         /\ Reached(p, Len(p), Seeded(1).graph)
         /\ \A k \in DOMAIN Seeded(1).rows : k[1] \in DOMAIN Seeded(1).graph.nodes
         /\ Consistent(p) => AsWritten(p, Len(p), Seeded(1).graph)
  <1>1. 1 \in DOMAIN Editions /\ AllDomains \in Runs
    BY EditionsAre
  <1>2. p = Program(Editions[1], AllDomains)
    BY <1>1 DEF Programs
  <1>3. OverlaysKnown(Files(Editions[1], AllDomains), Overlays(Editions[1], AllDomains))
    BY EditionsAssumption DEF Accepted, Files, Overlays
  <1>4. IsList(p) /\ (\A x \in ToSet(p) : x.op \in Kinds) /\ RowsBacked(p)
    BY <1>1, <1>3, RunProgram
  <1>5. Len(p) \in Nat
    BY <1>4, ListParts
  <1>6. PICK f : Leaves(f, p, Len(p)) /\ Seeded(1) = f[Len(p)]
    BY <1>2, <1>5, SeededIs
  <1>7. Len(p) \in 0..Len(p)
    BY <1>5
  <1>8. /\ IsGraph(Seeded(1).graph) /\ Whole(Seeded(1).graph)
        /\ Reached(p, Len(p), Seeded(1).graph) /\ RowsFrom(Seeded(1).rows, p, Len(p))
        /\ Consistent(p) => AsWritten(p, Len(p), Seeded(1).graph)
    BY <1>4, <1>6, <1>7, LeavesSound
  <1>9. \A k \in DOMAIN Seeded(1).rows : k[1] \in DOMAIN Seeded(1).graph.nodes
    BY <1>4, <1>8, RowsHaveNodes
  <1>10. QED
    BY <1>8, <1>9

LEMMA AsleepIs ==
  /\ Asleep = [at |-> "idle", edition |-> 1, args |-> AllDomains, next |-> 1]
  /\ Asleep.at = "idle" /\ Asleep.edition = 1 /\ Asleep.args = AllDomains /\ Asleep.next = 1
  BY DEF Asleep

LEMMA SeedInit == Init => SeedInv
  <1> SUFFICES ASSUME Init PROVE SeedInv
    OBVIOUS
  <1>1. seeder = Asleep /\ open = NoRows /\ runs = 0
    BY DEF Init
  <1>2. /\ seeder.at = "idle" /\ seeder.edition = 1 /\ seeder.args = AllDomains /\ seeder.next = 1
        /\ seeder = [at |-> "idle", edition |-> 1, args |-> AllDomains, next |-> 1]
    BY <1>1, AsleepIs
  <1>3. Len(Now) >= 1 /\ Len(Now) \in Nat
    <2>1. Now = Programs[1][AllDomains]
      BY <1>2 DEF Now
    <2>2. IsList(Now) /\ Len(Now) >= 1
      BY <2>1, EditionsAre, RunProgram
    <2>3. QED
      BY <2>2, ListParts
  <1>4. IsGraph(graph) /\ Whole(graph) /\ \A k \in DOMAIN rows : k[1] \in DOMAIN graph.nodes
    <2>1. CASE graph = Nothing.graph /\ rows = Nothing.rows
      <3>1. graph = EmptyGraph /\ rows = <<>>
        BY <2>1 DEF Nothing, NoRows
      <3>2. IsGraph(EmptyGraph) /\ DOMAIN EmptyGraph.edges = {}
        BY DEF EmptyGraph, IsGraph
      <3>3. DOMAIN rows = {}
        BY <3>1
      <3>4. QED
        BY <3>1, <3>2, <3>3 DEF Whole
    <2>2. CASE "seeded" \in Starts /\ graph = Seeded(1).graph /\ rows = Seeded(1).rows
      BY <2>2, SeededSound
    <2>3. QED
      BY <2>1, <2>2 DEF Init
  <1>5. SeedType
    BY <1>1, <1>2, <1>3, <1>4, EditionsAre DEF SeedType, Steps
  <1>6. SeedProgress
    BY <1>1, <1>2 DEF SeedProgress
  <1>7. QED
    BY <1>5, <1>6 DEF SeedInv

\* The run at another step, on another statement.
LEMMA SeederAt ==
  ASSUME SeedType, NEW step, NEW at, at = [seeder EXCEPT !.at = step]
  PROVE  /\ at = [at |-> step, edition |-> seeder.edition, args |-> seeder.args,
                  next |-> seeder.next]
         /\ at.at = step /\ at.edition = seeder.edition /\ at.args = seeder.args
         /\ at.next = seeder.next
  <1>1. at = [at |-> step, edition |-> seeder.edition, args |-> seeder.args, next |-> seeder.next]
    BY DEF SeedType
  <1>2. QED
    BY <1>1

LEMMA SeederNext ==
  ASSUME SeedType, NEW at, at = [seeder EXCEPT !.next = @ + 1]
  PROVE  /\ at = [at |-> seeder.at, edition |-> seeder.edition, args |-> seeder.args,
                  next |-> seeder.next + 1]
         /\ at.at = seeder.at /\ at.edition = seeder.edition /\ at.args = seeder.args
         /\ at.next = seeder.next + 1
  <1>1. at = [at |-> seeder.at, edition |-> seeder.edition, args |-> seeder.args,
              next |-> seeder.next + 1]
    BY DEF SeedType
  <1>2. QED
    BY <1>1

LEMMA BeginStep ==
  ASSUME SeedInv, NEW e \in DOMAIN Editions, NEW a \in Runs, BeginRun(e, a)
  PROVE  SeedInv'
  <1> DEFINE step == IF Orphaned(graph, Files(Editions[e], a)) = {} THEN "write" ELSE "ask"
  <1>1. /\ seeder.at = "idle" /\ runs < MaxRuns
        /\ Accepted(Files(Editions[e], a), Overlays(Editions[e], a))
        /\ seeder' = [at |-> step, edition |-> e, args |-> a, next |-> 1]
        /\ runs' = runs + 1 /\ UNCHANGED <<graph, rows, open>>
    BY DEF BeginRun
  <1>2. step \in {"ask", "write"}
    OBVIOUS
  <1> HIDE DEF step
  <1>3. /\ seeder'.at = step /\ seeder'.edition = e /\ seeder'.args = a /\ seeder'.next = 1
        /\ seeder' = [at |-> seeder'.at, edition |-> seeder'.edition, args |-> seeder'.args,
                      next |-> seeder'.next]
    BY <1>1
  <1>4. Now' = Programs[e][a]
    BY <1>3 DEF Now, Programs
  <1>5. Files(Editions[e], a) # <<>>
    BY <1>1 DEF Accepted
  <1>6. IsList(Now') /\ Len(Now') >= 1
    BY <1>4, <1>5, RunProgram
  <1>7. 1 \in 1..Len(Now')
    BY <1>6, ListParts
  <1>8. runs' \in 0..MaxRuns
    BY <1>1, EditionsAre DEF SeedInv, SeedType
  <1>9. SeedType'
    BY <1>1, <1>2, <1>3, <1>7, <1>8 DEF SeedInv, SeedType, Steps
  <1>10. open' = NoRows
    BY <1>1 DEF SeedInv, SeedProgress
  <1>11. RowsFrom(open', Now', seeder'.next - 1) /\ Reached(Now', seeder'.next - 1, graph')
    <2>1. seeder'.next - 1 = 0 /\ 1..0 = {}
      BY <1>3
    <2>2. DOMAIN open' = {}
      BY <1>10 DEF NoRows
    <2>3. QED
      BY <2>1, <2>2 DEF RowsFrom, Reached
  <1>12. SeedProgress'
    BY <1>1, <1>3, <1>10, <1>11 DEF SeedProgress
  <1>13. QED
    BY <1>9, <1>12 DEF SeedInv

\* A run that ends, whatever it has come to.
LEMMA AsleepKeeps ==
  ASSUME SeedInv, seeder' = Asleep, open' = NoRows, UNCHANGED <<graph, rows, runs>>
  PROVE  SeedInv'
  <1>1. /\ seeder'.at = "idle" /\ seeder'.edition = 1 /\ seeder'.args = AllDomains
        /\ seeder'.next = 1
        /\ seeder' = [at |-> seeder'.at, edition |-> seeder'.edition, args |-> seeder'.args,
                      next |-> seeder'.next]
    BY AsleepIs
  <1>2. Now' = Programs[1][AllDomains]
    BY <1>1 DEF Now, Programs
  <1>3. IsList(Now') /\ Len(Now') >= 1
    BY <1>2, EditionsAre, RunProgram
  <1>4. 1 \in 1..Len(Now')
    BY <1>3, ListParts
  <1>5. SeedType'
    BY <1>1, <1>4, EditionsAre DEF SeedInv, SeedType, Steps
  <1>6. SeedProgress'
    BY <1>1 DEF SeedProgress
  <1>7. QED
    BY <1>5, <1>6 DEF SeedInv

\* A run that goes on to another step and writes nothing.
LEMMA ElsewhereKeeps ==
  ASSUME SeedInv, NEW step \in Steps, seeder' = [seeder EXCEPT !.at = step],
         UNCHANGED <<graph, rows, runs, open>>,
         step = "write" => seeder.at = "ask", step # "ask", open = NoRows
  PROVE  SeedInv'
  <1>1. /\ seeder' = [at |-> step, edition |-> seeder.edition, args |-> seeder.args,
                      next |-> seeder.next]
        /\ seeder'.at = step /\ seeder'.edition = seeder.edition /\ seeder'.args = seeder.args
        /\ seeder'.next = seeder.next
    BY SeederAt DEF SeedInv
  <1>2. Now' = Now
    BY <1>1 DEF Now, Programs
  <1>3. SeedType'
    BY <1>1, <1>2 DEF SeedInv, SeedType
  <1>4. ASSUME step = "write"
        PROVE  /\ RowsFrom(open', Now', seeder'.next - 1)
               /\ Reached(Now', seeder'.next - 1, graph')
    <2>1. seeder'.next - 1 = 0 /\ 1..0 = {}
      BY <1>1, <1>4 DEF SeedInv, SeedProgress
    <2>2. DOMAIN open' = {}
      BY DEF NoRows
    <2>3. QED
      BY <2>1, <2>2 DEF RowsFrom, Reached
  <1>5. SeedProgress'
    BY <1>1, <1>4 DEF SeedInv, SeedProgress
  <1>6. QED
    BY <1>3, <1>5 DEF SeedInv

LEMMA RowsAddedFrom ==
  ASSUME NEW p, NEW n \in Nat, n >= 1, NEW rs, RowsFrom(rs, p, n - 1)
  PROVE  RowsFrom(Over(p[n].rows, rs), p, n)
  <1>1. n - 1 \in Nat /\ (n - 1) + 1 = n
    OBVIOUS
  <1>2. RowsFrom(Over(p[(n - 1) + 1].rows, rs), p, (n - 1) + 1)
    BY <1>1, RowsFromOne
  <1>3. QED
    BY <1>1, <1>2

\* What a statement does for the run.
LEMMA WriteIs ==
  ASSUME SeedInv, Write
  PROVE  LET p == Now
             n == seeder.next
             s == p[n]
         IN  /\ IsList(p) /\ Len(p) \in Nat /\ n \in 1..Len(p) /\ s.op \in Kinds /\ Closes(p)
             /\ Backed(p) /\ Statement = s /\ (Finishing <=> n = Len(p))
             /\ graph' = Applied(graph, s) /\ IsGraph(graph') /\ Whole(graph')
             /\ DOMAIN graph.nodes \subseteq DOMAIN graph'.nodes
             /\ DOMAIN graph.edges \subseteq DOMAIN graph'.edges
             /\ Reached(p, n, graph') /\ RowsFrom(Over(s.rows, open), p, n)
  <1> DEFINE p == Now
             n == seeder.next
             s == p[n]
             ed == Editions[seeder.edition]
  <1>1. seeder.edition \in DOMAIN Editions /\ seeder.args \in Runs /\ n \in 1..Len(p)
    BY DEF SeedInv, SeedType
  <1>2. Accepted(Files(ed, seeder.args), Overlays(ed, seeder.args))
    BY DEF Write, SeedInv, SeedProgress
  <1>3. /\ OverlaysKnown(Files(ed, seeder.args), Overlays(ed, seeder.args))
        /\ Files(ed, seeder.args) # <<>>
    BY <1>2 DEF Accepted
  <1>4. IsList(p) /\ (\A x \in ToSet(p) : x.op \in Kinds) /\ Closes(p) /\ Backed(p)
    BY <1>1, <1>3, RunProgram DEF Now
  <1>5. Len(p) \in Nat /\ s.op \in Kinds
    BY <1>1, <1>4, ListParts
  <1>6. Statement = s /\ (Finishing <=> n = Len(p))
    BY DEF Statement, Finishing, Now
  <1>7. graph' = Applied(graph, s)
    BY <1>6 DEF Write
  <1>8. IsGraph(graph) /\ Whole(graph)
    BY DEF SeedInv, SeedType
  <1>9. /\ IsGraph(graph') /\ Whole(graph')
        /\ DOMAIN graph.nodes \subseteq DOMAIN graph'.nodes
        /\ DOMAIN graph.edges \subseteq DOMAIN graph'.edges
    BY <1>5, <1>7, <1>8, AppliedGrows
  <1>10. Reached(p, n - 1, graph) /\ RowsFrom(open, p, n - 1)
    BY DEF Write, SeedInv, SeedProgress
  <1> HIDE DEF p, n
  <1>11. n - 1 \in Nat /\ (n - 1) + 1 = n /\ n \in Nat /\ n >= 1
    BY <1>1, <1>5
  <1>12. Reached(p, n, graph')
    BY <1>5, <1>7, <1>8, <1>10, <1>11, ReachedOne
  <1>13. RowsFrom(Over(s.rows, open), p, n)
    BY <1>10, <1>11, RowsAddedFrom
  <1>14. QED
    BY <1>1, <1>4, <1>5, <1>6, <1>7, <1>9, <1>12, <1>13 DEF p, n

LEMMA WriteSeeds == ASSUME SeedInv, Write PROVE SeedInv'
  <1> DEFINE p == Now
             n == seeder.next
             s == p[n]
  <1>1. /\ IsList(p) /\ Len(p) \in Nat /\ n \in 1..Len(p) /\ s.op \in Kinds /\ Closes(p)
        /\ Backed(p) /\ Statement = s /\ (Finishing <=> n = Len(p))
        /\ graph' = Applied(graph, s) /\ IsGraph(graph') /\ Whole(graph')
        /\ DOMAIN graph.nodes \subseteq DOMAIN graph'.nodes
        /\ DOMAIN graph.edges \subseteq DOMAIN graph'.edges
        /\ Reached(p, n, graph') /\ RowsFrom(Over(s.rows, open), p, n)
    BY WriteIs
  <1>2. Record(s) /\ runs' = runs /\ seeder.at = "write"
    BY <1>1 DEF Write
  <1>3. \A k \in DOMAIN rows : k[1] \in DOMAIN graph'.nodes
    BY <1>1 DEF SeedInv, SeedType
  <1>4. \A k \in DOMAIN rows' : k[1] \in DOMAIN graph'.nodes
    <2>1. CASE s.op # "commit"
      BY <1>2, <1>3, <2>1 DEF Record
    <2>2. CASE s.op = "commit"
      <3>1. rows' = Over(s.rows, Over(open, rows))
        BY <1>2, <2>2 DEF Record
      <3>2. DOMAIN rows' = DOMAIN rows \cup DOMAIN Over(s.rows, open)
        BY <3>1 DEF Over
      <3>3. ASSUME NEW k \in DOMAIN Over(s.rows, open) PROVE k[1] \in DOMAIN graph'.nodes
        <4>1. PICK m \in 1..n : k \in DOMAIN p[m].rows
          BY <1>1 DEF RowsFrom
        <4>2. Before(p, k[1], n)
          BY <1>1, <2>2, <4>1 DEF Backed
        <4>3. PICK i \in 1..(n - 1) : p[i].op = "node" /\ p[i].key = k[1]
          BY <4>2 DEF Before
        <4>4. i \in 1..n
          BY <1>1
        <4>5. QED
          BY <1>1, <4>3, <4>4 DEF Reached
      <3>4. QED
        BY <1>3, <3>2, <3>3
    <2>3. QED
      BY <2>1, <2>2
  <1>5. CASE n = Len(p)
    <2>1. s.op = "commit"
      BY <1>1, <1>5 DEF Closes
    <2>2. open' = NoRows
      BY <1>2, <2>1 DEF Record
    <2>3. seeder' = [seeder EXCEPT !.at = "clear ids"]
      BY <1>1, <1>5 DEF Write
    <2>4. /\ seeder' = [at |-> "clear ids", edition |-> seeder.edition, args |-> seeder.args,
                        next |-> seeder.next]
          /\ seeder'.at = "clear ids" /\ seeder'.edition = seeder.edition
          /\ seeder'.args = seeder.args /\ seeder'.next = seeder.next
      BY <2>3, SeederAt DEF SeedInv
    <2>5. Now' = Now
      BY <2>4 DEF Now, Programs
    <2>6. SeedType'
      BY <1>1, <1>2, <1>4, <2>4, <2>5 DEF SeedInv, SeedType, Steps
    <2>7. SeedProgress'
      BY <2>2, <2>4 DEF SeedProgress
    <2>8. QED
      BY <2>6, <2>7 DEF SeedInv
  <1>6. CASE n # Len(p)
    <2>1. seeder' = [seeder EXCEPT !.next = @ + 1]
      BY <1>1, <1>6 DEF Write
    <2>2. /\ seeder' = [at |-> seeder.at, edition |-> seeder.edition, args |-> seeder.args,
                        next |-> seeder.next + 1]
          /\ seeder'.at = seeder.at /\ seeder'.edition = seeder.edition
          /\ seeder'.args = seeder.args /\ seeder'.next = seeder.next + 1
      BY <2>1, SeederNext DEF SeedInv
    <2>3. Now' = Now
      BY <2>2 DEF Now, Programs
    <2>4. seeder'.next \in 1..Len(p) /\ seeder'.next - 1 = n
      BY <1>1, <1>6, <2>2
    <2>5. SeedType'
      BY <1>1, <1>2, <1>4, <2>2, <2>3, <2>4 DEF SeedInv, SeedType
    <2>6. RowsFrom(open', p, n)
      <3>1. CASE s.op # "commit"
        BY <1>1, <1>2, <3>1 DEF Record
      <3>2. CASE s.op = "commit"
        <4>1. DOMAIN open' = {}
          BY <1>2, <3>2 DEF Record, NoRows
        <4>2. QED
          BY <4>1 DEF RowsFrom
      <3>3. QED
        BY <3>1, <3>2
    <2>7. SeedProgress'
      BY <1>1, <1>2, <2>2, <2>3, <2>4, <2>6 DEF SeedInv, SeedProgress
    <2>8. QED
      BY <2>5, <2>7 DEF SeedInv
  <1>7. QED
    BY <1>5, <1>6

\* A request changes nothing that a run depends on.
LEMMA StepsBeside ==
  ASSUME NEW r \in Readers, Request(r) \/ Proceed(r) PROVE UNCHANGED seeding
  <1>1. CASE Request(r)
    BY <1>1 DEF Request
  <1>2. CASE Lookup(r) \/ ReadSubtypeIds(r) \/ ReadSubtree(r) \/ ReadRoots(r) \/ ReadForest(r)
    BY <1>2 DEF Lookup, ReadSubtypeIds, ReadSubtree, ReadRoots, ReadForest, Gather, Become
  <1>3. CASE \/ ReadDetail(r) \/ ReadRelationships(r)
             \/ ReadSchemas(r) \/ ReadStages(r) \/ ReadRefinement(r)
    BY <1>3 DEF ReadDetail, ReadRelationships, ReadSchemas, ReadStages, ReadRefinement,
                Gather, Become
  <1>4. CASE SearchEnglish(r) \/ SearchGraph(r) \/ SearchOverlay(r) \/ SearchRows(r)
    BY <1>4 DEF SearchEnglish, SearchGraph, SearchOverlay, SearchRows, Gather, Become
  <1>5. CASE Overlay(r) \/ Store(r) \/ Leave(r)
    BY <1>5 DEF Overlay, Store, Leave, Become
  <1>6. QED
    BY <1>1, <1>2, <1>3, <1>4, <1>5 DEF Proceed

LEMMA SeedSteps == SeedInv /\ [Next]_vars => SeedInv'
  <1> SUFFICES ASSUME SeedInv, [Next]_vars PROVE SeedInv'
    OBVIOUS
  <1>1. CASE UNCHANGED <<graph, rows, open, seeder, runs>>
    <2>1. Now' = Now
      BY <1>1 DEF Now, Programs
    <2>2. SeedType'
      BY <1>1, <2>1 DEF SeedInv, SeedType
    <2>3. SeedProgress'
      BY <1>1, <2>1 DEF SeedInv, SeedProgress
    <2>4. QED
      BY <2>2, <2>3 DEF SeedInv
  <1>2. CASE Seed
    <2>1. CASE \E e \in DOMAIN Editions, a \in Runs : BeginRun(e, a)
      BY <2>1, BeginStep
    <2>2. CASE Answer
      <3>1. seeder.at = "ask" /\ UNCHANGED <<graph, rows, open, runs>>
        BY <2>2 DEF Answer, GoOn, GiveUp
      <3>2. open = NoRows
        BY <3>1 DEF SeedInv, SeedProgress
      <3>3. CASE GoOn
        BY <3>1, <3>2, <3>3, ElsewhereKeeps DEF GoOn, Steps
      <3>4. CASE GiveUp
        BY <3>1, <3>2, <3>4, AsleepKeeps DEF GiveUp
      <3>5. QED
        BY <2>2, <3>3, <3>4 DEF Answer
    <2>3. CASE Write
      BY <2>3, WriteSeeds
    <2>4. CASE Fail
      BY <2>4, AsleepKeeps DEF Fail
    <2>5. CASE ClearIds
      <3>1. open = NoRows /\ seeder' = [seeder EXCEPT !.at = "clear trees"]
        BY <2>5 DEF ClearIds, SeedInv, SeedProgress
      <3>2. UNCHANGED <<graph, rows, runs, open>>
        BY <2>5 DEF ClearIds
      <3>3. QED
        BY <3>1, <3>2, ElsewhereKeeps DEF Steps
    <2>6. CASE ClearTrees \/ ClearFails
      <3>1. seeder.at # "write" /\ seeder' = Asleep /\ UNCHANGED <<graph, rows, runs, open>>
        BY <2>6 DEF ClearTrees, ClearFails
      <3>2. open = NoRows
        BY <3>1 DEF SeedInv, SeedProgress
      <3>3. QED
        BY <3>1, <3>2, AsleepKeeps
    <2>7. QED
      BY <1>2, <2>1, <2>2, <2>3, <2>4, <2>5, <2>6 DEF Seed
  <1>3. CASE UNCHANGED seeding
    BY <1>1, <1>3 DEF seeding
  <1>4. CASE UNCHANGED vars
    BY <1>1, <1>4 DEF vars
  <1>5. CASE \E r \in Readers : Request(r) \/ Proceed(r)
    <2>1. PICK r \in Readers : Request(r) \/ Proceed(r)
      BY <1>5
    <2>2. UNCHANGED seeding
      BY <2>1, StepsBeside
    <2>3. QED
      BY <1>3, <2>2
  <1>6. CASE \E k \in Keys : Expire(k)
    BY <1>3, <1>6 DEF Expire
  <1>7. QED
    BY <1>2, <1>4, <1>5, <1>6 DEF Next

LEMMA Seeding == Spec => []SeedInv
  BY SeedInit, SeedSteps, PTL DEF Spec

\* Every reachable state of graph, rows, cache, requests and runs is well typed, no
\* edge lacks an end and no row names a node that the graph has not got: what
\* merge_concept and upsert_concept_translation write in this order, commit by
\* commit and whatever fails in between.
THEOREM TypeCorrect == Spec => []TypeOK
  <1>1. SeedInv /\ BrowseInv => TypeOK
    <2> SUFFICES ASSUME SeedInv, BrowseInv PROVE TypeOK
      OBVIOUS
    <2>1. DOMAIN cache \subseteq Keys
      BY DEF BrowseInv, CacheInv
    <2>2. ASSUME NEW r \in Readers PROVE reader[r].at \in ReaderSteps
      <3>1. TaskSound(reader[r])
        BY DEF BrowseInv, ReaderInv, Sound
      <3>2. \A task \in Tasks : StepsOf(task) \subseteq ReaderSteps
        BY DEF Tasks, StepsOf, ReaderSteps, First
      <3>3. QED
        BY <3>1, <3>2 DEF TaskSound, ReaderSteps, First
    <2>3. QED
      BY <2>1, <2>2 DEF SeedInv, SeedType, Whole, Now, TypeOK
  <1>2. QED
    BY <1>1, Seeding, Browsing, PTL

-----------------------------------------------------------------------------
(* What a full run brings.                                                  *)

LEMMA AgreeingFiles ==
  ASSUME NEW e \in DOMAIN Editions, FilesAgree(e), NEW p, p = Programs[e][AllDomains]
  PROVE  Consistent(p)
  <1>1. /\ {x \in ToSet(p) : x.op = "node"} = Declared[e].nodes
        /\ {x \in ToSet(p) : x.op = "edge"} = Declared[e].edges
    BY FullProgram
  <1>2. \A x \in ToSet(p) : x.op \in Kinds
    BY EditionsAre, RunProgram
  <1>3. QED
    BY <1>1, <1>2 DEF FilesAgree, Consistent, Kinds

\* The graph has what a full run brings.
Brought(e, g) ==
    /\ KeysOf(Declared[e].nodes) \subseteq DOMAIN g.nodes
    /\ KeysOf(Declared[e].backward) \subseteq DOMAIN g.edges
AsDeclared(e, g) ==
    /\ \A s \in Declared[e].nodes : g.nodes[s.key] = s.props
    /\ \A s \in Declared[e].edges : s.key \in DOMAIN g.edges => g.edges[s.key] = s.props

LEMMA FullRunBrings ==
  ASSUME NEW e \in DOMAIN Editions, NEW p, p = Programs[e][AllDomains], NEW g,
         Reached(p, Len(p), g)
  PROVE  Brought(e, g) /\ (AsWritten(p, Len(p), g) => AsDeclared(e, g))
  <1>1. /\ \A s \in Declared[e].nodes : s \in ToSet(p) /\ s.op = "node"
        /\ \A s \in Declared[e].edges : s \in ToSet(p) /\ s.op = "edge"
        /\ Declared[e].backward \subseteq Declared[e].edges
        /\ \A s \in Declared[e].backward : Arrives(p, s)
    BY FullProgram
  <1>2. IsList(p)
    BY EditionsAre, RunProgram
  <1>3. \A s \in ToSet(p) : \E m \in 1..Len(p) : p[m] = s
    BY <1>2, ListParts
  <1>4. \A s \in Declared[e].nodes : s.key \in DOMAIN g.nodes
    BY <1>1, <1>3 DEF Reached
  <1>5. ASSUME NEW s \in Declared[e].backward PROVE s.key \in DOMAIN g.edges
    <2>1. s.op = "edge" /\ Arrives(p, s)
      BY <1>1
    <2>2. PICK n \in 1..Len(p) : p[n] = s /\ \A k \in EndsOf(s) : Before(p, k, n)
      BY <2>1 DEF Arrives
    <2>3. EndsBefore(p, n)
      BY <2>2 DEF EndsBefore
    <2>4. QED
      BY <2>1, <2>2, <2>3 DEF Reached
  <1>6. ASSUME AsWritten(p, Len(p), g) PROVE AsDeclared(e, g)
    BY <1>1, <1>3, <1>6 DEF AsWritten, AsDeclared
  <1>7. QED
    BY <1>4, <1>5, <1>6 DEF Brought, KeysOf

\* The edges among the first n statements are in the graph.
EdgesIn(p, n, g) == \A m \in 1..n : p[m].op = "edge" => p[m].key \in DOMAIN g.edges

LEMMA EdgesInOne ==
  ASSUME NEW p, NEW n \in Nat, NEW g, IsGraph(g), EdgesIn(p, n, g), p[n + 1].op \in Kinds,
         p[n + 1].op = "edge" => EndsOf(p[n + 1]) \subseteq DOMAIN g.nodes
  PROVE  EdgesIn(p, n + 1, Applied(g, p[n + 1]))
  <1> DEFINE s == p[n + 1]
             h == Applied(g, s)
  <1>1. DOMAIN g.edges \subseteq DOMAIN h.edges
    BY AppliedGrows
  <1>2. ASSUME NEW m \in 1..(n + 1), p[m].op = "edge" PROVE p[m].key \in DOMAIN h.edges
    <2>1. CASE m \in 1..n
      BY <1>1, <1>2, <2>1 DEF EdgesIn
    <2>2. CASE m = n + 1
      <3>1. IsPut(h.edges, g.edges, s.key, s.props)
        BY <1>2, <2>2, EdgeApplied
      <3>2. QED
        BY <2>2, <3>1 DEF IsPut
    <2>3. QED
      BY <2>1, <2>2
  <1>3. QED
    BY <1>2 DEF EdgesIn, h, s

FullRun == seeder.at = "write" /\ seeder.args = AllDomains
Again == done.times >= 1 /\ done.edition = seeder.edition

ArriveInv ==
    /\ done = [edition |-> done.edition, times |-> done.times]
    /\ done.edition \in DOMAIN Editions /\ done.times \in 0..2
    /\ done.times >= 1 => Brought(done.edition, graph)
    /\ done.times >= 2 => KeysOf(Declared[done.edition].edges) \subseteq DOMAIN graph.edges
    /\ settled => AsDeclared(done.edition, graph)
    /\ FullRun => /\ AsWritten(Now, seeder.next - 1, graph)
                  /\ Again => EdgesIn(Now, seeder.next - 1, graph)

LEMMA ArriveInit ==
  ASSUME \A e \in DOMAIN Editions : FilesAgree(e), Init
  PROVE  ArriveInv
  <1>1. seeder.at = "idle"
    BY AsleepIs DEF Init
  <1>2. ~FullRun
    BY <1>1 DEF FullRun
  <1>3. 1 \in DOMAIN Editions
    BY EditionsAre
  <1>4. CASE done = [edition |-> 1, times |-> 0] /\ settled = FALSE
    BY <1>2, <1>3, <1>4 DEF ArriveInv
  <1>5. CASE /\ "seeded" \in Starts /\ graph = Seeded(1).graph
             /\ done = [edition |-> 1, times |-> 1] /\ settled = TRUE
    <2> DEFINE p == Programs[1][AllDomains]
    <2>1. Consistent(p)
      BY <1>3, AgreeingFiles
    <2>2. Reached(p, Len(p), graph) /\ AsWritten(p, Len(p), graph)
      BY <1>5, <2>1, SeededSound
    <2>3. Brought(1, graph) /\ AsDeclared(1, graph)
      BY <1>3, <2>2, FullRunBrings
    <2>4. QED
      BY <1>2, <1>3, <1>5, <2>3 DEF ArriveInv
  <1>6. QED
    BY <1>4, <1>5 DEF Init

\* What a run is half-way through stays true when the graph grows.
LEMMA BroughtGrows ==
  ASSUME NEW e, NEW g, NEW h, Brought(e, g), DOMAIN g.nodes \subseteq DOMAIN h.nodes,
         DOMAIN g.edges \subseteq DOMAIN h.edges
  PROVE  Brought(e, h)
  BY DEF Brought

LEMMA WriteArrives ==
  ASSUME \A e \in DOMAIN Editions : FilesAgree(e) /\ EndsDeclared(e),
         SeedInv, ArriveInv, Write
  PROVE  ArriveInv'
  <1> DEFINE p == Now
             n == seeder.next
             s == p[n]
             ed == seeder.edition
  <1>1. /\ IsList(p) /\ Len(p) \in Nat /\ n \in 1..Len(p) /\ s.op \in Kinds
        /\ (Finishing <=> n = Len(p))
        /\ graph' = Applied(graph, s) /\ IsGraph(graph')
        /\ DOMAIN graph.nodes \subseteq DOMAIN graph'.nodes
        /\ DOMAIN graph.edges \subseteq DOMAIN graph'.edges
        /\ Reached(p, n, graph')
    BY WriteIs
  <1>2. /\ ed \in DOMAIN Editions /\ seeder.at = "write" /\ IsGraph(graph) /\ Whole(graph)
        /\ Reached(p, n - 1, graph)
    BY DEF Write, SeedInv, SeedType, SeedProgress
  <1>3. n - 1 \in Nat /\ (n - 1) + 1 = n /\ n - 1 < Len(p)
    BY <1>1
  <1>4. ASSUME seeder.args = AllDomains
        PROVE  /\ p = Programs[ed][AllDomains] /\ AsWritten(p, n, graph')
               /\ Again => EdgesIn(p, n, graph')
    <2>1. p = Programs[ed][AllDomains]
      BY <1>4 DEF Now
    <2>2. Consistent(p)
      BY <1>2, <2>1, AgreeingFiles
    <2>3. AsWritten(p, n - 1, graph) /\ (Again => EdgesIn(p, n - 1, graph))
      BY <1>2, <1>4 DEF ArriveInv, FullRun
    <2> HIDE DEF p, n
    <2>4. AsWritten(p, n, graph')
      BY <1>1, <1>2, <1>3, <2>2, <2>3, AsWrittenOne
    <2>5. ASSUME Again PROVE EdgesIn(p, n, graph')
      <3>1. ASSUME s.op = "edge" PROVE EndsOf(s) \subseteq DOMAIN graph.nodes
        <4>1. s \in ToSet(p)
          BY <1>1, ListParts
        <4>2. s \in Declared[ed].edges
          BY <1>2, <2>1, <3>1, <4>1, FullProgram
        <4>3. EndsOf(s) \subseteq KeysOf(Declared[ed].nodes)
          BY <1>2, <4>2 DEF EndsDeclared
        <4>4. KeysOf(Declared[ed].nodes) \subseteq DOMAIN graph.nodes
          BY <2>5 DEF Again, ArriveInv, Brought
        <4>5. QED
          BY <4>3, <4>4
      <3>2. EdgesIn(p, n - 1, graph)
        BY <2>3, <2>5
      <3>3. QED
        BY <1>1, <1>2, <1>3, <3>1, <3>2, EdgesInOne
    <2>6. QED
      BY <2>1, <2>4, <2>5 DEF p, n
  <1>5. CASE Finishing /\ seeder.args = AllDomains
    <2>1. /\ done' = [edition |-> ed,
                      times |-> IF done.times > 0 /\ done.edition = ed THEN 2 ELSE 1]
          /\ seeder' = [seeder EXCEPT !.at = "clear ids"]
      BY <1>5 DEF Write
    <2>2. done'.edition = ed /\ done'.times \in 1..2 /\ (done'.times = 2 => Again)
          /\ done' = [edition |-> done'.edition, times |-> done'.times]
      <3> DEFINE times == IF done.times > 0 /\ done.edition = ed THEN 2 ELSE 1
      <3>1. done' = [edition |-> ed, times |-> times]
        BY <2>1
      <3>2. done.times \in 0..2
        BY DEF ArriveInv
      <3>3. times \in 1..2 /\ (times = 2 => Again)
        BY <3>2 DEF Again
      <3> HIDE DEF times
      <3>4. done'.edition = ed /\ done'.times = times
        BY <3>1
      <3>5. QED
        BY <3>1, <3>3, <3>4
    <2>3. seeder'.at = "clear ids"
      BY <2>1, SeederAt DEF SeedInv
    <2>4. Brought(ed, graph') /\ AsDeclared(ed, graph')
      BY <1>1, <1>2, <1>4, <1>5, FullRunBrings
    <2>5. ASSUME Again PROVE KeysOf(Declared[ed].edges) \subseteq DOMAIN graph'.edges
      <3>1. EdgesIn(p, Len(p), graph')
        BY <1>1, <1>4, <1>5, <2>5
      <3>2. \A x \in Declared[ed].edges : x \in ToSet(p) /\ x.op = "edge"
        BY <1>2, <1>4, <1>5, FullProgram
      <3>3. \A x \in Declared[ed].edges : \E m \in 1..Len(p) : p[m] = x
        BY <1>1, <3>2, ListParts
      <3>4. QED
        BY <3>1, <3>2, <3>3 DEF EdgesIn, KeysOf
    <2>6. ~FullRun'
      BY <2>3 DEF FullRun
    <2>7. QED
      BY <1>2, <2>2, <2>4, <2>5, <2>6 DEF ArriveInv, Declared
  <1>6. CASE ~(Finishing /\ seeder.args = AllDomains)
    <2>1. done' = done /\ settled' = FALSE
      BY <1>6 DEF Write
    <2>2. done.times >= 1 => Brought(done.edition, graph')
      BY <1>1, BroughtGrows DEF ArriveInv
    <2>3. done.times >= 2 => KeysOf(Declared[done.edition].edges) \subseteq DOMAIN graph'.edges
      BY <1>1 DEF ArriveInv
    <2>4. ASSUME FullRun'
          PROVE  /\ AsWritten(Now', seeder'.next - 1, graph')
                 /\ Again' => EdgesIn(Now', seeder'.next - 1, graph')
      <3>1. CASE Finishing
        <4>1. seeder' = [seeder EXCEPT !.at = "clear ids"]
          BY <3>1 DEF Write
        <4>2. seeder'.at = "clear ids"
          BY <4>1, SeederAt DEF SeedInv
        <4>3. QED
          BY <2>4, <4>2 DEF FullRun
      <3>2. CASE ~Finishing
        <4>1. seeder' = [seeder EXCEPT !.next = @ + 1]
          BY <3>2 DEF Write
        <4>2. /\ seeder'.edition = ed /\ seeder'.args = seeder.args /\ seeder'.next = n + 1
          BY <4>1, SeederNext DEF SeedInv
        <4>3. Now' = p /\ seeder'.next - 1 = n /\ seeder.args = AllDomains
          <5>1. n \in Nat
            BY <1>1
          <5>2. seeder'.next - 1 = n
            BY <4>2, <5>1
          <5>3. Now' = p
            BY <4>2 DEF Now, Programs
          <5>4. seeder.args = AllDomains
            BY <2>4, <4>2 DEF FullRun
          <5>5. QED
            BY <5>2, <5>3, <5>4
        <4>4. Again' <=> Again
          BY <2>1, <4>2 DEF Again
        <4>5. QED
          BY <1>4, <4>3, <4>4
      <3>3. QED
        BY <3>1, <3>2
    <2>5. QED
      BY <2>1, <2>2, <2>3, <2>4 DEF ArriveInv, Declared
  <1>7. QED
    BY <1>5, <1>6

LEMMA OthersArrive ==
  ASSUME SeedInv, ArriveInv, UNCHANGED <<graph, done, settled>>,
         FullRun' => \/ seeder'.next = 1
                     \/ UNCHANGED seeder
  PROVE  ArriveInv'
  <1>1. ASSUME FullRun'
        PROVE  /\ AsWritten(Now', seeder'.next - 1, graph')
               /\ Again' => EdgesIn(Now', seeder'.next - 1, graph')
    <2>1. CASE seeder'.next = 1
      <3>1. seeder'.next - 1 = 0 /\ 1..0 = {}
        BY <2>1
      <3>2. QED
        BY <3>1 DEF AsWritten, EdgesIn
    <2>2. CASE UNCHANGED seeder
      <3>1. Now' = Now /\ (Again' <=> Again) /\ FullRun
        BY <1>1, <2>2 DEF Now, Programs, Again, FullRun
      <3>2. QED
        BY <2>2, <3>1 DEF ArriveInv
    <2>3. QED
      BY <1>1, <2>1, <2>2
  <1>2. QED
    BY <1>1 DEF ArriveInv, Declared

LEMMA ArriveSteps ==
  ASSUME \A e \in DOMAIN Editions : FilesAgree(e) /\ EndsDeclared(e),
         SeedInv, ArriveInv, [Next]_vars
  PROVE  ArriveInv'
  <1>1. CASE UNCHANGED <<graph, done, settled, seeder>>
    BY <1>1, OthersArrive
  <1>2. CASE Seed
    <2>1. CASE \E e \in DOMAIN Editions, a \in Runs : BeginRun(e, a)
      <3>1. PICK e \in DOMAIN Editions, a \in Runs : BeginRun(e, a)
        BY <2>1
      <3>2. seeder'.next = 1 /\ UNCHANGED <<graph, done, settled>>
        BY <3>1 DEF BeginRun
      <3>3. QED
        BY <3>2, OthersArrive
    <2>2. CASE Answer
      <3>1. seeder.at = "ask" /\ UNCHANGED <<graph, done, settled>>
        BY <2>2 DEF Answer, GoOn, GiveUp
      <3>2. seeder'.next = 1
        <4>1. seeder.next = 1
          BY <3>1 DEF SeedInv, SeedProgress
        <4>2. CASE GoOn
          BY <4>1, <4>2, SeederAt DEF GoOn, SeedInv
        <4>3. CASE GiveUp
          BY <4>3, AsleepIs DEF GiveUp
        <4>4. QED
          BY <2>2, <4>2, <4>3 DEF Answer
      <3>3. QED
        BY <3>1, <3>2, OthersArrive
    <2>3. CASE Write
      BY <2>3, WriteArrives
    <2>4. CASE Fail \/ ClearTrees \/ ClearFails
      <3>1. seeder' = Asleep /\ UNCHANGED <<graph, done, settled>>
        BY <2>4 DEF Fail, ClearTrees, ClearFails
      <3>2. QED
        BY <3>1, AsleepIs, OthersArrive
    <2>5. CASE ClearIds
      <3>1. seeder' = [seeder EXCEPT !.at = "clear trees"] /\ UNCHANGED <<graph, done, settled>>
        BY <2>5 DEF ClearIds
      <3>2. seeder'.at = "clear trees"
        BY <3>1, SeederAt DEF SeedInv
      <3>3. ~FullRun'
        BY <3>2 DEF FullRun
      <3>4. QED
        BY <3>1, <3>3, OthersArrive
    <2>6. QED
      BY <1>2, <2>1, <2>2, <2>3, <2>4, <2>5 DEF Seed
  <1>3. CASE UNCHANGED seeding
    BY <1>1, <1>3 DEF seeding
  <1>4. CASE UNCHANGED vars
    BY <1>1, <1>4 DEF vars
  <1>5. CASE \E r \in Readers : Request(r) \/ Proceed(r)
    BY <1>3, <1>5, StepsBeside
  <1>6. CASE \E k \in Keys : Expire(k)
    BY <1>3, <1>6 DEF Expire
  <1>7. QED
    BY <1>2, <1>4, <1>5, <1>6 DEF Next

LEMMA Arriving ==
  ASSUME \A e \in DOMAIN Editions : FilesAgree(e) /\ EndsDeclared(e)
  PROVE  Spec => []ArriveInv
  <1>1. Init => ArriveInv
    BY ArriveInit
  <1>2. SeedInv /\ ArriveInv /\ [Next]_vars => ArriveInv'
    BY ArriveSteps
  <1>3. QED
    BY <1>1, <1>2, Seeding, PTL DEF Spec

\* After a full run of scripts/seed.py the graph has every node of the files, and
\* every edge that comes no sooner than its ends; after a second one all edges;
\* for files that say one thing of every node and edge and declare the ends of
\* all edges.
THEOREM FilesArrival ==
  ASSUME \A e \in DOMAIN Editions : FilesAgree(e) /\ EndsDeclared(e)
  PROVE  Spec => []FilesArrive
  <1>1. ArriveInv => FilesArrive
    BY DEF ArriveInv, FilesArrive, Brought, AsDeclared
  <1>2. QED
    BY <1>1, Arriving, PTL

-----------------------------------------------------------------------------
(* What links reach.                                                        *)

LEMMA FiniteImage ==
  ASSUME NEW f, NEW S, f \in [S -> {f[x] : x \in S}], IsFiniteSet(S)
  PROVE  IsFiniteSet({f[x] : x \in S})
  <1> DEFINE T == {f[x] : x \in S}
  <1>1. f \in Surjection(S, T)
    BY DEF Surjection
  <1>2. QED
    BY <1>1, FS_Surjection

\* What is reached in up to n hops.
Hops(hop, links, from, n) ==
    hop = [i \in 0..n |->
            IF i = 0 THEN from
            ELSE LET near == hop[i - 1]
                 IN  near \cup {p[2] : p \in {q \in links : q[1] \in near}}]

\* One hop more.
Nearby(links, near) == near \cup {p[2] : p \in {q \in links : q[1] \in near}}

LEMMA HopsOne ==
  ASSUME NEW links, NEW from, NEW n \in Nat, NEW hop, Hops(hop, links, from, n)
  PROVE  \E more : Hops(more, links, from, n + 1)
  <1> DEFINE next == Nearby(links, hop[n])
             g == [i \in 0..(n + 1) |-> IF i <= n THEN hop[i] ELSE next]
  <1>1. \A i \in 0..n : hop[i] = IF i = 0 THEN from ELSE Nearby(links, hop[i - 1])
    BY DEF Hops, Nearby
  <1> HIDE DEF next
  <1>2. /\ \A i \in 0..n : g[i] = hop[i]
        /\ g[n + 1] = next /\ n + 1 # 0 /\ g = [i \in 0..(n + 1) |-> g[i]]
    OBVIOUS
  <1> HIDE DEF g
  <1>3. ASSUME NEW i \in 0..(n + 1)
        PROVE  g[i] = IF i = 0 THEN from ELSE Nearby(links, g[i - 1])
    <2>1. CASE i = n + 1
      <3>1. i # 0 /\ i - 1 = n /\ n \in 0..n
        BY <2>1
      <3>2. g[i] = next /\ g[i - 1] = hop[n]
        BY <1>2, <2>1, <3>1
      <3>3. QED
        BY <3>1, <3>2 DEF next
    <2>2. CASE i \in 0..n
      <3>1. i # 0 => i - 1 \in 0..n
        BY <2>2
      <3>2. QED
        BY <1>1, <1>2, <2>2, <3>1
    <2>3. QED
      BY <2>1, <2>2
  <1>4. Hops(g, links, from, n + 1)
    BY <1>2, <1>3 DEF Hops, Nearby
  <1>5. QED
    BY <1>4

LEMMA HopsExist ==
  ASSUME NEW links, NEW from, NEW n \in Nat
  PROVE  \E hop : Hops(hop, links, from, n)
  <1> DEFINE T == {m \in 0..n : \E hop : Hops(hop, links, from, m)}
  <1>1. 0 \in T
    <2>1. Hops([i \in 0..0 |-> from], links, from, 0)
      BY DEF Hops
    <2>2. QED
      BY <2>1
  <1>2. ASSUME NEW m \in 0..n, m \in T, m < n PROVE m + 1 \in T
    BY <1>2, HopsOne
  <1> HIDE DEF T
  <1>3. 0..n \subseteq T
    BY <1>1, <1>2, Climb
  <1>4. QED
    BY <1>3 DEF T

\* The hops that Reach counts.
HopsTo(hop, links, from, reached) ==
    /\ hop[0] = from /\ reached = hop[Cardinality(links)]
    /\ \A i \in 0..Cardinality(links) : i < Cardinality(links) =>
          hop[i + 1] = Nearby(links, hop[i])

LEMMA ReachIs ==
  ASSUME NEW links, IsFiniteSet(links), NEW from
  PROVE  \E hop : HopsTo(hop, links, from, Reach(links, from))
  <1> DEFINE n == Cardinality(links)
             hop == CHOOSE h :
                h = [i \in 0..n |->
                      IF i = 0 THEN from
                      ELSE LET near == h[i - 1]
                           IN  near \cup {p[2] : p \in {q \in links : q[1] \in near}}]
  <1>1. n \in Nat
    BY FS_CardinalityType
  <1>2. \E h : h = [i \in 0..n |->
                      IF i = 0 THEN from
                      ELSE LET near == h[i - 1]
                           IN  near \cup {p[2] : p \in {q \in links : q[1] \in near}}]
    <2>1. PICK h : Hops(h, links, from, n)
      BY <1>1, HopsExist
    <2>2. QED
      BY <2>1 DEF Hops
  <1>3. hop = [i \in 0..n |->
                      IF i = 0 THEN from
                      ELSE LET near == hop[i - 1]
                           IN  near \cup {p[2] : p \in {q \in links : q[1] \in near}}]
    BY <1>2
  <1>4. Reach(links, from) = hop[n]
    BY DEF Reach
  <1> HIDE DEF hop
  <1>5. \A i \in 0..n : hop[i] = IF i = 0 THEN from ELSE Nearby(links, hop[i - 1])
    BY <1>3 DEF Nearby
  <1> HIDE DEF n
  <1>6. hop[0] = from
    BY <1>1, <1>5
  <1>7. ASSUME NEW i \in 0..n, i < n PROVE hop[i + 1] = Nearby(links, hop[i])
    <2>1. i + 1 \in 0..n /\ i + 1 # 0 /\ (i + 1) - 1 = i
      BY <1>1, <1>7
    <2>2. QED
      BY <1>5, <2>1
  <1>8. HopsTo(hop, links, from, Reach(links, from))
    BY <1>4, <1>6, <1>7 DEF HopsTo, n
  <1>9. QED
    BY <1>8

Closed(links, S) == \A q \in links : q[1] \in S => q[2] \in S

LEMMA ClosedStays ==
  ASSUME NEW links, NEW S, Closed(links, S)
  PROVE  Nearby(links, S) = S
  BY DEF Closed, Nearby

\* No more than what any closed set holds that holds the beginning ...
LEMMA ReachLeast ==
  ASSUME NEW links, IsFiniteSet(links), NEW from, NEW S, from \subseteq S, Closed(links, S)
  PROVE  Reach(links, from) \subseteq S
  <1> DEFINE n == Cardinality(links)
  <1>1. n \in Nat
    BY FS_CardinalityType
  <1>2. PICK hop : HopsTo(hop, links, from, Reach(links, from))
    BY ReachIs
  <1>3. /\ hop[0] = from /\ Reach(links, from) = hop[n]
        /\ \A i \in 0..n : i < n => hop[i + 1] = Nearby(links, hop[i])
    BY <1>2 DEF HopsTo
  <1> HIDE DEF n
  <1> DEFINE T == {i \in 0..n : hop[i] \subseteq S}
  <1>4. 0 \in T
    BY <1>1, <1>3
  <1>5. ASSUME NEW i \in 0..n, i \in T, i < n PROVE i + 1 \in T
    <2>1. hop[i + 1] = Nearby(links, hop[i]) /\ hop[i] \subseteq S
      BY <1>3, <1>5
    <2>2. Nearby(links, hop[i]) \subseteq S
      BY <2>1 DEF Nearby, Closed
    <2>3. i + 1 \in 0..n
      BY <1>1, <1>5
    <2>4. QED
      BY <2>1, <2>2, <2>3
  <1> HIDE DEF T
  <1>6. 0..n \subseteq T
    BY <1>1, <1>4, <1>5, Climb
  <1>7. n \in 0..n
    BY <1>1
  <1>8. QED
    BY <1>3, <1>6, <1>7 DEF T

\* ... and that much: of the hops that are not closed each crosses a link more.
Crossed(links, S) == {q \in links : q[2] \in S}

LEMMA CrossesMore ==
  ASSUME NEW links, IsFiniteSet(links), NEW S, ~Closed(links, S)
  PROVE  Cardinality(Crossed(links, Nearby(links, S))) >= Cardinality(Crossed(links, S)) + 1
  <1> DEFINE A == Crossed(links, S)
             B == Crossed(links, Nearby(links, S))
  <1>1. PICK q \in links : q[1] \in S /\ q[2] \notin S
    BY DEF Closed
  <1>2. q \in B /\ q \notin A /\ A \subseteq B /\ B \subseteq links
    BY <1>1 DEF Crossed, Nearby
  <1> HIDE DEF A, B
  <1>3. IsFiniteSet(B)
    BY <1>2, FS_Subset
  <1>4. IsFiniteSet(A) /\ Cardinality(A) <= Cardinality(B) /\ Cardinality(A) # Cardinality(B)
    BY <1>2, <1>3, FS_Subset
  <1>5. Cardinality(A) \in Nat /\ Cardinality(B) \in Nat
    BY <1>3, <1>4, FS_CardinalityType
  <1>6. Cardinality(B) >= Cardinality(A) + 1
    BY <1>4, <1>5
  <1>7. QED
    BY <1>6 DEF A, B

LEMMA ReachClosed ==
  ASSUME NEW links, IsFiniteSet(links), NEW from
  PROVE  from \subseteq Reach(links, from) /\ Closed(links, Reach(links, from))
  <1> DEFINE n == Cardinality(links)
             Cross(i, hop) == Cardinality(Crossed(links, hop[i]))
  <1>1. n \in Nat
    BY FS_CardinalityType
  <1>2. PICK hop : HopsTo(hop, links, from, Reach(links, from))
    BY ReachIs
  <1>3. /\ hop[0] = from /\ Reach(links, from) = hop[n]
        /\ \A i \in 0..n : i < n => hop[i + 1] = Nearby(links, hop[i])
    BY <1>2 DEF HopsTo
  <1>4. \A i : /\ IsFiniteSet(Crossed(links, hop[i])) /\ Cross(i, hop) \in Nat
               /\ Cross(i, hop) <= n
               /\ Cross(i, hop) = n => Crossed(links, hop[i]) = links
    <2>1. SUFFICES ASSUME NEW i
                   PROVE  /\ IsFiniteSet(Crossed(links, hop[i])) /\ Cross(i, hop) \in Nat
                          /\ Cross(i, hop) <= n
                          /\ Cross(i, hop) = n => Crossed(links, hop[i]) = links
      OBVIOUS
    <2>2. Crossed(links, hop[i]) \in SUBSET links
      BY DEF Crossed
    <2>3. QED
      BY <2>2, FS_Subset, FS_CardinalityType
  <1> HIDE DEF n
  <1> DEFINE Far(i) == Closed(links, hop[i]) \/ Cross(i, hop) >= i
             T == {i \in 0..n : from \subseteq hop[i] /\ Far(i)}
  <1>5. 0 \in T
    <2>1. Cross(0, hop) >= 0
      BY <1>4
    <2>2. QED
      BY <1>1, <1>3, <2>1
  <1>6. ASSUME NEW i \in 0..n, i \in T, i < n PROVE i + 1 \in T
    <2>1. /\ hop[i + 1] = Nearby(links, hop[i]) /\ from \subseteq hop[i] /\ Far(i)
          /\ i + 1 \in 0..n /\ i \in Nat
      BY <1>1, <1>3, <1>6
    <2>2. from \subseteq hop[i + 1]
      BY <2>1 DEF Nearby
    <2>3. CASE Closed(links, hop[i])
      <3>1. hop[i + 1] = hop[i]
        BY <2>1, <2>3, ClosedStays
      <3>2. Closed(links, hop[i + 1])
        BY <2>3, <3>1
      <3>3. QED
        BY <2>1, <2>2, <3>2
    <2>4. CASE ~Closed(links, hop[i])
      <3>1. Cross(i, hop) >= i
        BY <2>1, <2>4
      <3>2. Cardinality(Crossed(links, Nearby(links, hop[i]))) >= Cross(i, hop) + 1
        BY <2>4, CrossesMore
      <3>3. Cross(i + 1, hop) >= Cross(i, hop) + 1
        BY <2>1, <3>2
      <3>4. Cross(i + 1, hop) \in Nat /\ Cross(i, hop) \in Nat
        BY <1>4
      <3> HIDE DEF Cross
      <3>5. Cross(i + 1, hop) >= i + 1
        BY <2>1, <3>1, <3>3, <3>4
      <3>6. QED
        BY <2>1, <2>2, <3>5
    <2>5. QED
      BY <2>3, <2>4
  <1> HIDE DEF T
  <1>7. 0..n \subseteq T
    BY <1>1, <1>5, <1>6, Climb
  <1>8. n \in T
    BY <1>1, <1>7
  <1>9. from \subseteq hop[n] /\ Far(n)
    BY <1>8 DEF T
  <1>10. CASE Closed(links, hop[n])
    BY <1>3, <1>9, <1>10
  <1>11. CASE Cross(n, hop) >= n
    <2>1. Cross(n, hop) \in Nat /\ Cross(n, hop) <= n /\ (Cross(n, hop) = n => Crossed(links, hop[n]) = links)
      BY <1>4
    <2> HIDE DEF Cross
    <2>2. Cross(n, hop) = n
      BY <1>1, <1>11, <2>1
    <2>3. Crossed(links, hop[n]) = links
      BY <2>1, <2>2
    <2>4. Closed(links, hop[n])
      BY <2>3 DEF Crossed, Closed
    <2>5. QED
      BY <1>3, <1>9, <2>4
  <1>12. QED
    BY <1>9, <1>10, <1>11

-----------------------------------------------------------------------------
(* What validate_graph reports after a full run, in which the graph of the  *)
(* files alone stands for what they are guilty of by themselves.            *)

\* The statements of the schemas of a file, one by one.
LEMMA SchemaStatements ==
  ASSUME NEW f, IsDomainFile(f), NEW p, p = Flat(f.schemas, SchemaProgram)
  PROVE  \A x \in ToSet(p) : \E s \in ToSet(f.schemas) :
            x = SchemaNode(s) \/ \E v \in ToSet(s.values) : x = ValueNode(v) \/ x = ValueEdge(s, v)
  <1> DEFINE ss == [i \in DOMAIN f.schemas |-> SchemaProgram(f.schemas[i])]
  <1>1. p = FlattenSeq(ss)
    BY DEF Flat
  <1>2. IsList(f.schemas) /\ \A s \in ToSet(f.schemas) : IsList(s.values)
    BY DEF IsDomainFile
  <1>3. /\ IsList(ss) /\ Len(ss) = Len(f.schemas)
        /\ \A i \in 1..Len(ss) : ss[i] = SchemaProgram(f.schemas[i]) /\ f.schemas[i] \in ToSet(f.schemas)
    BY <1>2, ListImage, ListParts
  <1> HIDE DEF ss
  <1>4. \A i \in 1..Len(ss) : IsList(ss[i])
    BY <1>2, <1>3, SchemaParts
  <1>5. ToSet(p) = UNION {ToSet(ss[i]) : i \in 1..Len(ss)}
    BY <1>1, <1>3, <1>4, FlattenedSet
  <1>6. SUFFICES ASSUME NEW x \in ToSet(p)
                 PROVE  \E s \in ToSet(f.schemas) :
                           x = SchemaNode(s) \/ \E v \in ToSet(s.values) : x = ValueNode(v) \/ x = ValueEdge(s, v)
    OBVIOUS
  <1>7. PICK i \in 1..Len(ss) : x \in ToSet(ss[i])
    BY <1>5, <1>6
  <1> DEFINE s == f.schemas[i]
             vs == SchemaValues(s)
  <1>8. s \in ToSet(f.schemas) /\ IsList(s.values) /\ ss[i] = SchemaProgram(s)
    BY <1>2, <1>3
  <1> HIDE DEF s
  <1>9. IsCons(SchemaProgram(s), SchemaNode(s), FlattenSeq(vs))
    BY SchemaProgramIs DEF IsCons
  <1>10. /\ IsList(vs) /\ Len(vs) = Len(s.values)
         /\ \A j \in 1..Len(vs) : /\ s.values[j] \in ToSet(s.values)
                                  /\ IsList(vs[j])
                                  /\ ToSet(vs[j]) = {ValueNode(s.values[j]), ValueEdge(s, s.values[j])}
    <2>1. IsList(vs) /\ Len(vs) = Len(s.values)
      BY <1>8, ListImage DEF SchemaValues
    <2>2. ASSUME NEW j \in 1..Len(vs)
          PROVE  /\ s.values[j] \in ToSet(s.values) /\ IsList(vs[j])
                 /\ ToSet(vs[j]) = {ValueNode(s.values[j]), ValueEdge(s, s.values[j])}
      <3> DEFINE a == ValueNode(s.values[j])
                 b == ValueEdge(s, s.values[j])
      <3>1. vs[j] = <<a, b>> /\ s.values[j] \in ToSet(s.values)
        BY <1>8, <2>1, <2>2, ListParts DEF SchemaValues
      <3> HIDE DEF a, b, vs
      <3>2. IsList(vs[j]) /\ ToSet(vs[j]) = {a, b}
        BY <3>1, PairList
      <3>3. QED
        BY <3>1, <3>2 DEF a, b
    <2>3. QED
      BY <2>1, <2>2
  <1> HIDE DEF vs
  <1>11. IsList(FlattenSeq(vs)) /\ ToSet(FlattenSeq(vs)) = UNION {ToSet(vs[j]) : j \in 1..Len(vs)}
    BY <1>10, FlattenedSet
  <1>12. ToSet(SchemaProgram(s)) = {SchemaNode(s)} \cup ToSet(FlattenSeq(vs))
    BY <1>9, <1>11, PrefixedList
  <1>13. CASE x = SchemaNode(s)
    BY <1>8, <1>13
  <1>14. CASE x \in ToSet(FlattenSeq(vs))
    <2>1. PICK j \in 1..Len(vs) : x \in ToSet(vs[j])
      BY <1>11, <1>14
    <2>2. x = ValueNode(s.values[j]) \/ x = ValueEdge(s, s.values[j])
      BY <1>10, <2>1
    <2>3. s.values[j] \in ToSet(s.values)
      BY <1>10
    <2>4. QED
      BY <1>8, <2>2, <2>3
  <1>15. QED
    BY <1>7, <1>8, <1>12, <1>13, <1>14

\* Every concept of a file belongs to the file's domain, and so has an edge.
LEMMA ConceptBelongs ==
  ASSUME NEW f, IsDomainFile(f), NEW c, NEW n \in DeclaredNodes(f), n.key = Concept(c)
  PROVE  \E s \in DeclaredEdges(f) :
            s.key[2] = Concept(c) /\ EndsOf(s) \subseteq KeysOf(DeclaredNodes(f))
  <1> DEFINE S == Flat(f.schemas, SchemaProgram)
             C == Each(f.concepts, ConceptNode)
             B == BelongsTo(f)
  <1>1. /\ DeclaredNodes(f) = {s \in ToSet(S) : s.op = "node"} \cup {DomainNode(f)} \cup ToSet(C)
        /\ \A s \in ToSet(B) : s \in DeclaredEdges(f)
    <2>1. /\ IsList(B) /\ IsList(TypedEdges(f)) /\ IsList(ContainsEdges(f))
          /\ IsList(SchemaEdges(f)) /\ IsList(ValueReferences(f))
      BY EdgesOfFile DEF EdgeList
    <2> HIDE DEF B
    <2>2. ToSet(B) \subseteq ToSet(B \o TypedEdges(f) \o ContainsEdges(f) \o SchemaEdges(f)
                                     \o ValueReferences(f))
      BY <2>1, JoinedList
    <2>3. QED
      BY <2>2 DEF DeclaredNodes, DeclaredEdges, B
  <1>2. /\ \A s : SchemaNode(s).key[1] = "PropertySchema"
        /\ \A v : ValueNode(v).key[1] = "PropertyValue"
        /\ \A s, v : ValueEdge(s, v).op = "edge"
        /\ DomainNode(f).key = Domain(f) /\ Domain(f)[1] = "Domain"
        /\ Concept(c)[1] = "Concept"
    BY DEF SchemaNode, ValueNode, ValueEdge, Node, Edge, DomainNode, Schema, Value, Domain, Concept
  <1>3. n \in ToSet(C)
    <2>1. ASSUME n \in ToSet(S), n.op = "node" PROVE FALSE
      <3>1. PICK s \in ToSet(f.schemas) :
               n = SchemaNode(s) \/ \E v \in ToSet(s.values) : n = ValueNode(v) \/ n = ValueEdge(s, v)
        BY <2>1, SchemaStatements
      <3>2. n.key[1] \in {"PropertySchema", "PropertyValue"}
        BY <1>2, <2>1, <3>1
      <3>3. QED
        BY <1>2, <3>2
    <2>2. n # DomainNode(f)
      BY <1>2
    <2>3. QED
      BY <1>1, <2>1, <2>2
  <1>4. IsList(f.concepts) /\ C = [i \in DOMAIN f.concepts |-> ConceptNode(f.concepts[i])]
    BY DEF IsDomainFile, Each
  <1>5. PICK i \in DOMAIN f.concepts : n = ConceptNode(f.concepts[i])
    BY <1>3, <1>4 DEF ToSet
  <1> DEFINE e == Edge("BELONGS_TO", Concept(f.concepts[i].id), Domain(f), Unordered)
  <1>6. Concept(f.concepts[i].id) = Concept(c)
    BY <1>5 DEF ConceptNode, Node
  <1>7. e \in ToSet(B)
    BY <1>5 DEF BelongsTo, Each, ToSet
  <1>8. e.key[2] = Concept(c) /\ e.key[3] = Domain(f)
    BY <1>6 DEF Edge
  <1>9. Concept(c) \in KeysOf(DeclaredNodes(f)) /\ Domain(f) \in KeysOf(DeclaredNodes(f))
    <2>1. DomainNode(f) \in DeclaredNodes(f)
      BY <1>1
    <2>2. QED
      BY <1>2, <2>1 DEF KeysOf
  <1> HIDE DEF e
  <1>10. EndsOf(e) \subseteq KeysOf(DeclaredNodes(f))
    BY <1>8, <1>9 DEF EndsOf
  <1>11. QED
    BY <1>1, <1>7, <1>8, <1>10

\* The values of a schema come with it.
LEMMA SchemaHasValues ==
  ASSUME NEW f, IsDomainFile(f), NEW x, NEW s \in DeclaredEdges(f), s.key[2] = Schema(x)
  PROVE  EndsOf(s) \subseteq KeysOf(DeclaredNodes(f))
  <1> DEFINE S == Flat(f.schemas, SchemaProgram)
             B == BelongsTo(f)
             T == TypedEdges(f)
             N == ContainsEdges(f)
             H == SchemaEdges(f)
             V == ValueReferences(f)
  <1>1. /\ {n \in ToSet(S) : n.op = "node"} \subseteq DeclaredNodes(f)
        /\ DeclaredEdges(f) = {n \in ToSet(S) : n.op = "edge"} \cup ToSet(B \o T \o N \o H \o V)
    BY DEF DeclaredNodes, DeclaredEdges
  <1>2. EdgeList(B) /\ EdgeList(T) /\ EdgeList(N) /\ EdgeList(H) /\ EdgeList(V)
    BY EdgesOfFile
  <1>3. Schema(x)[1] = "PropertySchema"
    BY DEF Schema
  <1> HIDE DEF B, T, N, H, V
  <1>4. \A n \in ToSet(B \o T \o N \o H \o V) : n.key[2][1] # "PropertySchema"
    <2>1. IsList(B) /\ IsList(T) /\ IsList(N) /\ IsList(H) /\ IsList(V)
      BY <1>2 DEF EdgeList
    <2>2. IsList(B \o T) /\ ToSet(B \o T) = ToSet(B) \cup ToSet(T)
      BY <2>1, JoinedList
    <2>3. IsList(B \o T \o N) /\ ToSet(B \o T \o N) = ToSet(B \o T) \cup ToSet(N)
      BY <2>1, <2>2, JoinedList
    <2>4. IsList(B \o T \o N \o H) /\ ToSet(B \o T \o N \o H) = ToSet(B \o T \o N) \cup ToSet(H)
      BY <2>1, <2>3, JoinedList
    <2>5. ToSet(B \o T \o N \o H \o V) = ToSet(B \o T \o N \o H) \cup ToSet(V)
      BY <2>1, <2>4, JoinedList
    <2>6. \A n \in ToSet(B \o T \o N \o H \o V) : Outgoing(n)
      BY <1>2, <2>2, <2>3, <2>4, <2>5 DEF EdgeList
    <2>7. QED
      BY <2>6 DEF Outgoing
  <1>5. s \in ToSet(S) /\ s.op = "edge"
    BY <1>1, <1>3, <1>4
  <1>6. PICK z \in ToSet(f.schemas) :
           s = SchemaNode(z) \/ \E v \in ToSet(z.values) : s = ValueNode(v) \/ s = ValueEdge(z, v)
    BY <1>5, SchemaStatements
  <1>7. \A v : ValueNode(v).op = "node" /\ SchemaNode(z).op = "node"
    BY DEF ValueNode, SchemaNode, Node
  <1>8. PICK v \in ToSet(z.values) : s = ValueEdge(z, v)
    BY <1>5, <1>6, <1>7
  <1>9. EndsOf(s) = {Schema(z.id), Value(v.id)}
    BY <1>8 DEF EndsOf, ValueEdge, Edge
  <1>10. Schema(z.id) \in NodeKeys(S) /\ Value(v.id) \in NodeKeys(S)
    BY SchemasOfFile
  <1>11. NodeKeys(S) \subseteq KeysOf(DeclaredNodes(f))
    BY <1>1 DEF NodeKeys, KeysOf
  <1>12. QED
    BY <1>9, <1>10, <1>11

LEMMA OwnEndsFirst ==
  ASSUME NEW e \in DOMAIN Editions, NEW f \in ToSet(Editions[e].files), NEW s \in DeclaredEdges(f),
         EndsOf(s) \subseteq KeysOf(DeclaredNodes(f))
  PROVE  s.key \in KeysOf(Declared[e].backward)
  <1> DEFINE fs == Editions[e].files
  <1>1. IsList(fs)
    BY EditionsAre DEF IsEdition
  <1>2. PICK i \in 1..Len(fs) : fs[i] = f
    BY <1>1, ListParts
  <1>3. i \in DOMAIN fs /\ i \in 1..i
    BY <1>1, <1>2, ListParts
  <1>4. DeclaredNodes(f) \subseteq UNION {DeclaredNodes(fs[j]) : j \in 1..i}
    BY <1>2, <1>3
  <1>5. {s.key[2], s.key[3]} \subseteq {n.key : n \in UNION {DeclaredNodes(fs[j]) : j \in 1..i}}
    BY <1>4 DEF EndsOf, KeysOf
  <1>6. s \in BackwardEdges(fs)
    BY <1>2, <1>3, <1>5 DEF BackwardEdges
  <1>7. QED
    BY <1>6 DEF Declared, KeysOf

\* The graph of the files alone has what they declare, as they say.
LEMMA AloneIs ==
  ASSUME NEW e \in DOMAIN Editions, FilesAgree(e), EndsDeclared(e)
  PROVE  /\ DOMAIN Alone(e).nodes = KeysOf(Declared[e].nodes)
         /\ DOMAIN Alone(e).edges = KeysOf(Declared[e].edges)
         /\ \A s \in Declared[e].nodes : Alone(e).nodes[s.key] = s.props
         /\ \A s \in Declared[e].edges : Alone(e).edges[s.key] = s.props
  <1> DEFINE nodes == Declared[e].nodes
             edges == Declared[e].edges
             As(ss) == [k \in KeysOf(ss) |-> (CHOOSE s \in ss : s.key = k).props]
  <1>0. Alone(e) = [nodes |-> As(nodes), edges |-> As({s \in edges : EndsOf(s) \subseteq KeysOf(nodes)})]
    BY DEF Alone
  <1>1. {s \in edges : EndsOf(s) \subseteq KeysOf(nodes)} = edges
    BY DEF EndsDeclared
  <1> HIDE DEF nodes, edges
  <1>2. Alone(e).nodes = As(nodes) /\ Alone(e).edges = As(edges)
    BY <1>0, <1>1
  <1>3. ASSUME NEW ss, \A x, y \in ss : x.key = y.key => x.props = y.props, NEW s \in ss
        PROVE  s.key \in KeysOf(ss) /\ (CHOOSE x \in ss : x.key = s.key).props = s.props
    <2>1. (CHOOSE x \in ss : x.key = s.key) \in ss /\ (CHOOSE x \in ss : x.key = s.key).key = s.key
      BY <1>3
    <2>2. QED
      BY <1>3, <2>1 DEF KeysOf
  <1>4. ASSUME NEW ss, \A x, y \in ss : x.key = y.key => x.props = y.props, NEW s \in ss
        PROVE  As(ss)[s.key] = s.props
    BY <1>3, <1>4
  <1>5. \A s \in nodes : As(nodes)[s.key] = s.props
    BY <1>4 DEF FilesAgree, nodes
  <1>6. \A s \in edges : As(edges)[s.key] = s.props
    BY <1>4 DEF FilesAgree, edges
  <1>7. DOMAIN As(nodes) = KeysOf(nodes) /\ DOMAIN As(edges) = KeysOf(edges)
    OBVIOUS
  <1> HIDE DEF As
  <1>8. QED
    BY <1>2, <1>5, <1>6, <1>7 DEF nodes, edges

\* The key of a node is its label and its id.
LEMMA NodeKeyIs ==
  ASSUME NEW f, IsDomainFile(f), NEW n \in DeclaredNodes(f)
  PROVE  n.key = <<n.key[1], n.key[2]>>
  <1> DEFINE S == Flat(f.schemas, SchemaProgram)
             C == Each(f.concepts, ConceptNode)
  <1>1. DeclaredNodes(f) = {s \in ToSet(S) : s.op = "node"} \cup {DomainNode(f)} \cup ToSet(C)
    BY DEF DeclaredNodes
  <1>2. CASE n \in ToSet(S) /\ n.op = "node"
    <2>1. PICK s \in ToSet(f.schemas) :
             n = SchemaNode(s) \/ \E v \in ToSet(s.values) : n = ValueNode(v) \/ n = ValueEdge(s, v)
      BY <1>2, SchemaStatements
    <2>2. \A v : ValueEdge(s, v).op = "edge"
      BY DEF ValueEdge, Edge
    <2>3. \A v : SchemaNode(s).key = Schema(s.id) /\ ValueNode(v).key = Value(v.id)
      BY DEF SchemaNode, ValueNode, Node
    <2>4. n.key = Schema(s.id) \/ \E v : n.key = Value(v.id)
      BY <1>2, <2>1, <2>2, <2>3
    <2>5. QED
      BY <2>4 DEF Schema, Value
  <1>3. CASE n = DomainNode(f)
    BY <1>3 DEF DomainNode, Node, Domain
  <1>4. CASE n \in ToSet(C)
    <2>1. \E c : n = ConceptNode(c)
      BY <1>4 DEF Each, ToSet
    <2>2. QED
      BY <2>1 DEF ConceptNode, Node, Concept
  <1>5. QED
    BY <1>1, <1>2, <1>3, <1>4

\* What is left over in a graph.
Left(e, g) == {n[2] : n \in (DOMAIN g.nodes \ KeysOf(Declared[e].nodes))
                            \cup {k[2] : k \in DOMAIN g.edges \ KeysOf(Declared[e].edges)}}

\* A graph that a full run has left.
After(e, g) == Brought(e, g) /\ AsDeclared(e, g) /\ IsFiniteSet(DOMAIN g.edges)

\* A node of the graph that is no leftover is one of the files, as they say.
LEMMA NodeKept ==
  ASSUME NEW e \in DOMAIN Editions, FilesAgree(e), EndsDeclared(e), NEW g, After(e, g),
         NEW n \in DOMAIN g.nodes, n[2] \notin Left(e, g)
  PROVE  \E s \in Declared[e].nodes : s.key = n /\ g.nodes[n] = s.props
            /\ n \in DOMAIN Alone(e).nodes /\ Alone(e).nodes[n] = s.props
  <1>1. n \in KeysOf(Declared[e].nodes)
    BY DEF Left
  <1>2. PICK s \in Declared[e].nodes : s.key = n
    BY <1>1 DEF KeysOf
  <1>3. g.nodes[n] = s.props
    BY <1>2 DEF After, AsDeclared
  <1>4. QED
    BY <1>1, <1>2, <1>3, AloneIs

\* Likewise an edge whose source is no leftover.
LEMMA EdgeKept ==
  ASSUME NEW e \in DOMAIN Editions, FilesAgree(e), EndsDeclared(e), NEW g, After(e, g),
         NEW k \in DOMAIN g.edges, k[2][2] \notin Left(e, g)
  PROVE  k \in DOMAIN Alone(e).edges /\ Alone(e).edges[k] = g.edges[k]
  <1>1. k \in KeysOf(Declared[e].edges)
    BY DEF Left
  <1>2. PICK s \in Declared[e].edges : s.key = k
    BY <1>1 DEF KeysOf
  <1>3. g.edges[k] = s.props
    BY <1>2 DEF After, AsDeclared
  <1>4. QED
    BY <1>1, <1>2, <1>3, AloneIs

LEMMA IdKept ==
  ASSUME NEW e \in DOMAIN Editions, FilesAgree(e), EndsDeclared(e), NEW g, After(e, g),
         NEW label, NEW x \in Ids(g, label), x \notin Left(e, g)
  PROVE  /\ <<label, x>> \in KeysOf(Declared[e].nodes) /\ x \in Ids(Alone(e), label)
         /\ Alone(e).nodes[<<label, x>>] = g.nodes[<<label, x>>]
  <1>1. PICK n \in DOMAIN g.nodes : n[1] = label /\ n[2] = x
    BY DEF Ids
  <1>2. PICK s \in Declared[e].nodes : /\ s.key = n /\ g.nodes[n] = s.props
                                       /\ n \in DOMAIN Alone(e).nodes /\ Alone(e).nodes[n] = s.props
    BY <1>1, NodeKept
  <1>3. PICK f \in ToSet(Editions[e].files) : s \in DeclaredNodes(f)
    BY <1>2 DEF Declared
  <1>4. IsDomainFile(f)
    BY <1>3, EditionsAre DEF IsEdition
  <1>5. n = <<label, x>>
    BY <1>1, <1>2, <1>3, <1>4, NodeKeyIs
  <1>6. n \in KeysOf(Declared[e].nodes)
    BY <1>2 DEF KeysOf
  <1>7. x \in Ids(Alone(e), label)
    BY <1>1, <1>2 DEF Ids
  <1>8. QED
    BY <1>2, <1>5, <1>6, <1>7

LEMMA NoneIsolated ==
  ASSUME NEW e \in DOMAIN Editions, FilesAgree(e), EndsDeclared(e), NEW g, After(e, g)
  PROVE  Isolated(g) \subseteq Left(e, g)
  <1> SUFFICES ASSUME NEW c \in Isolated(g), c \notin Left(e, g) PROVE FALSE
    OBVIOUS
  <1>1. c \in Ids(g, "Concept") /\ \A k \in DOMAIN g.edges : k[2] # Concept(c)
    BY DEF Isolated, Concepts
  <1>2. Concept(c) \in KeysOf(Declared[e].nodes)
    BY <1>1, IdKept DEF Concept
  <1>3. PICK n \in Declared[e].nodes : n.key = Concept(c)
    BY <1>2 DEF KeysOf
  <1>4. PICK f \in ToSet(Editions[e].files) : n \in DeclaredNodes(f)
    BY <1>3 DEF Declared
  <1>5. IsDomainFile(f)
    BY <1>4, EditionsAre DEF IsEdition
  <1>6. PICK s \in DeclaredEdges(f) : s.key[2] = Concept(c) /\ EndsOf(s) \subseteq KeysOf(DeclaredNodes(f))
    BY <1>3, <1>4, <1>5, ConceptBelongs
  <1>7. s.key \in DOMAIN g.edges
    BY <1>4, <1>6, OwnEndsFirst DEF After, Brought
  <1>8. QED
    BY <1>1, <1>6, <1>7

LEMMA AloneIsLess ==
  ASSUME NEW e \in DOMAIN Editions, FilesAgree(e), EndsDeclared(e), NEW g, After(e, g), NEW label
  PROVE  Ids(Alone(e), label) \subseteq Ids(g, label)
  BY AloneIs DEF Ids, After, Brought

LEMMA DanglingKept ==
  ASSUME NEW e \in DOMAIN Editions, FilesAgree(e), EndsDeclared(e), NEW g, After(e, g),
         NEW v \in DanglingReferences(g), v \notin Left(e, g)
  PROVE  v \in DanglingReferences(Alone(e))
  <1> DEFINE r == g.nodes[<<"PropertyValue", v>>].references
  <1>1. v \in Ids(g, "PropertyValue") /\ r \notin Concepts(g) \cup {"none"}
    BY DEF DanglingReferences
  <1>2. v \in Ids(Alone(e), "PropertyValue") /\ Alone(e).nodes[<<"PropertyValue", v>>].references = r
    BY <1>1, IdKept
  <1>3. Concepts(Alone(e)) \subseteq Concepts(g)
    BY AloneIsLess DEF Concepts
  <1>4. QED
    BY <1>1, <1>2, <1>3 DEF DanglingReferences

LEMMA ValuelessKept ==
  ASSUME NEW e \in DOMAIN Editions, FilesAgree(e), EndsDeclared(e), NEW g, After(e, g),
         NEW x \in SchemasWithoutValues(g), x \notin Left(e, g)
  PROVE  x \in SchemasWithoutValues(Alone(e))
  <1> DEFINE n == <<"PropertySchema", x>>
  <1>1. /\ x \in Ids(g, "PropertySchema") /\ g.nodes[n].cardinality # "BOOL"
        /\ \A k \in Edges(g, "HAS_VALUE") : k[2] # n
    BY DEF SchemasWithoutValues
  <1>2. x \in Ids(Alone(e), "PropertySchema") /\ Alone(e).nodes[n].cardinality # "BOOL"
    BY <1>1, IdKept
  <1>3. ASSUME NEW k \in Edges(Alone(e), "HAS_VALUE"), k[2] = n PROVE FALSE
    <2>1. k \in KeysOf(Declared[e].edges) /\ k[1] = "HAS_VALUE"
      BY <1>3, AloneIs DEF Edges
    <2>2. PICK s \in Declared[e].edges : s.key = k
      BY <2>1 DEF KeysOf
    <2>3. PICK f \in ToSet(Editions[e].files) : s \in DeclaredEdges(f)
      BY <2>2 DEF Declared
    <2>4. IsDomainFile(f)
      BY <2>3, EditionsAre DEF IsEdition
    <2>5. EndsOf(s) \subseteq KeysOf(DeclaredNodes(f))
      BY <1>3, <2>2, <2>3, <2>4, SchemaHasValues DEF Schema
    <2>6. k \in DOMAIN g.edges
      BY <2>2, <2>3, <2>5, OwnEndsFirst DEF After, Brought
    <2>7. QED
      BY <1>1, <1>3, <2>1, <2>6 DEF Edges
  <1>4. QED
    BY <1>2, <1>3 DEF SchemasWithoutValues

LEMMA DuplicatesKept ==
  ASSUME NEW e \in DOMAIN Editions, FilesAgree(e), EndsDeclared(e), NEW g, After(e, g),
         NEW c \in DuplicateOrders(g), c \notin Left(e, g)
  PROVE  c \in DuplicateOrders(Alone(e))
  <1>1. c \in Ids(g, "Concept")
    BY DEF DuplicateOrders, Concepts
  <1>2. PICK x \in Edges(g, "CONTAINS"), y \in Edges(g, "CONTAINS") :
           x # y /\ x[2] = Concept(c) /\ y[2] = x[2] /\ g.edges[x] = g.edges[y]
    BY DEF DuplicateOrders
  <1>3. x[2][2] = c /\ y[2][2] = c
    BY <1>2 DEF Concept
  <1>4. /\ x \in DOMAIN Alone(e).edges /\ Alone(e).edges[x] = g.edges[x]
        /\ y \in DOMAIN Alone(e).edges /\ Alone(e).edges[y] = g.edges[y]
    BY <1>2, <1>3, EdgeKept DEF Edges
  <1>5. c \in Concepts(Alone(e))
    BY <1>1, IdKept DEF Concepts
  <1>6. x \in Edges(Alone(e), "CONTAINS") /\ y \in Edges(Alone(e), "CONTAINS")
    BY <1>2, <1>4 DEF Edges
  <1>7. Alone(e).edges[x] = Alone(e).edges[y]
    BY <1>2, <1>4
  <1>8. QED
    BY <1>2, <1>5, <1>6, <1>7 DEF DuplicateOrders

LEMMA LinksFinite ==
  ASSUME NEW g, IsFiniteSet(DOMAIN g.edges), NEW type
  PROVE  IsFiniteSet(Links(g, type))
  <1> DEFINE E == Edges(g, type)
             f == [k \in E |-> <<k[2][2], k[3][2]>>]
  <1>1. E \in SUBSET DOMAIN g.edges
    BY DEF Edges
  <1> HIDE DEF E
  <1>2. IsFiniteSet(E)
    BY <1>1, FS_Subset
  <1>3. f \in [E -> {f[k] : k \in E}]
    OBVIOUS
  <1>4. {f[k] : k \in E} = Links(g, type)
    BY DEF Links, E
  <1> HIDE DEF f
  <1>5. QED
    BY <1>2, <1>3, <1>4, FiniteImage

LEMMA AloneFinite ==
  ASSUME NEW e \in DOMAIN Editions, FilesAgree(e), EndsDeclared(e)
  PROVE  IsFiniteSet(DOMAIN Alone(e).edges)
  <1> DEFINE p == Programs[e][AllDomains]
             f == [i \in 1..Len(p) |-> p[i].key]
  <1>1. IsList(p)
    BY EditionsAre, RunProgram
  <1>2. Len(p) \in Nat /\ \A s \in ToSet(p) : \E i \in 1..Len(p) : p[i] = s
    BY <1>1, ListParts
  <1>3. Declared[e].edges \subseteq ToSet(p)
    BY FullProgram
  <1> HIDE DEF p
  <1>4. KeysOf(Declared[e].edges) \subseteq {f[i] : i \in 1..Len(p)}
    BY <1>2, <1>3 DEF KeysOf
  <1>5. IsFiniteSet(1..Len(p))
    BY <1>2, FS_Interval
  <1>6. f \in [1..Len(p) -> {f[i] : i \in 1..Len(p)}]
    OBVIOUS
  <1> HIDE DEF f
  <1>7. IsFiniteSet({f[i] : i \in 1..Len(p)})
    BY <1>5, <1>6, FiniteImage
  <1>8. IsFiniteSet(KeysOf(Declared[e].edges))
    BY <1>4, <1>7, FS_Subset
  <1>9. QED
    BY <1>8, AloneIs

\* A cycle of prerequisites is one of the files, or goes through a leftover.
LEMMA CyclesKept ==
  ASSUME NEW e \in DOMAIN Editions, FilesAgree(e), EndsDeclared(e), NEW g, After(e, g),
         NEW c \in PrerequisiteCycles(g), c \notin Left(e, g)
  PROVE  c \in PrerequisiteCycles(Alone(e)) \/ c \in InCycleWith(g, Left(e, g))
  <1> DEFINE type == "PREREQUISITE_FOR"
             L == Links(g, type)
             A == Links(Alone(e), type)
             before == Targets(Alone(e), type, c)
             mine == Reach(L, {c})
             alone == Reach(A, before)
             S == {y \in mine : y \in alone \/ \E x \in Left(e, g) : x \in mine /\ y \in Reach(L, {x})}
  <1>1. c \in Ids(g, "Concept") /\ c \in Reach(L, Targets(g, type, c))
    BY DEF PrerequisiteCycles, Concepts
  <1>2. IsFiniteSet(L) /\ IsFiniteSet(A)
    BY AloneFinite, LinksFinite DEF After
  <1>3. ASSUME NEW q \in L, q[1] \notin Left(e, g) PROVE q \in A
    <2>1. PICK k \in Edges(g, type) : q = <<k[2][2], k[3][2]>>
      BY <1>3 DEF Links
    <2>2. k \in DOMAIN g.edges /\ k[1] = type /\ k[2][2] = q[1]
      BY <2>1 DEF Edges
    <2>3. k \in DOMAIN Alone(e).edges
      BY <1>3, <2>2, EdgeKept
    <2>4. k \in Edges(Alone(e), type)
      BY <2>2, <2>3 DEF Edges
    <2>5. QED
      BY <2>1, <2>4 DEF Links
  <1>4. Targets(g, type, c) = {q[2] : q \in {p \in L : p[1] = c}} /\ before = {q[2] : q \in {p \in A : p[1] = c}}
    BY DEF Targets
  <1> HIDE DEF L, A, before
  <1>5. {c} \subseteq mine /\ Closed(L, mine) /\ before \subseteq alone /\ Closed(A, alone)
    BY <1>2, ReachClosed
  <1>6. \A x : {x} \subseteq Reach(L, {x}) /\ Closed(L, Reach(L, {x}))
    BY <1>2, ReachClosed
  <1> HIDE DEF mine, alone
  <1>7. Targets(g, type, c) \subseteq S
    <2>1. ASSUME NEW q \in L, q[1] = c PROVE q[2] \in S
      <3>1. q[2] \in mine
        BY <1>5, <2>1 DEF Closed
      <3>2. q \in A
        BY <1>3, <2>1
      <3>3. q[2] \in alone
        BY <1>4, <1>5, <2>1, <3>2
      <3>4. QED
        BY <3>1, <3>3
    <2>2. QED
      BY <1>4, <2>1
  <1>8. Closed(L, S)
    <2>1. ASSUME NEW q \in L, q[1] \in S PROVE q[2] \in S
      <3>1. q[1] \in mine /\ q[2] \in mine
        BY <1>5, <2>1 DEF Closed
      <3>2. CASE q[1] \in Left(e, g)
        <4>1. q[2] \in Reach(L, {q[1]})
          BY <1>6, <2>1 DEF Closed
        <4>2. QED
          BY <3>1, <3>2, <4>1
      <3>3. CASE q[1] \notin Left(e, g) /\ q[1] \in alone
        <4>1. q \in A
          BY <1>3, <2>1, <3>3
        <4>2. q[2] \in alone
          BY <1>5, <3>3, <4>1 DEF Closed
        <4>3. QED
          BY <3>1, <4>2
      <3>4. CASE q[1] \notin alone
        <4>1. PICK x \in Left(e, g) : x \in mine /\ q[1] \in Reach(L, {x})
          BY <2>1, <3>4
        <4>2. q[2] \in Reach(L, {x})
          BY <1>6, <2>1, <4>1 DEF Closed
        <4>3. QED
          BY <3>1, <4>1, <4>2
      <3>5. QED
        BY <3>2, <3>3, <3>4
    <2>2. QED
      BY <2>1 DEF Closed
  <1> HIDE DEF S
  <1>9. c \in S
    BY <1>1, <1>2, <1>7, <1>8, ReachLeast
  <1>10. CASE c \in alone
    <2>1. c \in Concepts(Alone(e))
      BY <1>1, IdKept DEF Concepts
    <2>2. QED
      BY <1>10, <2>1 DEF PrerequisiteCycles, alone, A, before
  <1>11. CASE c \notin alone
    <2>1. PICK x \in Left(e, g) : x \in mine /\ c \in Reach(L, {x})
      BY <1>9, <1>11 DEF S
    <2>2. c \in Concepts(g)
      BY <1>1 DEF Concepts
    <2>3. QED
      BY <2>1, <2>2 DEF InCycleWith, mine, L
  <1>12. QED
    BY <1>10, <1>11

LEMMA AfterReports ==
  ASSUME NEW e \in DOMAIN Editions, FilesAgree(e), EndsDeclared(e), NEW g, After(e, g)
  PROVE  Reports(g) \subseteq Reports(Alone(e)) \cup Left(e, g) \cup InCycleWith(g, Left(e, g))
  BY NoneIsolated, DanglingKept, ValuelessKept, DuplicatesKept, CyclesKept DEF Reports

\* A statement brings at most one edge.
LEMMA AppliedFinite ==
  ASSUME NEW g, IsGraph(g), NEW s, s.op \in Kinds, IsFiniteSet(DOMAIN g.edges)
  PROVE  IsFiniteSet(DOMAIN Applied(g, s).edges)
  <1>1. DOMAIN Applied(g, s).edges \in {DOMAIN g.edges, DOMAIN g.edges \cup {s.key}}
    BY NodeApplied, EdgeApplied, CommitApplied DEF IsPut, Kinds
  <1>2. IsFiniteSet(DOMAIN g.edges \cup {s.key})
    BY FS_AddElement
  <1>3. QED
    BY <1>1, <1>2

LEMMA LeavesFinite ==
  ASSUME NEW p, IsList(p), \A x \in ToSet(p) : x.op \in Kinds, NEW f, Leaves(f, p, Len(p))
  PROVE  IsFiniteSet(DOMAIN f[Len(p)].graph.edges)
  <1> DEFINE T == {m \in 0..Len(p) : IsFiniteSet(DOMAIN f[m].graph.edges)}
  <1>1. Len(p) \in Nat
    BY ListParts
  <1>2. \A m \in 0..Len(p) :
          f[m] = IF m = 0 THEN Nothing
                 ELSE [graph |-> Applied(f[m - 1].graph, p[m]), rows |-> Over(p[m].rows, f[m - 1].rows)]
    BY DEF Leaves
  <1>3. 0 \in T
    <2>1. 0 \in 0..Len(p)
      BY <1>1
    <2>2. f[0] = IF 0 = 0 THEN Nothing
                 ELSE [graph |-> Applied(f[0 - 1].graph, p[0]), rows |-> Over(p[0].rows, f[0 - 1].rows)]
      BY <1>2, <2>1
    <2>3. f[0].graph = EmptyGraph
      BY <2>2 DEF Nothing
    <2>4. DOMAIN EmptyGraph.edges = {}
      BY DEF EmptyGraph
    <2>5. QED
      BY <2>1, <2>3, <2>4, FS_EmptySet
  <1>4. ASSUME NEW m \in 0..Len(p), m \in T, m < Len(p) PROVE m + 1 \in T
    <2>1. m + 1 \in 1..Len(p) /\ m + 1 \in 0..Len(p) /\ m + 1 # 0 /\ (m + 1) - 1 = m
      BY <1>1, <1>4
    <2>2. f[m + 1] = [graph |-> Applied(f[(m + 1) - 1].graph, p[m + 1]),
                      rows |-> Over(p[m + 1].rows, f[(m + 1) - 1].rows)]
      BY <1>2, <2>1
    <2>3. f[m + 1].graph = Applied(f[m].graph, p[m + 1])
      BY <2>1, <2>2
    <2>4. p[m + 1].op \in Kinds
      BY <2>1, ListParts
    <2>5. IsGraph(f[m].graph)
      BY LeavesSound
    <2>6. IsFiniteSet(DOMAIN f[m + 1].graph.edges)
      BY <1>4, <2>3, <2>4, <2>5, AppliedFinite
    <2>7. QED
      BY <2>1, <2>6
  <1> HIDE DEF T
  <1>5. 0..Len(p) \subseteq T
    BY <1>1, <1>3, <1>4, Climb
  <1>6. Len(p) \in T
    BY <1>1, <1>5
  <1>7. QED
    BY <1>6 DEF T

LEMMA SeededFinite ==
  IsFiniteSet(DOMAIN Seeded(1).graph.edges)
  <1> DEFINE p == Programs[1][AllDomains]
  <1>1. 1 \in DOMAIN Editions /\ AllDomains \in Runs
    BY EditionsAre
  <1>2. p = Program(Editions[1], AllDomains)
    BY <1>1 DEF Programs
  <1>3. IsList(p) /\ (\A x \in ToSet(p) : x.op \in Kinds)
    BY <1>1, RunProgram
  <1> HIDE DEF p
  <1>4. Len(p) \in Nat
    BY <1>3, ListParts
  <1>5. PICK f : Leaves(f, p, Len(p)) /\ Seeded(1) = f[Len(p)]
    BY <1>2, <1>4, SeededIs
  <1>6. QED
    BY <1>3, <1>5, LeavesFinite

\* The graph has finitely many edges, and is settled only after a full run.
ReportInv == IsFiniteSet(DOMAIN graph.edges) /\ (settled => done.times >= 1)

LEMMA ReportInit == Init => ReportInv
  <1> SUFFICES ASSUME Init PROVE ReportInv
    OBVIOUS
  <1>1. CASE graph = Nothing.graph /\ settled = FALSE
    <2>1. DOMAIN graph.edges = {}
      BY <1>1 DEF Nothing, EmptyGraph
    <2>2. QED
      BY <1>1, <2>1, FS_EmptySet DEF ReportInv
  <1>2. CASE graph = Seeded(1).graph /\ done = [edition |-> 1, times |-> 1]
    <2>1. done.times = 1
      BY <1>2
    <2>2. IsFiniteSet(DOMAIN graph.edges)
      BY <1>2, SeededFinite
    <2>3. QED
      BY <2>1, <2>2 DEF ReportInv
  <1>3. QED
    BY <1>1, <1>2 DEF Init

LEMMA ReportWrite ==
  ASSUME SeedInv, ReportInv, Write
  PROVE  ReportInv'
  <1>1. graph' = Applied(graph, Now[seeder.next]) /\ Now[seeder.next].op \in Kinds
    BY WriteIs
  <1>2. IsGraph(graph)
    BY DEF SeedInv, SeedType
  <1>3. IsFiniteSet(DOMAIN graph'.edges)
    BY <1>1, <1>2, AppliedFinite DEF ReportInv
  <1>4. settled' => done'.times >= 1
    <2>1. settled' = (Finishing /\ seeder.args = AllDomains)
      BY DEF Write
    <2>2. ASSUME settled' PROVE done'.times >= 1
      <3> DEFINE times == IF done.times > 0 /\ done.edition = seeder.edition THEN 2 ELSE 1
      <3>1. done' = [edition |-> seeder.edition, times |-> times]
        BY <2>1, <2>2 DEF Write
      <3>2. times >= 1
        OBVIOUS
      <3>3. done'.times = times
        BY <3>1
      <3>4. QED
        BY <3>2, <3>3
    <2>3. QED
      BY <2>2
  <1>5. QED
    BY <1>3, <1>4 DEF ReportInv

LEMMA ReportSteps == SeedInv /\ ReportInv /\ [Next]_vars => ReportInv'
  <1> SUFFICES ASSUME SeedInv, ReportInv, [Next]_vars PROVE ReportInv'
    OBVIOUS
  <1>1. CASE UNCHANGED <<graph, done, settled>>
    BY <1>1 DEF ReportInv
  <1>2. CASE Seed
    <2>1. CASE \E e \in DOMAIN Editions, a \in Runs : BeginRun(e, a)
      BY <1>1, <2>1 DEF BeginRun
    <2>2. CASE Answer
      BY <1>1, <2>2 DEF Answer
    <2>3. CASE Write
      BY <2>3, ReportWrite
    <2>4. CASE Fail \/ ClearIds \/ ClearTrees \/ ClearFails
      BY <1>1, <2>4 DEF Fail, ClearIds, ClearTrees, ClearFails
    <2>5. QED
      BY <1>2, <2>1, <2>2, <2>3, <2>4 DEF Seed
  <1>3. CASE UNCHANGED seeding
    BY <1>1, <1>3 DEF seeding
  <1>4. CASE UNCHANGED vars
    BY <1>1, <1>4 DEF vars
  <1>5. CASE \E r \in Readers : Request(r) \/ Proceed(r)
    BY <1>3, <1>5, StepsBeside
  <1>6. CASE \E k \in Keys : Expire(k)
    BY <1>3, <1>6 DEF Expire
  <1>7. QED
    BY <1>2, <1>4, <1>5, <1>6 DEF Next

\* What scripts/validate_graph.py reports after a full run of scripts/seed.py is
\* what the files are guilty of by themselves, or a concept that they declare no
\* more, or one that has or closes a cycle through an edge they no longer have.
THEOREM OnlyLeftoversReported ==
  ASSUME \A e \in DOMAIN Editions : FilesAgree(e) /\ EndsDeclared(e)
  PROVE  Spec => []ReportsAreLeftovers
  <1>1. ArriveInv /\ ReportInv => ReportsAreLeftovers
    <2> SUFFICES ASSUME ArriveInv, ReportInv, settled
                 PROVE  Reports(graph) \subseteq ReportsAlone[done.edition] \cup Leftovers(done.edition)
                            \cup InCycleWith(graph, Leftovers(done.edition))
      BY DEF ReportsAreLeftovers
    <2> DEFINE e == done.edition
    <2>1. e \in DOMAIN Editions /\ After(e, graph)
      BY DEF ArriveInv, ReportInv, After
    <2>2. FilesAgree(e) /\ EndsDeclared(e)
      BY <2>1
    <2>3. ReportsAlone[e] = Reports(Alone(e))
      BY <2>1 DEF ReportsAlone
    <2>4. Leftovers(e) = Left(e, graph)
      BY DEF Leftovers, Left
    <2> HIDE DEF e
    <2>5. Reports(graph) \subseteq Reports(Alone(e)) \cup Left(e, graph) \cup InCycleWith(graph, Left(e, graph))
      BY <2>1, <2>2, AfterReports
    <2>6. QED
      BY <2>3, <2>4, <2>5 DEF e
  <1>2. QED
    BY <1>1, Arriving, ReportInit, ReportSteps, Seeding, PTL DEF Spec
=============================================================================
