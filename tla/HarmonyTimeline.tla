--------------------------- MODULE HarmonyTimeline -------------------------
(***************************************************************************)
(* The harmony events of one movement (movement_analysis.events), what the *)
(* editing primitives of services/analysis.py make of the array and what   *)
(* the smart merge of services/tasks/ingest_analysis.py makes of it.       *)
(*                                                                         *)
(* An event is reduced to its place and to what the merge looks at.  The   *)
(* pair (mn, volta) that names a measure in print is one number, label; it *)
(* may occur twice in a movement, the document-order index mc may not.     *)
(***************************************************************************)
EXTENDS Integers, FiniteSets, Sequences

CONSTANTS
    Label,      \* printed label of each measure, by mc
    Beats,      \* beats of a measure
    Chords,     \* readings of a chord
    Tsvs        \* analyses on file: sequences of unreviewed events

\* Document-order indices, and the mc of an event that has none.
Mcs == DOMAIN Label
NoMc == 0

\* manual stands for source = "manual"; auto is FALSE throughout.
Event == [mc : Mcs \cup {NoMc}, label : Nat, beat : Beats, chord : Chords,
          manual : BOOLEAN, reviewed : BOOLEAN, orphaned : BOOLEAN]

ASSUME TimelineAssumption ==
    /\ Label \in Seq(Nat)
    /\ Beats \subseteq Nat
    /\ Tsvs \subseteq Seq(Event)

\* The elements of a finite set in the strict order Less.
Ranked(S, Less(_, _)) ==
    [k \in 1..Cardinality(S) |->
        CHOOSE x \in S : Cardinality({y \in S : Less(y, x)}) = k - 1]

\* A stable sort: list.sort(key=...).
Sorted(es, Less(_, _)) ==
    LET order == Ranked(DOMAIN es, LAMBDA i, j :
                    \/ Less(es[i], es[j])
                    \/ ~Less(es[j], es[i]) /\ i < j)
    IN  [k \in DOMAIN es |-> es[order[k]]]

\* analysis._event_sort_key
InPrint(a, b) ==
    \/ a.label < b.label
    \/ a.label = b.label /\ a.beat < b.beat

\* The _sort_key of _merge_events: by mc, events without one last.
InScore(a, b) ==
    \/ a.mc # NoMc /\ (b.mc = NoMc \/ a.mc < b.mc)
    \/ a.mc = b.mc /\ InPrint(a, b)

-----------------------------------------------------------------------------
(* The editing primitives, one pass over the array each.                   *)

\* A client names an event by label and beat; mc, if it sends one, must not
\* contradict the event's.
Matches(es, id) ==
    {i \in DOMAIN es : /\ es[i].label = id.label
                       /\ es[i].beat = id.beat
                       /\ id.mc = NoMc \/ es[i].mc = NoMc \/ es[i].mc = id.mc}

\* _find_event: the first match.
Found(es, id) == CHOOSE i \in Matches(es, id) : \A j \in Matches(es, id) : i <= j

\* _manual_provenance
ByHand(e) == [e EXCEPT !.manual = TRUE, !.reviewed = TRUE]

Inserted(es, id, chord) ==
    Sorted(Append(es, [mc |-> id.mc, label |-> id.label, beat |-> id.beat,
                       chord |-> chord, manual |-> TRUE, reviewed |-> TRUE,
                       orphaned |-> FALSE]),
           InPrint)

Deleted(es, id) ==
    LET at == Found(es, id)
    IN  SubSeq(es, 1, at - 1) \o SubSeq(es, at + 1, Len(es))

\* Fault: the target beat is taken for an offset.
MovedByOffset(es, id, beat) ==
    Sorted([es EXCEPT ![Found(es, id)] = [ByHand(@) EXCEPT !.beat = @ + beat]], InPrint)

Moved(es, id, beat) ==
    Sorted([es EXCEPT ![Found(es, id)] = [ByHand(@) EXCEPT !.beat = beat]], InPrint)

Respelled(es, id, chord) ==
    [es EXCEPT ![Found(es, id)] = [ByHand(@) EXCEPT !.chord = chord]]

\* confirm_event and, for a batch, confirm_events: what is not there is skipped.
Confirmed(es, ids) ==
    [i \in DOMAIN es |->
        IF \E id \in ids : Matches(es, id) # {} /\ Found(es, id) = i
        THEN [es[i] EXCEPT !.reviewed = TRUE]
        ELSE es[i]]

\* What an edit request does to the array it has read.
Edited(es, op) ==
    CASE op.kind = "insert"  -> Inserted(es, op.id, op.chord)
      [] op.kind = "delete"  -> Deleted(es, op.id)
      [] op.kind = "move"    -> Moved(es, op.id, op.beat)
      [] op.kind = "chord"   -> Respelled(es, op.id, op.chord)
      [] op.kind = "confirm" -> Confirmed(es, {op.id})
      [] op.kind = "batch"   -> Confirmed(es, op.ids)

\* Every edit but an insertion and a batch needs the event it names.
Feasible(es, op) == op.kind \notin {"insert", "batch"} => Matches(es, op.id) # {}

-----------------------------------------------------------------------------
(* _merge_events: what a new analysis makes of the array.                  *)

\* Events that a new analysis must leave alone.
Protected(e) == e.manual \/ e.reviewed

OfMeasure(es, mc) == {i \in DOMAIN es : es[i].mc = mc}

\* The measures of the new analysis that are taken from it: those of which
\* the first event on file, if there is any, is not protected.
Renewed(es, tsv) ==
    {mc \in Mcs :
        /\ OfMeasure(tsv, mc) # {}
        /\ OfMeasure(es, mc) # {} =>
             \E i \in OfMeasure(es, mc) :
                /\ \A j \in OfMeasure(es, mc) : i <= j
                /\ ~Protected(es[i])}

\* A protected event stays, marked if its measure has left the analysis.
Kept(e, tsv) ==
    IF Protected(e) /\ e.mc # NoMc /\ OfMeasure(tsv, e.mc) = {}
    THEN [e EXCEPT !.orphaned = TRUE]
    ELSE e

\* Fault: unreviewed events stay when their measure has left the analysis.
MergedPlacesWithStale(es, tsv) ==
    {<<0, j>> : j \in {j \in DOMAIN tsv : tsv[j].mc \in Renewed(es, tsv)}}
      \cup {<<1, i>> : i \in {i \in DOMAIN es :
                               Protected(es[i]) \/ OfMeasure(tsv, es[i].mc) = {}}}

\* The places of the merged array, before sorting: 0 for events taken from the
\* analysis, 1 for events that stay.
MergedPlaces(es, tsv) ==
    {<<0, j>> : j \in {j \in DOMAIN tsv : tsv[j].mc \in Renewed(es, tsv)}}
      \cup {<<1, i>> : i \in {i \in DOMAIN es : Protected(es[i]) \/ es[i].mc = NoMc}}

MergedEvent(es, tsv, p) == IF p[1] = 0 THEN tsv[p[2]] ELSE Kept(es[p[2]], tsv)

\* Of two events at one place the new one was appended first: only a later
\* event of a renewed measure can be protected.
MergedBefore(es, tsv, p, q) ==
    \/ InScore(MergedEvent(es, tsv, p), MergedEvent(es, tsv, q))
    \/ /\ ~InScore(MergedEvent(es, tsv, q), MergedEvent(es, tsv, p))
       /\ p[1] < q[1] \/ (p[1] = q[1] /\ p[2] < q[2])

\* The first analysis of a movement is stored as it is.
Merged(es, tsv) ==
    IF es = <<>> THEN tsv
    ELSE LET order == Ranked(MergedPlaces(es, tsv),
                             LAMBDA p, q : MergedBefore(es, tsv, p, q))
         IN  [k \in DOMAIN order |-> MergedEvent(es, tsv, order[k])]

=============================================================================
