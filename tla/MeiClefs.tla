------------------------------ MODULE MeiClefs -------------------------------
(***************************************************************************)
(* Clef reconciliation (pass 10 of mei_normalizer.py): the converter copies *)
(* one clef change of a staff into every layer; the pass leaves one clef   *)
(* that draws a glyph and silent references to it that position the other  *)
(* voices.  A staff in one bar is a sequence of layers, a layer a sequence *)
(* of notes (and chords), rests, spaces and clefs.                         *)
(***************************************************************************)
EXTENDS Integers, Sequences, SequencesExt, FiniteSetsExt, TLC

\* key: shape and line of an explicit clef, NoSign for a reference; id: its
\* xml:id, 0 for none; to: the id a @sameas points at, 0 for none.
NoSign == "none"
Item == [kind : {"note", "rest", "space", "clef"}, dur : Nat, key : STRING, id : Nat, to : Nat]

IsClef(x) == x.kind = "clef"
Explicit(x) == IsClef(x) /\ x.key # NoSign
Places(staff) == UNION {{<<l, k>> : k \in DOMAIN staff[l]} : l \in DOMAIN staff}
Clefs(staff) == {p \in Places(staff) : IsClef(staff[p[1]][p[2]])}
Here(staff, p) == staff[p[1]][p[2]]

Onset(layer, k) == FoldLeft(LAMBDA t, x : t + x.dur, 0, SubSeq(layer, 1, k - 1))

\* _resolved_clef_key: a reference has the key of the clef it points at, one
\* step away; NoSign when that cannot be told.
KeyById(staff, id) ==
    LET S == {p \in Clefs(staff) : Here(staff, p).id = id /\ id # 0}
    IN IF S = {} THEN NoSign ELSE Here(staff, CHOOSE p \in S : TRUE).key
ResolvedKey(staff, x) == IF Explicit(x) THEN x.key ELSE KeyById(staff, x.to)

-----------------------------------------------------------------------------
(* Members and change events.  A member keeps its layer and a mark that      *)
(* survives while items move around it.                                     *)

\* Fault: only what follows at once is looked at.
PositionsNext(layer, k) == k < Len(layer) /\ layer[k + 1].kind = "note"
Positions(layer, k) == \E h \in k + 1 .. Len(layer) : layer[h].kind = "note"
Member(staff, p) ==
    [layer |-> p[1], mark |-> p, onset |-> Onset(staff[p[1]], p[2]),
     key |-> ResolvedKey(staff, Here(staff, p)), explicit |-> Explicit(Here(staff, p)),
     id |-> Here(staff, p).id, to |-> Here(staff, p).to,
     positions |-> Positions(staff[p[1]], p[2])]

\* In document order: layer by layer.
Members(staff) ==
    LET places == FlattenSeq([l \in DOMAIN staff |-> [k \in DOMAIN staff[l] |-> <<l, k>>]])
        clefs == SelectSeq(places, LAMBDA p : /\ IsClef(Here(staff, p))
                                              /\ ResolvedKey(staff, Here(staff, p)) # NoSign)
    IN [k \in DOMAIN clefs |-> Member(staff, clefs[k])]

\* Explicit clefs of one key next to each other in onset order are one event.
ExplicitEvents(ms) ==
    LET order == SortSeq(SelectSeq([k \in DOMAIN ms |-> k], LAMBDA k : ms[k].explicit),
                         LAMBDA i, j : ms[i].onset < ms[j].onset
                                         \/ (ms[i].onset = ms[j].onset /\ i < j)) IN
    FoldLeft(LAMBDA events, k :
               IF events # <<>> /\ Last(Last(events)).key = ms[k].key
               THEN Append(Front(events), Append(Last(events), ms[k]))
               ELSE Append(events, <<ms[k]>>),
             <<>>, order)

\* A reference joins the event of its target, else the nearest event of its
\* key, else it stands alone.
Distance(event, m) == Min({IF x.onset < m.onset THEN m.onset - x.onset ELSE x.onset - m.onset :
                             x \in ToSet(event)})
Join(events, m) ==
    LET host == {k \in DOMAIN events : \E x \in ToSet(events[k]) : x.id = m.to /\ m.to # 0}
        near == {k \in DOMAIN events : events[k][1].key = m.key}
        nearest == {k \in near : \A h \in near :
                      \/ Distance(events[k], m) < Distance(events[h], m)
                      \/ Distance(events[k], m) = Distance(events[h], m) /\ k <= h} IN
    IF host \cup near = {} THEN Append(events, <<m>>)
    ELSE [events EXCEPT ![CHOOSE k \in IF host # {} THEN {Min(host)} ELSE nearest : TRUE] =
            Append(@, m)]
ChangeEvents(staff) ==
    LET ms == Members(staff) IN
    FoldLeft(Join, ExplicitEvents(ms), SelectSeq(ms, LAMBDA m : ~m.explicit))

-----------------------------------------------------------------------------
(* While events are worked on, items carry the mark of the place they had.  *)

Marked(staff) == [l \in DOMAIN staff |-> [k \in DOMAIN staff[l] |->
                    [item |-> staff[l][k], mark |-> <<l, k>>]]]
Unmarked(work) == [l \in DOMAIN work |-> [k \in DOMAIN work[l] |-> work[l][k].item]]
Bare(layer) == [k \in DOMAIN layer |-> layer[k].item]
PlaceOf(layer, mark) == CHOOSE k \in DOMAIN layer : layer[k].mark = mark
Edit(work, m, item) ==
    [work EXCEPT ![m.layer] = [k \in DOMAIN @ |->
        IF @[k].mark = m.mark THEN [@[k] EXCEPT !.item = item] ELSE @[k]]]
Drop(work, m) == [work EXCEPT ![m.layer] = SelectSeq(@, LAMBDA x : x.mark # m.mark)]
ItemOf(work, m) == work[m.layer][PlaceOf(work[m.layer], m.mark)].item

\* _ppq_to_dur: ticks that are an undotted note value, eight to the whole note.
Plain(ticks) == ticks \in {1, 2, 4, 8}

\* A copy is pulled back to the change point: before the item that begins
\* there, or by splitting a space around it into plain values; never across a
\* note of its layer.
Crosses(layer, target, onset) ==
    \E k \in DOMAIN layer : /\ layer[k].kind = "note"
                            /\ target < Onset(layer, k) /\ Onset(layer, k) < onset
SplitPoint(layer, target) ==
    {k \in DOMAIN layer : /\ layer[k].kind = "space"
                          /\ Onset(layer, k) < target
                          /\ target < Onset(layer, k) + layer[k].dur
                          /\ Plain(target - Onset(layer, k))
                          /\ Plain(Onset(layer, k) + layer[k].dur - target)}
PullBack(work, m, target) ==
    LET layer == work[m.layer]
        me == layer[PlaceOf(layer, m.mark)]
        anchors == {k \in DOMAIN layer : Onset(Bare(layer), k) = target}
        spaces == SplitPoint(Bare(layer), target)
        without(s) == SelectSeq(s, LAMBDA x : x.mark # m.mark) IN
    IF anchors # {}
    THEN [work EXCEPT ![m.layer] =
            without(SubSeq(layer, 1, Min(anchors) - 1)) \o <<me>>
            \o without(SubSeq(layer, Min(anchors), Len(layer)))]
    ELSE IF spaces # {}
    THEN LET k == CHOOSE h \in spaces : TRUE
             first == target - Onset(Bare(layer), k) IN
         [work EXCEPT ![m.layer] =
            without(SubSeq(layer, 1, k - 1))
            \o <<[layer[k] EXCEPT !.item.dur = first], me,
                 [layer[k] EXCEPT !.item.dur = @ - first, !.mark = <<m.layer, 0, m.mark>>]>>
            \o without(SubSeq(layer, k + 1, Len(layer)))]
    ELSE work

-----------------------------------------------------------------------------
(* One event.                                                               *)

Sounding(event) == \E m \in ToSet(event) : m.positions

Moved(work, m) == Onset(Bare(work[m.layer]), PlaceOf(work[m.layer], m.mark))
Aligned(work, event, target, before) ==
    FoldLeft(LAMBDA w, m :
        IF m.onset = target \/ ~m.positions \/ Crosses(before[m.layer], target, m.onset)
        THEN w ELSE PullBack(w, m, target), work, event)

\* The bearer draws the glyph: explicit and positioning, else explicit, else
\* positioning, else the first at the change point.
Bearer(work, event, target) ==
    LET at == SelectSeq(event, LAMBDA m : Moved(work, m) = target)
        best(P(_)) == SelectSeq(at, P)
        rank == <<best(LAMBDA m : m.explicit /\ m.positions), best(LAMBDA m : m.explicit),
                  best(LAMBDA m : m.positions), at>>
    IN rank[Min({k \in 1 .. 4 : rank[k] # <<>>})][1]

Drawn(x, key, id) == [x EXCEPT !.key = key, !.to = 0, !.id = id]
Silent(x, id) == [x EXCEPT !.key = NoSign, !.to = id]

\* The id given to a bearer that has none: measure, staff and onset.
FreshId(m) == 100 + m.onset

ChangePoint(event) == Min({m.onset : m \in ToSet(event)})
\* The copies of the drawn clef go silent, those behind the last note go.
Silence(work, event, b, id) ==
    FoldLeft(LAMBDA w, m : IF m = b THEN w
                           ELSE IF ~m.positions THEN Drop(w, m)
                           ELSE Edit(w, m, Silent(ItemOf(w, m), id)),
             work, event)
Draw(work, event, b, x) ==
    LET id == IF x.id = 0 THEN FreshId(b) ELSE x.id
    IN Silence(Edit(work, b, Drawn(x, event[1].key, id)), event, b, id)
DrawBy(work, event, b) == Draw(work, event, b, ItemOf(work, b))
DrawIn(work, event) == DrawBy(work, event, Bearer(work, event, ChangePoint(event)))
Active(work, event, before) ==
    DrawIn(Aligned(work, event, ChangePoint(event), before), event)

\* Only the latest copy of a bar-end courtesy is kept; at one onset an explicit
\* one, and of equals the first.
Courtesy(work, event) ==
    LET worth(m) == 2 * m.onset + IF m.explicit THEN 1 ELSE 0
        top == Max({worth(m) : m \in ToSet(event)})
        b == SelectSeq(event, LAMBDA m : worth(m) = top)[1] IN
    FoldLeft(LAMBDA w, m : IF m = b THEN w ELSE Drop(w, m),
             Edit(work, b, Drawn(ItemOf(work, b), event[1].key, ItemOf(work, b).id)), event)

-----------------------------------------------------------------------------
(* The safety net: a reference that draws nothing and points at nothing      *)
(* drawable is materialized from what its target was before the pass.       *)

Dangling(staff) == {p \in Clefs(staff) :
    ~Explicit(Here(staff, p)) /\ KeyById(staff, Here(staff, p).to) = NoSign}
Rescued(staff, before) ==
    LET gone(id) == \A p \in Clefs(staff) : Here(staff, p).id # id IN
    [l \in DOMAIN staff |-> [k \in DOMAIN staff[l] |->
        LET x == staff[l][k] IN
        IF <<l, k>> \in Dangling(staff) /\ gone(x.to) /\ KeyById(before, x.to) # NoSign
        THEN Drawn(x, KeyById(before, x.to), x.id) ELSE x]]

ReconcileClefs(staff) ==
    LET work == FoldLeft(LAMBDA w, event :
                    IF Sounding(event) THEN Active(w, event, staff) ELSE Courtesy(w, event),
                    Marked(staff), ChangeEvents(staff))
    IN Rescued(Unmarked(work), staff)

-----------------------------------------------------------------------------
(* What the pass is measured against.                                       *)

\* The clef a note of a layer is read under, "" before the first change.
ReadUnder(staff, l, k) ==
    LET S == {h \in 1 .. k - 1 : IsClef(staff[l][h]) /\ ResolvedKey(staff, staff[l][h]) # NoSign}
    IN IF S = {} THEN "" ELSE ResolvedKey(staff, staff[l][Max(S)])
\* The explicit clef in force on the staff at an onset.
InForce(staff, onset) ==
    LET S == {p \in Clefs(staff) : Explicit(Here(staff, p)) /\ Onset(staff[p[1]], p[2]) <= onset}
        latest == {p \in S : \A q \in S : Onset(staff[q[1]], q[2]) <= Onset(staff[p[1]], p[2])}
    IN IF S = {} THEN "" ELSE Here(staff, CHOOSE p \in latest : TRUE).key
Notes(layer) == {k \in DOMAIN layer : layer[k].kind = "note"}
=============================================================================
