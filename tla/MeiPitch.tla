------------------------------ MODULE MeiPitch -------------------------------
(***************************************************************************)
(* Sounding pitch in a score: key signatures, ties across barlines and the *)
(* gestural accidentals that decide what MIDI plays (passes 8 and 9 of     *)
(* mei_normalizer.py).  voices[b, s, l] is the sequence of events of one   *)
(* layer in one bar; an event is a rest, a note or a chord.                *)
(***************************************************************************)
EXTENDS Integers, FiniteSets, Sequences, SequencesExt

None == "none"

\* pitch stands for name and octave, the letter for the name alone; accid and
\* ges are whatever token the file has there, or None.
Note == [pitch : STRING, letter : STRING, accid : STRING, ges : STRING]
Event == [dur : Nat, notes : Seq(Note)]
IsVoices(voices) ==
    /\ voices = [v \in DOMAIN voices |-> voices[v]]
    /\ IsFiniteSet(DOMAIN voices)
    /\ \A v \in DOMAIN voices : v \in Nat \X Nat \X Nat /\ voices[v] \in Seq(Event)

\* An id is <<bar, staff, layer, event, position in the chord>>.
Ids(voices) == UNION {UNION {
    {<<v[1], v[2], v[3], e, k>> : k \in DOMAIN voices[v][e].notes} :
        e \in DOMAIN voices[v]} : v \in DOMAIN voices}
Voice(i) == <<i[1], i[2], i[3]>>
At(voices, i) == voices[Voice(i)][i[4]].notes[i[5]]
Put(voices, i, note) == [voices EXCEPT ![Voice(i)][i[4]].notes[i[5]] = note]

\* Document order; the clock of a layer adds up the durations before an event.
Earlier(i, j) == \E k \in 1 .. 5 : i[k] < j[k] /\ \A h \in 1 .. k - 1 : i[h] = j[h]
Durations(layer) == [e \in DOMAIN layer |-> layer[e].dur]
Clock(durs, e) ==
    LET t[k \in 1 .. e] == IF k = 1 THEN 0 ELSE t[k - 1] + durs[k - 1] IN t[e]
Onset(voices, i) == Clock(Durations(voices[Voice(i)]), i[4])

-----------------------------------------------------------------------------
(* Key signatures.  A declaration stands before bar "at", or inside it; it   *)
(* gives a key to everybody, to some staves, or both.                       *)

NoKey == [none |-> TRUE]
Override(f, g) == [x \in DOMAIN f \cup DOMAIN g |-> IF x \in DOMAIN f THEN f[x] ELSE g[x]]

\* A new global key drops the staves' own keys that it does not restate.
Declare(state, d) ==
    [all |-> IF d.all = NoKey THEN state.all ELSE d.all,
     staff |-> Override(d.staff, IF d.all = NoKey THEN state.staff ELSE <<>>)]

\* Inside a bar a staffDef counts for its staff at once.  Of a scoreDef only the
\* key for everybody does, and it drops no staff's own: the rest of it, and of
\* Declare, is for the snapshot of the next bar.
DeclareInside(state, d) ==
    IF d.all = NoKey THEN [state EXCEPT !.staff = Override(d.staff, @)]
                     ELSE [state EXCEPT !.all = d.all]

\* The snapshot taken where the bar begins, and what the bar itself declares.
KeyAt(keys, bar, staff) ==
    LET before == SelectSeq(keys, LAMBDA d : d.at < bar \/ (d.at = bar /\ ~d.inside))
        within == SelectSeq(keys, LAMBDA d : d.at = bar /\ d.inside)
        snap == FoldLeft(Declare, [all |-> <<>>, staff |-> <<>>], before)
        here == FoldLeft(DeclareInside, snap, within)
    IN IF staff \in DOMAIN here.staff THEN here.staff[staff] ELSE here.all
KeyAlteration(key, letter) == IF letter \in DOMAIN key THEN key[letter] ELSE None

-----------------------------------------------------------------------------
(* Pass 8: ties without an end.                                             *)

\* _note_alteration: the printed accidental before the gestural one.
Alteration(note) == IF note.accid # None THEN note.accid ELSE note.ges

NoEnd == <<>>
\* _find_continuation_note: in the same layer of the next bar.
Continuations(voices, i) ==
    {j \in Ids(voices) : /\ Voice(j) = <<i[1] + 1, i[2], i[3]>>
                         /\ At(voices, j).pitch = At(voices, i).pitch}
Continuation(voices, i) ==
    CHOOSE j \in Continuations(voices, i) :
        \A k \in Continuations(voices, i) : k = j \/ Earlier(j, k)

\* The continuation takes over the alteration the start carries now, unless it
\* has an accidental of its own.
CompleteTie(acc, t) ==
    IF t.end # NoEnd \/ Continuations(acc.voices, t.start) = {}
    THEN [acc EXCEPT !.ties = Append(@, t)]
    ELSE LET j == Continuation(acc.voices, t.start)
             note == At(acc.voices, j)
             alt == Alteration(At(acc.voices, t.start)) IN
         [voices |-> IF note.accid = None /\ note.ges = None
                     THEN Put(acc.voices, j, [note EXCEPT !.ges = alt]) ELSE acc.voices,
          ties |-> Append(acc.ties, [t EXCEPT !.end = j])]
CompleteTies(voices, ties) ==
    LET done[k \in 0 .. Len(ties)] ==
            IF k = 0 THEN [voices |-> voices, ties |-> <<>>]
            ELSE CompleteTie(done[k - 1], ties[k])
    IN done[Len(ties)]

-----------------------------------------------------------------------------
(* Pass 9: gestural accidentals.                                            *)

\* _build_tie_targets, taken before anything is resolved.
TieTargets(voices, ties) ==
    {ties[k].end : k \in {h \in DOMAIN ties :
        ties[h].end # NoEnd /\ Alteration(At(voices, ties[h].start)) # None}}

\* Fault: layer by layer, as the notes stand in the document.
GovernsInDocument(voices, i, j) == Earlier(i, j)
\* Notes of one staff in one bar by onset, printed accidentals first.
Governs(voices, i, j) ==
    LET a == Onset(voices, i)
        b == Onset(voices, j)
        p == At(voices, i).accid # None
        q == At(voices, j).accid # None IN
    a < b \/ (a = b /\ ((p /\ ~q) \/ (p = q /\ Earlier(i, j))))
OnStaff(voices, bar, staff) == {i \in Ids(voices) : i[1] = bar /\ i[2] = staff}
Rank(voices, S, i) == Cardinality({j \in S : Governs(voices, j, i)})
StaffOrder(voices, bar, staff) ==
    LET S == OnStaff(voices, bar, staff)
    IN [k \in 1 .. Cardinality(S) |-> CHOOSE i \in S : Rank(voices, S, i) = k - 1]

\* The gestural token a note without a printed accidental must carry.
Target(expected, ksAlt) ==
    IF expected = "n" /\ ksAlt = None THEN None ELSE expected

\* One note of the walk: acc.running is the accidental in force per pitch.
ResolveNote(acc, i, key, targets) ==
    LET note == At(acc.voices, i)
        ksAlt == KeyAlteration(key, note.letter)
        expected == IF note.pitch \in DOMAIN acc.running THEN acc.running[note.pitch]
                    ELSE ksAlt IN
    IF note.accid # None
    THEN [running |-> Override([x \in {note.pitch} |-> note.accid], acc.running),
          voices |-> IF note.ges # note.accid
                     THEN Put(acc.voices, i, [note EXCEPT !.ges = None]) ELSE acc.voices]
    ELSE IF i \in targets THEN acc
    ELSE [acc EXCEPT !.voices = Put(@, i, [note EXCEPT !.ges = Target(expected, ksAlt)])]

ResolveStaff(voices, bar, staff, keys, targets) ==
    LET order == StaffOrder(voices, bar, staff)
        walk[k \in 0 .. Len(order)] ==
            IF k = 0 THEN [running |-> <<>>, voices |-> voices]
            ELSE ResolveNote(walk[k - 1], order[k], KeyAt(keys, bar, staff), targets)
    IN walk[Len(order)].voices

ResolveAccidentals(voices, ties, keys) ==
    LET targets == TieTargets(voices, ties)
        parts == SetToSeq({<<v[1], v[2]>> : v \in DOMAIN voices})
        done[k \in 0 .. Len(parts)] ==
            IF k = 0 THEN voices
            ELSE ResolveStaff(done[k - 1], parts[k][1], parts[k][2], keys, targets)
    IN done[Len(parts)]

-----------------------------------------------------------------------------
(* What the passes are measured against.                                    *)

\* What MIDI plays: the gestural accidental, else the printed one.
Played(note) ==
    LET a == IF note.ges # None THEN note.ges ELSE note.accid
    IN IF a = None THEN "n" ELSE a

\* What the page means: the note's own accidental, else that of the latest
\* printed one on the same line or space of the staff so far in the bar, else
\* the key signature.
Meant(voices, keys, i) ==
    LET P == {j \in Ids(voices) :
                /\ j[1] = i[1] /\ j[2] = i[2]
                /\ At(voices, j).pitch = At(voices, i).pitch /\ At(voices, j).accid # None
                /\ Onset(voices, j) <= Onset(voices, i)}
        latest == {j \in P : \A k \in P : k = j \/ ~Governs(voices, j, k)}
        a == IF At(voices, i).accid # None THEN At(voices, i).accid
             ELSE IF P # {} THEN At(voices, CHOOSE j \in latest : TRUE).accid
             ELSE KeyAlteration(KeyAt(keys, i[1], i[2]), At(voices, i).letter)
    IN IF a = None THEN "n" ELSE a
=============================================================================
