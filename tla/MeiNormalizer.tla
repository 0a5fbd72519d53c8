---------------------------- MODULE MeiNormalizer ----------------------------
(***************************************************************************)
(* normalize_mei: the overlay of corrections and the passes that follow,   *)
(* one step each and in this order.  A normalized file that is uploaded as  *)
(* a source again goes through all of it once more, so rounds follow one   *)
(* another until nothing changes.                                          *)
(***************************************************************************)
EXTENDS Integers, FiniteSets, Sequences, SequencesExt

M == INSTANCE MeiMeasures
P == INSTANCE MeiPitch
C == INSTANCE MeiClefs

CONSTANTS
    Scores,      \* the scores that are uploaded, each with its corrections
    MaxRounds    \* bound: a file is normalized at most so often

VARIABLES
    source,      \* the score as it was uploaded
    tree,       \* the tree the passes rewrite
    before,      \* the file the present round was given
    pass,        \* the pass that is next; Written when the file is out
    round,
    issues       \* what the passes of this round flag
normalizerVars == <<source, tree, before, pass, round, issues>>

Written == 12

\* header: the layout of the staves: one group of two or more staves or not,
\* its brace, through barlines and labels.
Header == [grand : BOOLEAN, brace : BOOLEAN, barThru : BOOLEAN, labels : BOOLEAN]

\* A correction names a bar and, for what it corrects in a note, the note.
Correction == [mc : Nat, note : Seq(Nat), field : STRING, expected : STRING, corrected : STRING]

IsScore(s) ==
    /\ DOMAIN s = {"measures", "endings", "voices", "ties", "keys", "corrections", "staff", "header"}
    /\ s = [f \in DOMAIN s |-> s[f]]
    /\ s.measures \in Seq(M!Measure) /\ s.endings \in Seq(M!Label)
    /\ P!IsVoices(s.voices) /\ s.corrections \in Seq(Correction)
    /\ s.ties \in Seq([start : Seq(Nat), end : Seq(Nat)])
    /\ s.header \in Header

ASSUME NormalizerAssumption ==
    /\ MaxRounds \in Nat \ {0}
    /\ \A s \in Scores : IsScore(s)

NormalizerInit ==
    /\ source \in Scores
    /\ tree = source
    /\ before = source
    /\ pass = 0
    /\ round = 1
    /\ issues = {}

Flag(S) == issues' = issues \cup S
Goes(k) == pass = k /\ pass' = k + 1 /\ UNCHANGED <<source, before, round>>

-----------------------------------------------------------------------------
(* Pass 0: known errors of the source.  A correction names its target by     *)
(* coordinates, the value it expects there and the one it puts.             *)

Fields == {"accid", "ges", "repeat-start", "repeat-end"}

\* _resolve_correction_target, and the shape of target the field asks for.
Fits(c) == (c.field \in {"accid", "ges"}) = (c.note # <<>>)
Resolves(s, c) == IF c.note # <<>> THEN c.note \in P!Ids(s.voices)
                  ELSE c.mc \in DOMAIN s.measures
ValueAt(s, c) ==
    CASE c.field = "accid" -> P!At(s.voices, c.note).accid
      [] c.field = "ges" -> P!At(s.voices, c.note).ges
      [] c.field = "repeat-start" -> s.measures[c.mc].left
      [] c.field = "repeat-end" -> s.measures[c.mc].right
\* Fault: the printed accidental is corrected in the gestural attribute.
CorrectedInGes(s, c) ==
    IF c.field \in {"accid", "ges"}
    THEN [s EXCEPT !.voices = P!Put(@, c.note, [P!At(@, c.note) EXCEPT !.ges = c.corrected])]
    ELSE [s EXCEPT !.measures[c.mc].left = c.corrected]
Corrected(s, c) ==
    CASE c.field = "accid" ->
           [s EXCEPT !.voices = P!Put(@, c.note, [P!At(@, c.note) EXCEPT !.accid = c.corrected])]
      [] c.field = "ges" ->
           [s EXCEPT !.voices = P!Put(@, c.note, [P!At(@, c.note) EXCEPT !.ges = c.corrected])]
      [] c.field = "repeat-start" -> [s EXCEPT !.measures[c.mc].left = c.corrected]
      [] c.field = "repeat-end" -> [s EXCEPT !.measures[c.mc].right = c.corrected]

\* Why a correction is left alone; "none" if it is to be applied.
Objection(s, c) ==
    IF c.field \notin Fields THEN "CORRECTION_UNKNOWN_FIELD"
    ELSE IF ~Fits(c) THEN "CORRECTION_TARGET_MISMATCH"
    ELSE IF ~Resolves(s, c) THEN "CORRECTION_TARGET_MISSING"
    ELSE IF ValueAt(s, c) = c.corrected THEN "CORRECTION_SUPERSEDED"
    ELSE IF ValueAt(s, c) # c.expected THEN "CORRECTION_PRESTATE_MISMATCH"
    ELSE "none"

Correct(s, c) == IF Objection(s, c) = "none" THEN Corrected(s, c) ELSE s
\* The score after the first k corrections.
CorrectedUpTo(s, k) ==
    LET done[h \in 0 .. k] == IF h = 0 THEN s ELSE Correct(done[h - 1], s.corrections[h])
    IN done[k]

ApplyCorrections ==
    /\ Goes(0)
    /\ tree' = CorrectedUpTo(tree, Len(tree.corrections))
    /\ Flag({issue \in {M!Issue(Objection(CorrectedUpTo(tree, k - 1), tree.corrections[k]), k) :
                           k \in DOMAIN tree.corrections} : issue.code # "none"})

-----------------------------------------------------------------------------
(* The passes.                                                              *)

NormalizePickupBar ==
    /\ Goes(1)
    /\ tree' = [tree EXCEPT !.measures = M!PickupBar(@)]
    /\ UNCHANGED issues

PropagateMeterChanges ==
    /\ Goes(2)
    /\ tree' = [tree EXCEPT !.measures = M!MeterChanges(@)]
    /\ UNCHANGED issues

NormalizeEndingNs ==
    /\ Goes(3)
    /\ tree' = [tree EXCEPT !.endings = M!NumberedEndings(@)]
    /\ Flag(M!EndingIssues(tree.measures, M!NumberedEndings(tree.endings)))

CheckRepeatBarlines ==
    /\ Goes(4)
    /\ Flag(M!RepeatIssues(tree.measures))
    /\ UNCHANGED tree

CheckMeasureN ==
    /\ Goes(5)
    /\ Flag(M!NumberIssues(tree.measures))
    /\ UNCHANGED tree

NormalizeEndingMeasureNs ==
    /\ Goes(6)
    /\ tree' = [tree EXCEPT !.measures = M!EndingBars(@)]
    /\ Flag(M!EndingBarIssues(M!EndingBars(tree.measures)))

NormalizeSplitMeasures ==
    /\ Goes(7)
    /\ tree' = [tree EXCEPT !.measures = M!SplitMeasures(@)]
    /\ Flag(M!SplitIssues(tree.measures))

CompleteCrossBarlineTies ==
    /\ Goes(8)
    /\ LET done == P!CompleteTies(tree.voices, tree.ties) IN
         /\ tree' = [tree EXCEPT !.voices = done.voices, !.ties = done.ties]
         /\ Flag({M!Issue("TIE_UNRESOLVED", k) :
                    k \in {h \in DOMAIN done.ties : done.ties[h].end = P!NoEnd}})

ResolveGesturalAccidentals ==
    /\ Goes(9)
    /\ tree' = [tree EXCEPT !.voices = P!ResolveAccidentals(@, tree.ties, tree.keys)]
    /\ UNCHANGED issues

ReconcileClefGroups ==
    /\ Goes(10)
    /\ tree' = [tree EXCEPT !.staff = C!ReconcileClefs(@)]
    /\ Flag({M!Issue("CLEF_SAMEAS_DANGLING", p[1]) : p \in C!Dangling(C!ReconcileClefs(tree.staff))})

\* _normalize_staff_presentation: only a single instrument's grand staff.
NormalizeStaffPresentation ==
    /\ Goes(11)
    /\ tree' = IF tree.header.grand
                THEN [tree EXCEPT !.header =
                        [@ EXCEPT !.brace = TRUE, !.barThru = TRUE, !.labels = FALSE]]
                ELSE tree
    /\ UNCHANGED issues

\* The normalized file goes through the pipeline once more.
NormalizeAgain ==
    /\ pass = Written /\ round < MaxRounds /\ tree # before
    /\ before' = tree
    /\ pass' = 0 /\ round' = round + 1 /\ issues' = {}
    /\ UNCHANGED <<source, tree>>

NormalizerNext ==
    \/ ApplyCorrections \/ NormalizePickupBar \/ PropagateMeterChanges \/ NormalizeEndingNs
    \/ CheckRepeatBarlines \/ CheckMeasureN \/ NormalizeEndingMeasureNs
    \/ NormalizeSplitMeasures \/ CompleteCrossBarlineTies \/ ResolveGesturalAccidentals
    \/ ReconcileClefGroups \/ NormalizeStaffPresentation \/ NormalizeAgain

NormalizerSpec == NormalizerInit /\ [][NormalizerNext]_normalizerVars

-----------------------------------------------------------------------------
(* Properties.                                                              *)

Done == pass = Written

\* It comes to rest: a round more than the score has bars, and nothing moves.
\* (A note's accidental and its tied continuation are settled one bar a round.)
ComesToRest == Done /\ round > Len(tree.measures) + 1 => tree = before

\* Every note plays what the page says, whatever gestural accidentals the
\* converter wrote, lost or spread to other voices; a tied note may carry over
\* the barline.
PlaysAsPrinted ==
    Done => \A i \in P!Ids(tree.voices) :
        \/ P!Played(P!At(tree.voices, i)) = P!Meant(tree.voices, tree.keys, i)
        \/ \E k \in DOMAIN tree.ties : tree.ties[k].end = i /\ P!At(tree.voices, i).accid = P!None

\* What the page shows of notes and repeats, and what the corrections are about.
Printed(s) ==
    [notes |-> [i \in P!Ids(s.voices) |->
                  LET note == P!At(s.voices, i) IN <<note.pitch, note.letter, note.accid>>],
     bars |-> [k \in DOMAIN s.measures |-> <<s.measures[k].left, s.measures[k].right>>]]
\* Only the overlay of corrections changes it: no pass adds or removes a note, a
\* bar, a printed accidental or a repeat barline, in whatever round; they write
\* gestural accidentals and attributes only.
PrintIsKept == [][pass # 0 => Printed(tree') = Printed(tree)]_normalizerVars

\* A correction is made once: the file it was made in is left alone by it in
\* every later round, for one reason or another.  (A gestural correction may be
\* undone by pass 9 and then made again.)
CorrectionsSettle ==
    Done /\ round >= 2 => \A k \in DOMAIN tree.corrections :
        tree.corrections[k].field # "ges" => \E issue \in issues :
            issue.at = k /\ issue.code \in {"CORRECTION_UNKNOWN_FIELD", "CORRECTION_TARGET_MISMATCH",
                "CORRECTION_TARGET_MISSING", "CORRECTION_SUPERSEDED", "CORRECTION_PRESTATE_MISMATCH"}

\* Corrections of one list that concern the same attribute may follow one
\* another (none to s, s to n), but none restores what an earlier one expects.
SameTarget(c, d) ==
    c.field = d.field /\ IF c.field \in {"accid", "ges"} THEN c.note = d.note ELSE c.mc = d.mc
NoReversal ==
    \A s \in Scores : \A k \in DOMAIN s.corrections : \A h \in 1 .. k - 1 :
        SameTarget(s.corrections[h], s.corrections[k])
            => s.corrections[k].corrected # s.corrections[h].expected

\* A clef change draws one glyph (no two drawn clefs of one event in a staff),
\* and a note is read under the clef its voice had, or under the one the staff
\* had changed to by then; never under a third.
ClefsKeepMeaning ==
    Done =>
        /\ \A event \in {C!ExplicitEvents(C!Members(tree.staff))[k] :
                 k \in DOMAIN C!ExplicitEvents(C!Members(tree.staff))} : Len(event) = 1
        /\ \A l \in DOMAIN tree.staff : LET old == source.staff[l]
                                            new == tree.staff[l] IN
             \A h \in C!Notes(new) : \E k \in C!Notes(old) :
                /\ C!Onset(old, k) = C!Onset(new, h)
                /\ C!ReadUnder(tree.staff, l, h)
                     \in {C!ReadUnder(source.staff, l, k), C!InForce(source.staff, C!Onset(old, k))}
=============================================================================
