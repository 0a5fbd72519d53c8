---------------------------- MODULE StoredRepairs ----------------------------
(***************************************************************************)
(* The value repairs of backend/data_migrations over one movement: the     *)
(* meter of the record (fix_movement_meter), the meter fragments display   *)
(* (fix_summary_key_meter), beats written while 3/8 was read as one dotted *)
(* beat (fix_38_beat_coordinates) and stages that outgrew their fragment   *)
(* (clamp_subpart_bounds).  A script reads every row first and commits at  *)
(* the end; annotators save fragments meanwhile.  Beats are counted in     *)
(* sixths of a beat, which holds the thirds of one reading and the halves  *)
(* of the other; positions in the score in ticks, 24 to an eighth, so that *)
(* a sixth of a beat is a whole number of them down to a thirty-second.    *)
(***************************************************************************)
EXTENDS Integers, SequencesExt

CONSTANTS
    Declarations, \* the meters the MEI declares: [mc, sig], in document order
    Wholes,       \* top-level fragments of the movement
    Legacy,       \* those tagged before the reading of 3/8 changed
    OldTaggings,  \* where a fragment and its outer stages were placed before
    NewTaggings,  \* and where they are placed afterwards
    Meters,       \* what the corpus manifest may have put on the record
    MaxSaves,     \* saves of fragments after the change of reading
    MaxRuns       \* script executions

NoMeter == <<0, 0>>
NoBeat == 0          \* a null beat: the bound is its measure's edge
Edge == -1           \* the same, of a bound that is being tagged
DisputedMeter == <<3, 8>>

Places == {"whole", "first", "last"}      \* a fragment and its outer stages
Fragments == Wholes \X Places
Stage(f) == f[2] # "whole"
Parent(f) == <<f[1], "whole">>

Scripts == {"movement_meter", "summary_meter", "eighths", "clamp"}

-----------------------------------------------------------------------------
(* services/mei_meter.py.                                                  *)

\* meter_at_mc over meter_timeline: the last declaration at or before a measure.
\* One that the timeline drops repeats the meter in force, and of several at one
\* measure it keeps the last.
InForce(ds, mc) ==
    LET reached == {i \in DOMAIN ds : ds[i].mc <= mc}
    IN  IF reached = {} THEN NoMeter
        ELSE ds[CHOOSE i \in reached : \A j \in reached : j <= i].sig

MeterAt(mc) == InForce(Declarations, mc)

\* The first entry of the timeline.
StartingMeter == IF Declarations = <<>> THEN NoMeter ELSE MeterAt(Declarations[1].mc)

-----------------------------------------------------------------------------
(* Beats and positions.                                                    *)

\* isCompoundMeter of ghosts.ts, which since M17 asks for six subdivisions.
Compound(sig, reading) ==
    sig[2] = 8 /\ sig[1] % 3 = 0 /\ (reading = "simple" => sig[1] >= 6)

\* Ticks in a sixth of a beat.
Grain(sig, reading) == IF Compound(sig, reading) THEN 12 ELSE 32 \div sig[2]

\* The tool offers the thirds of a compound beat and the halves of a simple one.
Step(sig, reading) == Grain(sig, reading) * (IF Compound(sig, reading) THEN 2 ELSE 3)

BarLength(sig) == sig[1] * (192 \div sig[2])

\* The tool counts in 4/4 where nothing is declared.
Counted(mc) == IF MeterAt(mc) = NoMeter THEN <<4, 4>> ELSE MeterAt(mc)

BeatAt(mc, ticks, reading) == 6 + ticks \div Grain(Counted(mc), reading)

TicksAt(mc, beat, reading) == (beat - 6) * Grain(Counted(mc), reading)

\* What a stored row covers of the score.
Extent(row, reading) ==
    [mcStart |-> row.mcStart, mcEnd |-> row.mcEnd,
     from |-> IF row.beatStart = NoBeat THEN 0
              ELSE TicksAt(row.mcStart, row.beatStart, reading),
     to   |-> IF row.beatEnd = NoBeat THEN BarLength(Counted(row.mcEnd))
              ELSE TicksAt(row.mcEnd, row.beatEnd, reading)]

Earlier(p, q) == p[1] < q[1] \/ (p[1] = q[1] /\ p[2] < q[2])

\* The part of an extent that lies within another.
Within(e, outer) ==
    LET early == Earlier(<<e.mcStart, e.from>>, <<outer.mcStart, outer.from>>)
        late  == Earlier(<<outer.mcEnd, outer.to>>, <<e.mcEnd, e.to>>)
    IN  [mcStart |-> IF early THEN outer.mcStart ELSE e.mcStart,
         from    |-> IF early THEN outer.from ELSE e.from,
         mcEnd   |-> IF late THEN outer.mcEnd ELSE e.mcEnd,
         to      |-> IF late THEN outer.to ELSE e.to]

\* The row the tagging tool has the service write for a place in the score.
Row(id, e, reading, meter) ==
    [id |-> id, mcStart |-> e.mcStart, mcEnd |-> e.mcEnd, meter |-> meter,
     beatStart |-> IF e.from = Edge THEN NoBeat ELSE BeatAt(e.mcStart, e.from, reading),
     beatEnd   |-> IF e.to = Edge THEN NoBeat ELSE BeatAt(e.mcEnd, e.to, reading)]

\* _assert_contained: a null beat is before, or after, every beat of its measure.
Contained(row, whole) ==
    /\ ~Earlier(<<row.mcStart, row.beatStart>>, <<whole.mcStart, whole.beatStart>>)
    /\ \/ row.mcEnd < whole.mcEnd
       \/ row.mcEnd = whole.mcEnd
          /\ (whole.beatEnd = NoBeat \/ row.beatEnd \in 1..whole.beatEnd)

\* The bounds the tool offers: the barline, or a point of its grid.
Offered(e, reading) ==
    LET OnGrid(mc, bars) == {n \in bars : n % Step(Counted(mc), reading) = 0}
    IN  /\ e.mcStart \in Nat \ {0} /\ e.mcEnd \in Nat \ {0}
        /\ e.from \in {Edge} \cup OnGrid(e.mcStart, 0..(BarLength(Counted(e.mcStart)) - 1))
        /\ e.to \in {Edge} \cup OnGrid(e.mcEnd, 1..BarLength(Counted(e.mcEnd)))

ASSUME RepairsAssumption ==
    /\ Declarations \in Seq([mc : Nat \ {0}, sig : (Nat \ {0}) \X {1, 2, 4, 8, 16, 32}])
    /\ \A i, j \in DOMAIN Declarations : i < j => Declarations[i].mc <= Declarations[j].mc
    /\ Meters \subseteq {NoMeter} \cup ((Nat \ {0}) \X (Nat \ {0}))
    /\ Legacy \subseteq Wholes
    /\ \A t \in OldTaggings, p \in Places : Offered(t[p], "compound")
    /\ \A t \in NewTaggings, p \in Places : Offered(t[p], "simple")
    /\ MaxSaves \in Nat /\ MaxRuns \in Nat

-----------------------------------------------------------------------------
(* State.                                                                  *)

VARIABLES
    rows,     \* the fragment rows, by fragment
    meter,    \* movement.meter
    reading,  \* how the deployed tagging tool reads 3/8
    run,      \* the script that is running, with what it has read
    tagged,   \* history: the extent each row was given
    clean,    \* history: the scripts that have reported no problem
    settled,  \* history: of these, the ones after which nothing has changed
    saves,    \* bounds saves
    runs      \* bounds executions

vars == <<rows, meter, reading, run, tagged, clean, settled, saves, runs>>

NoRun == [script |-> "none", rows |-> [f \in {} |-> f], meter |-> NoMeter]

Init ==
    /\ \E t \in [Legacy -> OldTaggings], sig \in Meters :
          rows = [f \in Legacy \X Places |-> Row(0, t[f[1]][f[2]], "compound", sig)]
    /\ tagged = [f \in DOMAIN rows |-> Extent(rows[f], "compound")]
    /\ meter \in Meters
    /\ reading = "compound"
    /\ run = NoRun
    /\ clean = {} /\ settled = {}
    /\ saves = 0 /\ runs = 0

-----------------------------------------------------------------------------
(* The application.                                                        *)

\* The tagging tool that counts three beats in 3/8 replaces the other.
Deploy ==
    /\ reading = "compound"
    /\ reading' = "simple"
    /\ UNCHANGED <<rows, meter, run, tagged, clean, settled, saves, runs>>

\* Rows inserted, or written over those of the same fragments.
Over(new, old) ==
    [f \in DOMAIN new \cup DOMAIN old |-> IF f \in DOMAIN new THEN new[f] ELSE old[f]]

\* A fragment is created or saved again: its row is updated, its sub-parts are
\* deleted and inserted anew.  Annotators are let in once the beats are converted.
Save(w, t) ==
    /\ reading = "simple" /\ "eighths" \in clean /\ saves < MaxSaves
    /\ LET new == [f \in {w} \X Places |->
                      Row(IF Stage(f) THEN saves + 1 ELSE 0, t[f[2]], reading,
                          MeterAt(t[f[2]].mcStart))]
       IN  /\ \A f \in DOMAIN new : Contained(new[f], new[Parent(f)])
           /\ rows' = Over(new, rows)
           /\ tagged' = Over([f \in DOMAIN new |-> Extent(new[f], reading)], tagged)
    /\ settled' = {}
    /\ saves' = saves + 1
    /\ UNCHANGED <<meter, reading, run, clean, runs>>

-----------------------------------------------------------------------------
(* The scripts.                                                            *)

\* The SELECT a script begins with, in the order the README of the directory
\* documents: a script waits for what the one before it repairs.
Begin(s) ==
    /\ run = NoRun /\ runs < MaxRuns
    /\ reading = "simple"
    /\ s = "summary_meter" => "movement_meter" \in clean
    /\ s = "clamp" => {"movement_meter", "eighths"} \subseteq clean
    /\ run' = [script |-> s, rows |-> rows, meter |-> meter]
    /\ runs' = runs + 1
    /\ UNCHANGED <<rows, meter, reading, tagged, clean, settled, saves>>

\* The rows after UPDATE ... WHERE id: `repaired` says what the columns of each
\* row that was read shall become; one that is gone or unchanged is not written.
Written(repaired, columns) ==
    [f \in DOMAIN rows |->
        IF f \in DOMAIN run.rows /\ run.rows[f].id = rows[f].id
                /\ repaired[f] # run.rows[f]
        THEN [c \in DOMAIN rows[f] |-> IF c \in columns THEN repaired[f][c] ELSE rows[f][c]]
        ELSE rows[f]]

\* The commit; `sound` when the script exits with 0, `informed` when it has read
\* the score, if it needs it.  Rows and record settle only under a run that saw
\* them as they are.
Commit(newRows, newMeter, sound, informed) ==
    LET changed == newRows # rows \/ newMeter # meter
        kept == IF changed THEN {} ELSE settled
        seen == run.rows = rows /\ run.meter = meter
    IN  /\ rows' = newRows /\ meter' = newMeter
        /\ clean' = IF sound THEN clean \cup {run.script} ELSE clean
        /\ settled' = IF sound /\ informed /\ seen THEN kept \cup {run.script} ELSE kept
        /\ run' = NoRun
        /\ UNCHANGED <<reading, tagged, saves, runs>>

\* The process dies, or the storage cannot be reached: nothing is committed.
Crash ==
    /\ run # NoRun
    /\ run' = NoRun
    /\ UNCHANGED <<rows, meter, reading, tagged, clean, settled, saves, runs>>

\* fix_movement_meter: an unreadable MEI, or one without a meter, is a problem.
RepairMovementMeter(readable) ==
    /\ run.script = "movement_meter"
    /\ LET known == readable /\ StartingMeter # NoMeter
       IN  Commit(rows, IF known /\ StartingMeter # run.meter THEN StartingMeter ELSE meter,
                  known, readable)

\* fix_summary_key_meter: the meter at the fragment's own measure, and the
\* record's where the MEI cannot be read.
LocalMeter(mc, readable) ==
    IF readable /\ MeterAt(mc) # NoMeter THEN MeterAt(mc) ELSE run.meter

WithMeter(f, readable) ==
    LET sig == LocalMeter(run.rows[f].mcStart, readable)
    IN  IF sig = NoMeter THEN run.rows[f] ELSE [run.rows[f] EXCEPT !.meter = sig]

RepairSummaryMeter(readable) ==
    /\ run.script = "summary_meter"
    /\ Commit(Written([f \in DOMAIN run.rows |-> WithMeter(f, readable)], {"meter"}),
              meter, TRUE, readable)

-----------------------------------------------------------------------------
(* fix_38_beat_coordinates.                                                *)

\* A point of the old grid: 1, 1 1/3, 1 2/3 or 2.
OldGrid == {6, 8, 10, 12}

Convert(beat) == 3 * beat - 12

InScope(mc, beat) == beat # NoBeat /\ MeterAt(mc) = DisputedMeter

Starts == {run.rows[f].beatStart : f \in
              {g \in DOMAIN run.rows : InScope(run.rows[g].mcStart, run.rows[g].beatStart)}}
Ends == {run.rows[f].beatEnd : f \in
            {g \in DOMAIN run.rows : InScope(run.rows[g].mcEnd, run.rows[g].beatEnd)}}

\* Fault: values that both encodings share are taken for the old one.
ClassifyGuessing(starts, ends) ==
    CASE starts \cup ends = {} -> "empty"
      [] (\E v \in starts \cup ends : v > 12) \/ 12 \in starts -> "new"
      [] OTHER -> "old"

\* Which encoding the movement's values are in, as far as they tell.
ClassifyMovement(starts, ends) ==
    CASE starts \cup ends = {} -> "empty"
      [] \E v \in starts \cup ends : v % 6 # 0 -> "old"
      [] (\A v \in starts \cup ends : v % 6 = 0)
            /\ ((\E v \in starts \cup ends : v > 12) \/ 12 \in starts) -> "new"
      [] OTHER -> "ambiguous"

Converted(f) ==
    LET row == run.rows[f]
    IN  [row EXCEPT
            !.beatStart = IF InScope(row.mcStart, @) THEN Convert(@) ELSE @,
            !.beatEnd = IF InScope(row.mcEnd, @) THEN Convert(@) ELSE @]

RepairEighths(readable) ==
    /\ run.script = "eighths"
    /\ LET disputed == \E i \in DOMAIN Declarations : MeterAt(Declarations[i].mc) = DisputedMeter
           state == IF disputed THEN ClassifyMovement(Starts, Ends) ELSE "empty"
           convertible == state = "old" /\ Starts \cup Ends \subseteq OldGrid
       IN  Commit(IF readable /\ convertible
                  THEN Written([f \in DOMAIN run.rows |-> Converted(f)],
                               {"beatStart", "beatEnd"})
                  ELSE rows,
                  meter,
                  DOMAIN run.rows = {} \/ (readable /\ (convertible \/ state \in {"empty", "new"})),
                  readable)

-----------------------------------------------------------------------------
(* clamp_subpart_bounds.                                                   *)

\* Fault: the clamp still reads 3/8 as one beat.
MeasureEndOneBeat(sig) ==
    IF sig = NoMeter THEN 30
    ELSE 6 * ((IF Compound(sig, "compound") THEN sig[1] \div 3 ELSE sig[1]) + 1)

\* measure_end_beat: 4/4 where the record has no meter.
MeasureEndBeat(sig) ==
    IF sig = NoMeter THEN 30
    ELSE 6 * ((IF Compound(sig, "simple") THEN sig[1] \div 3 ELSE sig[1]) + 1)

StartKey(row) == <<row.mcStart, IF row.beatStart = NoBeat THEN 6 ELSE row.beatStart>>
EndKey(row, end) == <<row.mcEnd, IF row.beatEnd = NoBeat THEN end ELSE row.beatEnd>>

\* The bounds of the parent where the child's lie outside them.
Clipped(child, parent, end) ==
    LET early == Earlier(StartKey(child), StartKey(parent))
        late  == Earlier(EndKey(parent, end), EndKey(child, end))
    IN  [child EXCEPT !.mcStart = IF early THEN parent.mcStart ELSE @,
                      !.beatStart = IF early THEN parent.beatStart ELSE @,
                      !.mcEnd = IF late THEN parent.mcEnd ELSE @,
                      !.beatEnd = IF late THEN parent.beatEnd ELSE @]

\* ADR-005: both beats null or both set.
Paired(row, end) ==
    [row EXCEPT
        !.beatStart = IF @ = NoBeat /\ row.beatEnd # NoBeat THEN 6 ELSE @,
        !.beatEnd = IF @ = NoBeat /\ row.beatStart # NoBeat THEN end ELSE @]

Outside(row, end) == ~Earlier(StartKey(row), EndKey(row, end))

\* clamp_to_parent; a stage entirely outside its fragment is left alone.
Clamped(f) ==
    LET end == MeasureEndBeat(run.meter)
        clipped == Clipped(run.rows[f], run.rows[Parent(f)], end)
    IN  IF ~Stage(f) \/ Outside(clipped, end) THEN run.rows[f] ELSE Paired(clipped, end)

Clamp ==
    /\ run.script = "clamp"
    /\ Commit(Written([f \in DOMAIN run.rows |-> Clamped(f)],
                      {"mcStart", "mcEnd", "beatStart", "beatEnd"}),
              meter,
              \A f \in DOMAIN run.rows : Stage(f) =>
                 ~Outside(Clipped(run.rows[f], run.rows[Parent(f)], MeasureEndBeat(run.meter)),
                          MeasureEndBeat(run.meter)),
              TRUE)

-----------------------------------------------------------------------------

Repair ==
    \/ \E s \in Scripts : Begin(s)
    \/ \E readable \in BOOLEAN :
          \/ RepairMovementMeter(readable)
          \/ RepairSummaryMeter(readable)
          \/ RepairEighths(readable)
    \/ Clamp
    \/ Crash

Next ==
    \/ Deploy
    \/ \E w \in Wholes, t \in NewTaggings : Save(w, t)
    \/ Repair

Spec == Init /\ [][Next]_vars

-----------------------------------------------------------------------------
(* Properties.                                                             *)

\* The movement keeps the meter it opens with, as all but two of the corpus do
\* (services/mei_meter.py).
OneMeter ==
    \A i \in DOMAIN Declarations :
        Declarations[1].mc = 1 /\ Declarations[i].sig = Declarations[1].sig

\* Once the conversion has reported success every row covers in the score what
\* it was tagged with, and once the clamp has, every stage covers what of that
\* lies within its fragment (fix_38_beat_coordinates: "the position each number
\* names in the score is the same before and after").
PositionsKept ==
    "eighths" \in clean =>
        \A f \in DOMAIN rows :
            LET own == Within(tagged[f], tagged[Parent(f)])
                now == Extent(rows[f], "simple")
            IN  now = own \/ (now = tagged[f] /\ "clamp" \notin clean)

\* A script that runs again after it has succeeded, with nothing changed in
\* between, writes nothing, whether or not the storage answers this time: all but
\* the repair of the summaries, which without the score falls back to the record
\* (fix_summary_key_meter.py:113) and so undoes what it did after a change of meter.
RerunsChangeNothing ==
    [][run.script \in settled /\ run' = NoRun =>
           UNCHANGED <<rows, meter>> \/ RepairSummaryMeter(FALSE)]_vars

=============================================================================
