------------------------- MODULE StoredRepairsProofs -------------------------
(***************************************************************************)
(* The repairs write nothing twice and keep every position, for any score, *)
(* any taggings that the tool offers, and any number of fragments, saves   *)
(* and runs.                                                               *)
(***************************************************************************)
EXTENDS StoredRepairs, TLAPS, NaturalsInduction, WellFoundedInduction

-----------------------------------------------------------------------------
(* What the state consists of.                                              *)

Sigs == (Nat \ {0}) \X {1, 2, 4, 8, 16, 32}
StoredMeters == {NoMeter} \cup ((Nat \ {0}) \X (Nat \ {0}))
Beats == {b \in Nat : b = NoBeat \/ b >= 6}
RowType == [id : Nat, mcStart : Nat \ {0}, mcEnd : Nat \ {0}, meter : StoredMeters,
            beatStart : Beats, beatEnd : Beats]
ExtentType == [mcStart : Nat \ {0}, mcEnd : Nat \ {0}, from : Int, to : Int]

\* Rows come with their parents.
RowsOk(R) ==
    /\ R = [f \in DOMAIN R |-> R[f]]
    /\ DOMAIN R \subseteq Fragments
    /\ \A f \in DOMAIN R : R[f] \in RowType /\ Parent(f) \in DOMAIN R

TypeInv ==
    /\ RowsOk(rows) /\ RowsOk(run.rows)
    /\ meter \in StoredMeters /\ run.meter \in StoredMeters
    /\ run = NoRun \/ run.script \in Scripts
    /\ settled \subseteq Scripts
    /\ saves \in Nat

-----------------------------------------------------------------------------
(* Scripts that have settled.                                               *)

\* The meter that the repair of the summaries wants, where it can read the score.
Wanted(mc, m) == IF MeterAt(mc) # NoMeter THEN MeterAt(mc) ELSE m

\* The clamp of rows R under the meter m.
ClampedIn(R, m, f) ==
    LET end == MeasureEndBeat(m)
        clipped == Clipped(R[f], R[Parent(f)], end)
    IN  IF ~Stage(f) \/ Outside(clipped, end) THEN R[f] ELSE Paired(clipped, end)

Disputed == \E i \in DOMAIN Declarations : MeterAt(Declarations[i].mc) = DisputedMeter

\* No beat of a row is one that the conversion acts on.
WholeBeats(row) ==
    /\ InScope(row.mcStart, row.beatStart) => row.beatStart % 6 = 0
    /\ InScope(row.mcEnd, row.beatEnd) => row.beatEnd % 6 = 0

\* What a script leaves, in rows R and with m on record, when it has settled:
\* nothing that it would write again.
RestsIn(s, R, m) ==
    /\ s = "movement_meter" => m = StartingMeter
    /\ s = "summary_meter" =>
          \A f \in DOMAIN R : Wanted(R[f].mcStart, m) \in {NoMeter, R[f].meter}
    /\ s = "eighths" /\ Disputed => \A f \in DOMAIN R : WholeBeats(R[f])
    /\ s = "clamp" => \A f \in DOMAIN R : ClampedIn(R, m, f) = R[f]

\* A script that has settled and runs again has read what is there.
RestInv ==
    /\ \A s \in settled : RestsIn(s, rows, meter)
    /\ run.script \in settled => run.rows = rows /\ run.meter = meter

-----------------------------------------------------------------------------
(* Positions.                                                               *)

\* A row that the old tool left: where it counted 3/8 as one beat, it stored the
\* thirds of it.
OldRow(f) ==
    /\ rows[f].id = 0
    /\ Extent(rows[f], "compound") = tagged[f]
    /\ InScope(rows[f].mcStart, rows[f].beatStart) => rows[f].beatStart \in {6, 8, 10}
    /\ InScope(rows[f].mcEnd, rows[f].beatEnd) => rows[f].beatEnd \in {8, 10, 12}

\* No row still shows a third of the old beat.
NoThirds(row) ==
    /\ InScope(row.mcStart, row.beatStart) => row.beatStart \notin {8, 10}
    /\ InScope(row.mcEnd, row.beatEnd) => row.beatEnd \notin {8, 10}

\* Before the conversion nothing but the displayed meter of a row changes.
BeforeInv ==
    "eighths" \notin clean =>
        /\ "clamp" \notin clean
        /\ \A f \in DOMAIN rows : OldRow(f)
        /\ run # NoRun => run.rows = rows /\ run.script # "clamp"

Own(f) == Within(tagged[f], tagged[Parent(f)])
Now(f) == Extent(rows[f], "simple")

\* After it fragments are where they were tagged, and so are their stages until
\* the clamp; what was saved since then is where it was tagged in any case.
AfterInv ==
    "eighths" \in clean =>
        /\ \A f \in DOMAIN rows : NoThirds(rows[f])
        /\ \A f \in DOMAIN run.rows : NoThirds(run.rows[f])
        /\ \A f \in DOMAIN rows :
              IF Stage(f)
              THEN Now(f) = Own(f) \/ (Now(f) = tagged[f] /\ "clamp" \notin clean /\ rows[f].id = 0)
              ELSE Now(f) = tagged[f]

\* What a script has read is still there unless the fragment was saved since,
\* which gives its stages new ids.
SnapshotInv ==
    /\ \A f \in DOMAIN rows : rows[f].id <= saves
    /\ \A f \in DOMAIN run.rows : run.rows[f].id <= saves
    /\ DOMAIN run.rows \subseteq DOMAIN rows
    /\ \A f \in DOMAIN run.rows :
          Stage(f) /\ rows[f].id = run.rows[f].id =>
              rows[f] = run.rows[f] /\ rows[Parent(f)] = run.rows[Parent(f)]
    /\ run # NoRun => \A f \in DOMAIN rows :
          Stage(f) /\ rows[f].id = 0 => f \in DOMAIN run.rows /\ run.rows[f].id = 0

\* The clamp measures with the meter of the score.
RecordInv ==
    /\ run # NoRun => run.meter = meter
    /\ "movement_meter" \in clean => meter = StartingMeter /\ StartingMeter # NoMeter
    /\ run.script = "clamp" => /\ run.meter = StartingMeter /\ StartingMeter # NoMeter
                               /\ "eighths" \in clean

TaggedInv ==
    /\ DOMAIN tagged = DOMAIN rows
    /\ \A f \in DOMAIN rows : tagged[f] \in ExtentType

PlaceInv == TaggedInv /\ RecordInv /\ SnapshotInv /\ BeforeInv /\ AfterInv


-----------------------------------------------------------------------------
(* Meters.                                                                  *)

\* The least and the greatest of some natural numbers.
LEMMA LeastNat ==
  ASSUME NEW T \in SUBSET Nat, T # {}
  PROVE  \E n \in T : \A m \in T : n <= m
  <1>1. IsWellFoundedOn(OpToRel(<, Nat), Nat)
    BY NatLessThanWellFounded
  <1>2. \E n \in T : \A m \in T : ~(<<m, n>> \in OpToRel(<, Nat))
    BY <1>1, WFMin
  <1>3. \A m, n \in T : ~(<<m, n>> \in OpToRel(<, Nat)) => n <= m
    BY DEF OpToRel
  <1>4. QED
    BY <1>2, <1>3

LEMMA GreatestNat ==
  ASSUME NEW n \in Nat, NEW T \in SUBSET (1..n), T # {}
  PROVE  \E x \in T : \A y \in T : y <= x
  <1> DEFINE S == {k \in Nat : n - k \in T}
  <1>1. S \in SUBSET Nat /\ S # {}
    <2>1. PICK x \in T : TRUE
      OBVIOUS
    <2>2. n - x \in Nat /\ n - (n - x) = x
      BY <2>1
    <2>3. QED
      BY <2>1, <2>2
  <1>2. PICK k \in S : \A m \in S : k <= m
    BY <1>1, LeastNat
  <1>3. ASSUME NEW y \in T PROVE y <= n - k
    <2>1. n - y \in Nat /\ n - (n - y) = y
      OBVIOUS
    <2>2. k <= n - y
      BY <1>2, <2>1
    <2>3. QED
      BY <1>2, <2>2
  <1>4. QED
    BY <1>2, <1>3

LEMMA DeclarationTypes ==
  /\ DOMAIN Declarations = 1..Len(Declarations) /\ Len(Declarations) \in Nat
  /\ \A i \in DOMAIN Declarations :
        Declarations[i].mc \in Nat \ {0} /\ Declarations[i].sig \in Sigs
  <1> DEFINE R == [mc : Nat \ {0}, sig : Sigs]
  <1>1. Declarations \in Seq(R)
    BY RepairsAssumption DEF Sigs
  <1>2. DOMAIN Declarations = 1..Len(Declarations) /\ Len(Declarations) \in Nat
        /\ \A i \in DOMAIN Declarations : Declarations[i] \in R
    <2> HIDE DEF R
    <2>1. QED
      BY <1>1
  <1>3. QED
    BY <1>2

\* The declaration in force at a measure.
LEMMA Reached ==
  ASSUME NEW mc \in Nat \ {0}
  PROVE  \/ /\ MeterAt(mc) = NoMeter
            /\ \A i \in DOMAIN Declarations : ~(Declarations[i].mc <= mc)
         \/ \E i \in DOMAIN Declarations :
               /\ Declarations[i].mc <= mc
               /\ \A j \in DOMAIN Declarations : Declarations[j].mc <= mc => j <= i
               /\ MeterAt(mc) = Declarations[i].sig
  <1> DEFINE T == {i \in DOMAIN Declarations : Declarations[i].mc <= mc}
             last == CHOOSE i \in T : \A j \in T : j <= i
  <1>1. CASE T = {}
    BY <1>1 DEF MeterAt, InForce
  <1>2. CASE T # {}
    <2>1. \E x \in T : \A y \in T : y <= x
      BY <1>2, DeclarationTypes, GreatestNat
    <2>2. last \in T /\ \A y \in T : y <= last
      BY <2>1
    <2>3. MeterAt(mc) = Declarations[last].sig
      BY <1>2 DEF MeterAt, InForce
    <2>4. QED
      BY <2>2, <2>3
  <1>3. QED
    BY <1>1, <1>2

LEMMA MeterTypes ==
  ASSUME NEW mc \in Nat \ {0}
  PROVE  /\ MeterAt(mc) \in Sigs \cup {NoMeter} /\ MeterAt(mc) \in StoredMeters
         /\ Counted(mc) \in Sigs
         /\ MeterAt(mc) \in Sigs => Counted(mc) = MeterAt(mc)
  <1>1. MeterAt(mc) \in Sigs \cup {NoMeter}
    BY Reached, DeclarationTypes
  <1>2. NoMeter \notin Sigs /\ <<4, 4>> \in Sigs /\ Sigs \subseteq StoredMeters
    BY DEF NoMeter, Sigs, StoredMeters
  <1>3. QED
    BY <1>1, <1>2 DEF Counted, StoredMeters

LEMMA StartType ==
  /\ StartingMeter \in Sigs \cup {NoMeter}
  /\ StartingMeter \in StoredMeters
  <1>1. CASE Declarations = <<>>
    BY <1>1 DEF StartingMeter, StoredMeters
  <1>2. CASE Declarations # <<>>
    <2>1. 1 \in DOMAIN Declarations
      BY <1>2, RepairsAssumption
    <2>2. QED
      BY <1>2, <2>1, DeclarationTypes, MeterTypes DEF StartingMeter
  <1>3. QED
    BY <1>1, <1>2

\* fix_38_beat_coordinates looks for the meter in the timeline: where it is not
\* there, no measure has it.
LEMMA Undisputed ==
  ASSUME ~Disputed, NEW mc \in Nat \ {0}
  PROVE  MeterAt(mc) # DisputedMeter
  <1>1. SUFFICES ASSUME MeterAt(mc) = DisputedMeter PROVE FALSE
    OBVIOUS
  <1>2. MeterAt(mc) # NoMeter
    BY <1>1 DEF DisputedMeter, NoMeter
  <1>3. PICK i \in DOMAIN Declarations :
          /\ Declarations[i].mc <= mc
          /\ \A j \in DOMAIN Declarations : Declarations[j].mc <= mc => j <= i
          /\ MeterAt(mc) = Declarations[i].sig
    BY <1>2, Reached
  <1> DEFINE m == Declarations[i].mc
  <1>4. m \in Nat \ {0} /\ m <= mc
    BY <1>3, DeclarationTypes
  <1>5. PICK k \in DOMAIN Declarations :
          /\ Declarations[k].mc <= m
          /\ \A j \in DOMAIN Declarations : Declarations[j].mc <= m => j <= k
          /\ MeterAt(m) = Declarations[k].sig
    <2>1. Declarations[i].mc <= m
      BY <1>4
    <2>2. QED
      BY <1>4, <2>1, Reached
  <1>6. i <= k /\ k <= i /\ i \in Nat /\ k \in Nat
    <2>1. Declarations[k].mc \in Nat /\ Declarations[k].mc <= mc
      BY <1>4, <1>5, DeclarationTypes
    <2>2. QED
      BY <1>3, <1>4, <1>5, <2>1, DeclarationTypes
  <1>7. MeterAt(m) = DisputedMeter
    BY <1>1, <1>3, <1>5, <1>6
  <1>8. QED
    BY <1>7 DEF Disputed

\* In a movement that keeps its meter this is the meter of every measure.
LEMMA MeterEverywhere ==
  ASSUME OneMeter, StartingMeter # NoMeter, NEW mc \in Nat \ {0}
  PROVE  Counted(mc) = StartingMeter /\ MeterAt(mc) = StartingMeter
  <1>1. 1 \in DOMAIN Declarations /\ Declarations # <<>>
    BY RepairsAssumption DEF StartingMeter
  <1>2. Declarations[1].mc = 1 /\ \A i \in DOMAIN Declarations : Declarations[i].sig = Declarations[1].sig
    BY <1>1 DEF OneMeter
  <1>3. ASSUME NEW c \in Nat \ {0} PROVE MeterAt(c) = Declarations[1].sig
    <2>1. Declarations[1].mc <= c
      BY <1>2
    <2>2. QED
      BY <1>1, <1>2, <2>1, Reached
  <1>4. StartingMeter = Declarations[1].sig
    BY <1>1, <1>2, <1>3 DEF StartingMeter
  <1>5. Declarations[1].sig \in Sigs
    BY <1>1, DeclarationTypes
  <1>6. QED
    BY <1>3, <1>4, <1>5, MeterTypes

-----------------------------------------------------------------------------
(* Beats and ticks.                                                         *)

LEMMA GrainType ==
  ASSUME NEW sig \in Sigs, NEW how
  PROVE  Grain(sig, how) \in Nat \ {0}
  BY DEF Sigs, Grain

\* The two readings differ on 3/8 only.
LEMMA GrainsAgree ==
  ASSUME NEW sig \in Sigs
  PROVE  /\ sig # DisputedMeter => Grain(sig, "compound") = Grain(sig, "simple")
         /\ sig = DisputedMeter => Grain(sig, "compound") = 12 /\ Grain(sig, "simple") = 4
  <1>1. sig = <<sig[1], sig[2]>> /\ sig[1] \in Nat \ {0} /\ sig[2] \in {1, 2, 4, 8, 16, 32}
    BY DEF Sigs
  <1>2. CASE sig = DisputedMeter
    BY <1>2 DEF DisputedMeter, Grain, Compound
  <1>3. CASE sig # DisputedMeter
    <2>1. ~(sig[1] = 3 /\ sig[2] = 8)
      BY <1>1, <1>3 DEF DisputedMeter
    <2>2. Compound(sig, "compound") = Compound(sig, "simple")
      <3>1. sig[1] % 3 = 0 /\ ~(sig[1] >= 6) => sig[1] = 3
        BY <1>1
      <3>2. QED
        BY <2>1, <3>1 DEF Compound
    <2>3. QED
      BY <1>3, <2>2 DEF Grain
  <1>4. QED
    BY <1>2, <1>3

\* The clamp's end of a measure is the bar line.
LEMMA BeatsOfBar ==
  ASSUME NEW n \in Nat, NEW g \in Nat
  PROVE  (6 * (n + 1) - 6) * g = n * (6 * g) /\ n * (6 * g) \in Nat
  <1>1. 6 * (n + 1) - 6 = 6 * n
    OBVIOUS
  <1>2. (6 * n) * g = n * (6 * g) /\ n * (6 * g) \in Nat
    OBVIOUS
  <1>3. QED
    BY <1>1, <1>2

LEMMA FullBar ==
  ASSUME NEW sig \in Sigs
  PROVE  /\ MeasureEndBeat(sig) \in Nat /\ MeasureEndBeat(sig) >= 6
         /\ MeasureEndBeat(sig) % 6 = 0
         /\ BarLength(sig) \in Nat
         /\ (MeasureEndBeat(sig) - 6) * Grain(sig, "simple") = BarLength(sig)
  <1> DEFINE n == sig[1]
             u == sig[2]
  <1>1. n \in Nat \ {0} /\ u \in {1, 2, 4, 8, 16, 32} /\ sig # NoMeter
    BY DEF Sigs, NoMeter
  <1>2. CASE Compound(sig, "simple")
    <2>1. u = 8 /\ n % 3 = 0
      BY <1>2 DEF Compound
    <2>2. PICK k \in Nat : n = 3 * k /\ n \div 3 = k
      BY <1>1, <2>1
    <2>3. MeasureEndBeat(sig) = 6 * (k + 1) /\ Grain(sig, "simple") = 12
      BY <1>1, <1>2, <2>2 DEF MeasureEndBeat, Grain
    <2>4. BarLength(sig) = 24 * n
      BY <1>1, <2>1 DEF BarLength
    <2>5. QED
      BY <1>1, <2>2, <2>3, <2>4
  <1>3. CASE ~Compound(sig, "simple")
    <2>1. MeasureEndBeat(sig) = 6 * (n + 1) /\ Grain(sig, "simple") = 32 \div u
      BY <1>1, <1>3 DEF MeasureEndBeat, Grain
    <2>2. BarLength(sig) = n * (192 \div u)
      BY DEF BarLength
    <2>3. 192 \div u = 6 * (32 \div u) /\ 32 \div u \in Nat
      BY <1>1
    <2>4. QED
      <3>1. (6 * (n + 1) - 6) * (32 \div u) = n * (6 * (32 \div u)) /\ n * (6 * (32 \div u)) \in Nat
        BY <1>1, <2>3, BeatsOfBar
      <3>2. 6 * (n + 1) \in Nat /\ 6 * (n + 1) >= 6 /\ (6 * (n + 1)) % 6 = 0
        BY <1>1
      <3>3. QED
        BY <2>1, <2>2, <2>3, <3>1, <3>2
  <1>4. QED
    BY <1>2, <1>3

-----------------------------------------------------------------------------
(* Rows.                                                                    *)

\* What is offered lies in its bars, on the grid.
LEMMA OfferedBounds ==
  ASSUME NEW e, NEW how, Offered(e, how)
  PROVE  /\ e.mcStart \in Nat \ {0} /\ e.mcEnd \in Nat \ {0}
         /\ e.from # Edge => /\ e.from \in Nat /\ e.from < BarLength(Counted(e.mcStart))
                             /\ e.from % Step(Counted(e.mcStart), how) = 0
         /\ e.to # Edge => /\ e.to \in Nat /\ 1 <= e.to /\ e.to <= BarLength(Counted(e.mcEnd))
                           /\ e.to % Step(Counted(e.mcEnd), how) = 0
  <1>1. e.mcStart \in Nat \ {0} /\ e.mcEnd \in Nat \ {0}
    BY DEF Offered
  <1>2. BarLength(Counted(e.mcStart)) \in Nat /\ BarLength(Counted(e.mcEnd)) \in Nat
    BY <1>1, MeterTypes, FullBar
  <1>3. QED
    BY <1>1, <1>2 DEF Offered

LEMMA Division ==
  ASSUME NEW a \in Nat, NEW g \in Nat \ {0}
  PROVE  a \div g \in Nat /\ (a \div g) * g \in Nat /\ (a \div g) * g <= a
  OBVIOUS

LEMMA RowTyped ==
  ASSUME NEW e, NEW how, Offered(e, how), NEW id \in Nat, NEW m \in StoredMeters
  PROVE  Row(id, e, how, m) \in RowType
  <1>1. \A mc \in Nat \ {0}, ticks \in Nat : BeatAt(mc, ticks, how) \in Nat
                                             /\ BeatAt(mc, ticks, how) >= 6
    BY MeterTypes, GrainType, Division DEF BeatAt
  <1>2. QED
    BY <1>1, OfferedBounds DEF Row, RowType, Beats, NoBeat

LEMMA ExtentTyped ==
  ASSUME NEW r \in RowType, NEW how
  PROVE  Extent(r, how) \in ExtentType
  <1>1. r.mcStart \in Nat \ {0} /\ r.mcEnd \in Nat \ {0} /\ r.beatStart \in Nat /\ r.beatEnd \in Nat
    BY DEF RowType, Beats
  <1>2. BarLength(Counted(r.mcEnd)) \in Nat
    BY <1>1, MeterTypes, FullBar
  <1>3. /\ TicksAt(r.mcStart, r.beatStart, how) \in Int
        /\ TicksAt(r.mcEnd, r.beatEnd, how) \in Int
    <2>1. Grain(Counted(r.mcStart), how) \in Int /\ Grain(Counted(r.mcEnd), how) \in Int
      BY <1>1, MeterTypes, GrainType
    <2>2. QED
      BY <1>1, <2>1 DEF TicksAt
  <1>4. QED
    BY <1>1, <1>2, <1>3 DEF Extent, ExtentType

\* An UPDATE takes some of a row's columns from another.
LEMMA Columns ==
  ASSUME NEW a \in RowType, NEW b \in RowType, NEW cols
  PROVE  [c \in DOMAIN a |-> IF c \in cols THEN b[c] ELSE a[c]] =
         [id |-> IF "id" \in cols THEN b.id ELSE a.id,
          mcStart |-> IF "mcStart" \in cols THEN b.mcStart ELSE a.mcStart,
          mcEnd |-> IF "mcEnd" \in cols THEN b.mcEnd ELSE a.mcEnd,
          meter |-> IF "meter" \in cols THEN b.meter ELSE a.meter,
          beatStart |-> IF "beatStart" \in cols THEN b.beatStart ELSE a.beatStart,
          beatEnd |-> IF "beatEnd" \in cols THEN b.beatEnd ELSE a.beatEnd]
  <1>1. DOMAIN a = {"id", "mcStart", "mcEnd", "meter", "beatStart", "beatEnd"}
    BY DEF RowType
  <1>2. QED
    BY <1>1

LEMMA SameRow ==
  ASSUME NEW a \in RowType, NEW b \in RowType, a.id = b.id, a.mcStart = b.mcStart, a.mcEnd = b.mcEnd,
         a.meter = b.meter, a.beatStart = b.beatStart, a.beatEnd = b.beatEnd
  PROVE  a = b
  BY DEF RowType

LEMMA Mixed ==
  ASSUME NEW a \in RowType, NEW b \in RowType, NEW cols
  PROVE  LET x == [c \in DOMAIN a |-> IF c \in cols THEN b[c] ELSE a[c]]
         IN  /\ x \in RowType
             /\ x.id = IF "id" \in cols THEN b.id ELSE a.id
             /\ x.mcStart = IF "mcStart" \in cols THEN b.mcStart ELSE a.mcStart
             /\ x.mcEnd = IF "mcEnd" \in cols THEN b.mcEnd ELSE a.mcEnd
             /\ x.meter = IF "meter" \in cols THEN b.meter ELSE a.meter
             /\ x.beatStart = IF "beatStart" \in cols THEN b.beatStart ELSE a.beatStart
             /\ x.beatEnd = IF "beatEnd" \in cols THEN b.beatEnd ELSE a.beatEnd
  BY Columns DEF RowType

-----------------------------------------------------------------------------
(* What the scripts make of a row.                                          *)

LEMMA MeterFound ==
  ASSUME NEW m \in StoredMeters, run.meter = m, NEW mc \in Nat \ {0}, NEW readable \in BOOLEAN
  PROVE  LocalMeter(mc, readable) \in StoredMeters
  BY MeterTypes DEF LocalMeter

LEMMA WithMeterTyped ==
  ASSUME TypeInv, NEW f \in DOMAIN run.rows, NEW readable \in BOOLEAN
  PROVE  /\ WithMeter(f, readable) \in RowType
         /\ \A c \in DOMAIN run.rows[f] : c # "meter" => WithMeter(f, readable)[c] = run.rows[f][c]
         /\ LET sig == LocalMeter(run.rows[f].mcStart, readable)
            IN  WithMeter(f, readable).meter = IF sig = NoMeter THEN run.rows[f].meter ELSE sig
  <1>1. run.rows[f] \in RowType
    BY DEF TypeInv, RowsOk
  <1>2. LocalMeter(run.rows[f].mcStart, readable) \in StoredMeters
    BY <1>1, MeterFound DEF TypeInv, RowType
  <1>3. QED
    BY <1>1, <1>2 DEF WithMeter, RowType

\* When the conversion writes, what it then writes, and when it exits with 0.
Convertible ==
    Disputed /\ ClassifyMovement(Starts, Ends) = "old" /\ Starts \cup Ends \subseteq OldGrid
EighthsRows(readable) ==
    IF readable /\ Convertible
    THEN Written([f \in DOMAIN run.rows |-> Converted(f)], {"beatStart", "beatEnd"})
    ELSE rows
EighthsSound(readable) ==
    DOMAIN run.rows = {}
    \/ (readable /\ (Convertible \/ ~Disputed \/ ClassifyMovement(Starts, Ends) \in {"empty", "new"}))

LEMMA EighthsCommit ==
  ASSUME NEW readable \in BOOLEAN, RepairEighths(readable)
  PROVE  /\ run.script = "eighths"
         /\ Commit(EighthsRows(readable), meter, EighthsSound(readable), readable)
  <1> DEFINE state == IF Disputed THEN ClassifyMovement(Starts, Ends) ELSE "empty"
             convertible == state = "old" /\ Starts \cup Ends \subseteq OldGrid
             new == IF readable /\ convertible
                    THEN Written([f \in DOMAIN run.rows |-> Converted(f)], {"beatStart", "beatEnd"})
                    ELSE rows
             sound == DOMAIN run.rows = {} \/ (readable /\ (convertible \/ state \in {"empty", "new"}))
  <1>1. run.script = "eighths" /\ Commit(new, meter, sound, readable)
    BY DEF RepairEighths, Disputed
  <1>2. convertible <=> Convertible
    BY DEF Convertible
  <1>3. new = EighthsRows(readable)
    BY <1>2 DEF EighthsRows
  <1>4. sound <=> EighthsSound(readable)
    BY <1>2 DEF EighthsSound
  <1> HIDE DEF new, sound
  <1>5. QED
    BY <1>1, <1>3, <1>4 DEF Commit

LEMMA InScopeOnGrid ==
  ASSUME Starts \cup Ends \subseteq OldGrid, NEW f \in DOMAIN run.rows
  PROVE  /\ InScope(run.rows[f].mcStart, run.rows[f].beatStart) => run.rows[f].beatStart \in {6, 8, 10, 12}
         /\ InScope(run.rows[f].mcEnd, run.rows[f].beatEnd) => run.rows[f].beatEnd \in {6, 8, 10, 12}
  BY DEF Starts, Ends, OldGrid

LEMMA ConvertedTyped ==
  ASSUME TypeInv, NEW f \in DOMAIN run.rows, Starts \cup Ends \subseteq OldGrid
  PROVE  LET old == run.rows[f]
             new == Converted(f)
         IN  /\ new \in RowType
             /\ \A c \in DOMAIN old : c \notin {"beatStart", "beatEnd"} => new[c] = old[c]
             /\ new.beatStart = IF InScope(old.mcStart, old.beatStart)
                                THEN 3 * old.beatStart - 12 ELSE old.beatStart
             /\ new.beatEnd = IF InScope(old.mcEnd, old.beatEnd)
                              THEN 3 * old.beatEnd - 12 ELSE old.beatEnd
             /\ InScope(old.mcStart, old.beatStart) => new.beatStart \in {6, 12, 18, 24}
             /\ InScope(old.mcEnd, old.beatEnd) => new.beatEnd \in {6, 12, 18, 24}
  <1> DEFINE old == run.rows[f]
             bs == IF InScope(old.mcStart, old.beatStart) THEN 3 * old.beatStart - 12 ELSE old.beatStart
             be == IF InScope(old.mcEnd, old.beatEnd) THEN 3 * old.beatEnd - 12 ELSE old.beatEnd
  <1>1. old \in RowType
    BY DEF TypeInv, RowsOk
  <1>2. InScope(old.mcStart, old.beatStart) => bs \in {6, 12, 18, 24}
    BY InScopeOnGrid
  <1>3. InScope(old.mcEnd, old.beatEnd) => be \in {6, 12, 18, 24}
    BY InScopeOnGrid
  <1>4. bs \in Beats /\ be \in Beats
    BY <1>1, <1>2, <1>3 DEF RowType, Beats, NoBeat
  <1>5. Converted(f) = [old EXCEPT !.beatStart = bs, !.beatEnd = be]
    BY <1>1 DEF Converted, Convert, RowType
  <1> HIDE DEF bs, be
  <1>6. /\ Converted(f) \in RowType
        /\ Converted(f).beatStart = bs /\ Converted(f).beatEnd = be
        /\ \A c \in DOMAIN old : c \notin {"beatStart", "beatEnd"} => Converted(f)[c] = old[c]
    BY <1>1, <1>4, <1>5 DEF RowType
  <1>7. QED
    BY <1>2, <1>3, <1>6 DEF bs, be

LEMMA MeasureEndTyped ==
  ASSUME NEW m \in StoredMeters
  PROVE  MeasureEndBeat(m) \in Beats /\ MeasureEndBeat(m) >= 6 /\ MeasureEndBeat(m) % 6 = 0
  <1>1. CASE m = NoMeter
    BY <1>1 DEF MeasureEndBeat, Beats
  <1>2. CASE m # NoMeter
    <2>1. m[1] \in Nat
      BY <1>2 DEF StoredMeters
    <2> DEFINE n == IF Compound(m, "simple") THEN m[1] \div 3 ELSE m[1]
    <2>2. n \in Nat
      BY <2>1
    <2>3. MeasureEndBeat(m) = 6 * (n + 1)
      BY <1>2 DEF MeasureEndBeat
    <2> HIDE DEF n
    <2>4. QED
      BY <2>2, <2>3 DEF Beats
  <1>3. QED
    BY <1>1, <1>2

\* What the clamp makes of a stage, column by column.
LEMMA ClippedIs ==
  ASSUME NEW c \in RowType, NEW p \in RowType, NEW end \in Beats
  PROVE  LET early == Earlier(StartKey(c), StartKey(p))
             late == Earlier(EndKey(p, end), EndKey(c, end))
             x == Clipped(c, p, end)
         IN  /\ x \in RowType /\ x.id = c.id /\ x.meter = c.meter
             /\ x.mcStart = IF early THEN p.mcStart ELSE c.mcStart
             /\ x.beatStart = IF early THEN p.beatStart ELSE c.beatStart
             /\ x.mcEnd = IF late THEN p.mcEnd ELSE c.mcEnd
             /\ x.beatEnd = IF late THEN p.beatEnd ELSE c.beatEnd
  <1> DEFINE early == Earlier(StartKey(c), StartKey(p))
             late == Earlier(EndKey(p, end), EndKey(c, end))
  <1>1. Clipped(c, p, end) =
          [c EXCEPT !.mcStart = IF early THEN p.mcStart ELSE c.mcStart,
                    !.beatStart = IF early THEN p.beatStart ELSE c.beatStart,
                    !.mcEnd = IF late THEN p.mcEnd ELSE c.mcEnd,
                    !.beatEnd = IF late THEN p.beatEnd ELSE c.beatEnd]
    BY DEF Clipped, RowType
  <1> HIDE DEF early, late
  <1>2. QED
    BY <1>1 DEF RowType, early, late

LEMMA PairedIs ==
  ASSUME NEW r \in RowType, NEW end \in Beats
  PROVE  LET x == Paired(r, end)
         IN  /\ x \in RowType /\ x.id = r.id /\ x.meter = r.meter
             /\ x.mcStart = r.mcStart /\ x.mcEnd = r.mcEnd
             /\ x.beatStart = IF r.beatStart = NoBeat /\ r.beatEnd # NoBeat THEN 6 ELSE r.beatStart
             /\ x.beatEnd = IF r.beatEnd = NoBeat /\ r.beatStart # NoBeat THEN end ELSE r.beatEnd
  <1>1. 6 \in Beats
    BY DEF Beats
  <1>2. Paired(r, end) =
          [r EXCEPT !.beatStart = IF r.beatStart = NoBeat /\ r.beatEnd # NoBeat THEN 6 ELSE r.beatStart,
                    !.beatEnd = IF r.beatEnd = NoBeat /\ r.beatStart # NoBeat THEN end ELSE r.beatEnd]
    BY DEF Paired, RowType
  <1>3. QED
    BY <1>1, <1>2 DEF RowType

\* Filling in a bound does not move it.
LEMMA PairedKeys ==
  ASSUME NEW r \in RowType, NEW end \in Beats, end >= 6
  PROVE  StartKey(Paired(r, end)) = StartKey(r) /\ EndKey(Paired(r, end), end) = EndKey(r, end)
  BY PairedIs DEF StartKey, EndKey, NoBeat

LEMMA ClippedKeys ==
  ASSUME NEW c \in RowType, NEW p \in RowType, NEW end \in Beats
  PROVE  /\ StartKey(Clipped(c, p, end)) =
              IF Earlier(StartKey(c), StartKey(p)) THEN StartKey(p) ELSE StartKey(c)
         /\ EndKey(Clipped(c, p, end), end) =
              IF Earlier(EndKey(p, end), EndKey(c, end)) THEN EndKey(p, end) ELSE EndKey(c, end)
  BY ClippedIs DEF StartKey, EndKey

LEMMA KeyTypes ==
  ASSUME NEW r \in RowType, NEW end \in Beats
  PROVE  StartKey(r) \in Nat \X Nat /\ EndKey(r, end) \in Nat \X Nat
  BY DEF StartKey, EndKey, RowType, Beats

\* The clamp leaves a stage it has clamped alone.
LEMMA ClampOnce ==
  ASSUME NEW c \in RowType, NEW p \in RowType, NEW end \in Beats, end >= 6
  PROVE  LET x == Paired(Clipped(c, p, end), end)
         IN  x \in RowType /\ Paired(Clipped(x, p, end), end) = x
  <1> DEFINE y == Clipped(c, p, end)
             x == Paired(y, end)
             z == Clipped(x, p, end)
  <1>1. y \in RowType
    BY ClippedIs
  <1>2. x \in RowType
    BY <1>1, PairedIs
  <1>3. StartKey(x) = StartKey(y) /\ EndKey(x, end) = EndKey(y, end)
    BY <1>1, PairedKeys
  <1>4. ~Earlier(StartKey(x), StartKey(p)) /\ ~Earlier(EndKey(p, end), EndKey(x, end))
    <2>1. \A a, b \in Nat \X Nat : ~Earlier(a, a)
      BY DEF Earlier
    <2>2. QED
      BY <1>3, <2>1, ClippedKeys, KeyTypes
  <1>5. z = x
    <2> HIDE DEF x
    <2>1. /\ z \in RowType /\ z.id = x.id /\ z.meter = x.meter
          /\ z.mcStart = x.mcStart /\ z.beatStart = x.beatStart
          /\ z.mcEnd = x.mcEnd /\ z.beatEnd = x.beatEnd
      BY <1>2, <1>4, ClippedIs
    <2>2. QED
      BY <1>2, <2>1, SameRow
  <1>6. Paired(x, end) = x
    <2> DEFINE w == Paired(x, end)
    <2>1. /\ x.beatStart = IF y.beatStart = NoBeat /\ y.beatEnd # NoBeat THEN 6 ELSE y.beatStart
          /\ x.beatEnd = IF y.beatEnd = NoBeat /\ y.beatStart # NoBeat THEN end ELSE y.beatEnd
      BY <1>1, PairedIs
    <2> HIDE DEF x
    <2>2. /\ w \in RowType /\ w.id = x.id /\ w.meter = x.meter
          /\ w.mcStart = x.mcStart /\ w.mcEnd = x.mcEnd
          /\ w.beatStart = IF x.beatStart = NoBeat /\ x.beatEnd # NoBeat THEN 6 ELSE x.beatStart
          /\ w.beatEnd = IF x.beatEnd = NoBeat /\ x.beatStart # NoBeat THEN end ELSE x.beatEnd
      BY <1>2, PairedIs
    <2>3. w.beatStart = x.beatStart /\ w.beatEnd = x.beatEnd
      BY <2>1, <2>2 DEF NoBeat
    <2>4. QED
      BY <1>2, <2>2, <2>3, SameRow
  <1>7. QED
    BY <1>2, <1>5, <1>6

\* What the clamp has for a row it has read.
LEMMA ClampedTyped ==
  ASSUME NEW R, RowsOk(R), NEW m \in StoredMeters, NEW f \in DOMAIN R
  PROVE  /\ ClampedIn(R, m, f) \in RowType
         /\ \A c \in DOMAIN R[f] : c \notin {"mcStart", "mcEnd", "beatStart", "beatEnd"}
                                     => ClampedIn(R, m, f)[c] = R[f][c]
  <1> DEFINE end == MeasureEndBeat(m)
             x == Clipped(R[f], R[Parent(f)], end)
             y == Paired(x, end)
  <1>1. R[f] \in RowType /\ R[Parent(f)] \in RowType /\ end \in Beats
    BY MeasureEndTyped DEF RowsOk
  <1>2. x \in RowType /\ x.id = R[f].id /\ x.meter = R[f].meter
    <2> HIDE DEF end
    <2>1. QED
      BY <1>1, ClippedIs
  <1>3. y \in RowType /\ y.id = R[f].id /\ y.meter = R[f].meter
    <2> HIDE DEF end, x
    <2>1. QED
      BY <1>1, <1>2, PairedIs
  <1>4. ClampedIn(R, m, f) \in {R[f], y}
    BY DEF ClampedIn
  <1> HIDE DEF y
  <1>5. \A c \in DOMAIN R[f] : c \notin {"mcStart", "mcEnd", "beatStart", "beatEnd"}
                              => c \in {"id", "meter"}
    BY <1>1 DEF RowType
  <1>6. QED
    BY <1>1, <1>3, <1>4, <1>5

-----------------------------------------------------------------------------
(* The UPDATE.                                                              *)

\* Rows written are rows, and a column is what was there or what was computed.
LEMMA WrittenTyped ==
  ASSUME RowsOk(rows), NEW repaired, NEW columns,
         \A f \in DOMAIN run.rows : repaired[f] \in RowType
  PROVE  /\ RowsOk(Written(repaired, columns))
         /\ DOMAIN Written(repaired, columns) = DOMAIN rows
  <1> DEFINE W == Written(repaired, columns)
  <1>1. /\ DOMAIN W = DOMAIN rows /\ W = [f \in DOMAIN W |-> W[f]]
        /\ \A f \in DOMAIN rows :
              W[f] \in {rows[f], [c \in DOMAIN rows[f] |->
                                      IF c \in columns THEN repaired[f][c] ELSE rows[f][c]]}
              /\ (W[f] = rows[f] \/ f \in DOMAIN run.rows)
    BY DEF Written
  <1>2. \A f \in DOMAIN rows : W[f] \in RowType
    <2> TAKE f \in DOMAIN rows
    <2>1. CASE W[f] = rows[f]
      BY <2>1 DEF RowsOk
    <2>2. CASE f \in DOMAIN run.rows /\ W[f] # rows[f]
      <3>1. rows[f] \in RowType /\ repaired[f] \in RowType
        BY <2>2 DEF RowsOk
      <3>2. [c \in DOMAIN rows[f] |-> IF c \in columns THEN repaired[f][c] ELSE rows[f][c]] \in RowType
        BY <3>1, Mixed
      <3>3. QED
        BY <1>1, <2>2, <3>2
    <2>3. QED
      BY <1>1, <2>1, <2>2
  <1> HIDE DEF W
  <1>3. RowsOk(W)
    BY <1>1, <1>2 DEF RowsOk
  <1>4. QED
    BY <1>1, <1>3 DEF W

\* A run that saw its rows as they are leaves them as it computed them.
LEMMA WrittenAsComputed ==
  ASSUME RowsOk(rows), run.rows = rows, NEW repaired, NEW columns, NEW f \in DOMAIN rows,
         repaired[f] \in RowType,
         \A c \in DOMAIN rows[f] : c \notin columns => repaired[f][c] = rows[f][c]
  PROVE  Written(repaired, columns)[f] = repaired[f]
  <1> DEFINE x == [c \in DOMAIN rows[f] |-> IF c \in columns THEN repaired[f][c] ELSE rows[f][c]]
  <1>1. rows[f] \in RowType
    BY DEF RowsOk
  <1>2. x = repaired[f]
    <2>1. DOMAIN rows[f] = DOMAIN repaired[f] /\ repaired[f] = [c \in DOMAIN repaired[f] |-> repaired[f][c]]
      BY <1>1 DEF RowType
    <2>2. QED
      BY <2>1
  <1>3. Written(repaired, columns)[f] = IF repaired[f] # rows[f] THEN x ELSE rows[f]
    BY DEF Written
  <1>4. QED
    BY <1>2, <1>3

LEMMA NothingWritten ==
  ASSUME RowsOk(rows), NEW repaired, NEW columns,
         \A f \in DOMAIN run.rows : repaired[f] = run.rows[f]
  PROVE  Written(repaired, columns) = rows
  <1>1. Written(repaired, columns) = [f \in DOMAIN rows |-> rows[f]]
    BY DEF Written
  <1>2. QED
    BY <1>1 DEF RowsOk

-----------------------------------------------------------------------------
(* Saves.                                                                   *)

\* The rows that a save writes.
Saved(w, t) ==
    [f \in {w} \X Places |->
        Row(IF Stage(f) THEN saves + 1 ELSE 0, t[f[2]], "simple", MeterAt(t[f[2]].mcStart))]

LEMMA SavedTyped ==
  ASSUME TypeInv, NEW w \in Wholes, NEW t \in NewTaggings, NEW f \in {w} \X Places
  PROVE  Saved(w, t)[f] \in RowType
  <1> DEFINE id == IF Stage(f) THEN saves + 1 ELSE 0
             e == t[f[2]]
  <1>1. id \in Nat
    BY DEF TypeInv
  <1>2. Offered(e, "simple")
    BY RepairsAssumption
  <1>3. MeterAt(e.mcStart) \in StoredMeters
    BY <1>2, OfferedBounds, MeterTypes
  <1>4. Row(id, e, "simple", MeterAt(e.mcStart)) \in RowType
    <2> HIDE DEF id, e
    <2>1. QED
      BY <1>1, <1>2, <1>3, RowTyped
  <1>5. QED
    BY <1>4 DEF Saved

\* What a save leaves of each row, and what it is tagged with.
SaveLeaves(w, t, f) ==
    IF f[1] = w
    THEN /\ f \in {w} \X Places
         /\ rows'[f] = Saved(w, t)[f]
         /\ rows'[Parent(f)] = Saved(w, t)[Parent(f)]
         /\ tagged'[f] = Extent(rows'[f], "simple")
         /\ Contained(rows'[f], rows'[Parent(f)])
    ELSE f \in DOMAIN rows /\ rows'[f] = rows[f] /\ tagged'[f] = tagged[f]

LEMMA SaveStep ==
  ASSUME TypeInv, DOMAIN tagged = DOMAIN rows, NEW w \in Wholes, NEW t \in NewTaggings, Save(w, t)
  PROVE  /\ "eighths" \in clean /\ settled' = {} /\ saves' = saves + 1
         /\ UNCHANGED <<meter, reading, run, clean, runs>>
         /\ RowsOk(rows')
         /\ DOMAIN rows' = DOMAIN rows \cup ({w} \X Places)
         /\ DOMAIN tagged' = DOMAIN rows'
         /\ \A f \in DOMAIN rows' : SaveLeaves(w, t, f)
         /\ \A f \in DOMAIN rows : f[1] = w => f \in {w} \X Places
  <1> DEFINE S == Saved(w, t)
             T == [f \in {w} \X Places |-> Extent(S[f], "simple")]
  <1>1. /\ "eighths" \in clean /\ settled' = {} /\ saves' = saves + 1
        /\ UNCHANGED <<meter, reading, run, clean, runs>>
    BY DEF Save
  <1>2. /\ rows' = Over(S, rows) /\ tagged' = Over(T, tagged)
        /\ \A f \in {w} \X Places : Contained(S[f], S[Parent(f)])
    <2>1. S = [f \in {w} \X Places |->
                  Row(IF Stage(f) THEN saves + 1 ELSE 0, t[f[2]], reading, MeterAt(t[f[2]].mcStart))]
      BY DEF Save, Saved
    <2>2. DOMAIN S = {w} \X Places
      BY DEF Saved
    <2> HIDE DEF S
    <2>3. QED
      BY <2>1, <2>2 DEF Save
  <1>3. DOMAIN S = {w} \X Places
    BY DEF Saved
  <1>4. /\ DOMAIN rows' = DOMAIN rows \cup ({w} \X Places)
        /\ rows' = [f \in DOMAIN rows' |-> rows'[f]]
        /\ \A f \in DOMAIN rows' : rows'[f] = IF f \in {w} \X Places THEN S[f] ELSE rows[f]
    <2> HIDE DEF S
    <2>1. QED
      BY <1>2, <1>3 DEF Over
  <1>5. /\ DOMAIN tagged' = DOMAIN rows'
        /\ \A f \in DOMAIN rows' : tagged'[f] = IF f \in {w} \X Places THEN Extent(S[f], "simple") ELSE tagged[f]
    <2> HIDE DEF S
    <2>1. QED
      BY <1>2, <1>4 DEF Over
  <1>6. /\ DOMAIN rows \subseteq Fragments
        /\ \A f \in DOMAIN rows : Parent(f) \in DOMAIN rows /\ rows[f] \in RowType
        /\ \A f \in Fragments : f[1] = w <=> f \in {w} \X Places
        /\ \A f \in {w} \X Places : Parent(f) \in {w} \X Places /\ f \in Fragments
        /\ \A f \in {w} \X Places : f[1] = w /\ S[f] \in RowType
    BY SavedTyped DEF TypeInv, RowsOk, Fragments, Places, Parent
  <1> HIDE DEF S, T
  <1>7. RowsOk(rows')
    BY <1>4, <1>6 DEF RowsOk
  <1>8. \A f \in DOMAIN rows' : SaveLeaves(w, t, f)
    BY <1>2, <1>4, <1>5, <1>6 DEF SaveLeaves, S
  <1>9. QED
    BY <1>1, <1>4, <1>5, <1>6, <1>7, <1>8

-----------------------------------------------------------------------------
(* Types.                                                                   *)

LEMMA StartMeters == Meters \subseteq StoredMeters
  BY RepairsAssumption DEF StoredMeters

LEMMA FirstRows ==
  ASSUME NEW t \in [Legacy -> OldTaggings], NEW sig \in Meters, NEW f \in Legacy \X Places
  PROVE  /\ Offered(t[f[1]][f[2]], "compound")
         /\ Row(0, t[f[1]][f[2]], "compound", sig) \in RowType
         /\ f \in Fragments /\ Parent(f) \in Legacy \X Places
  <1>1. Offered(t[f[1]][f[2]], "compound")
    BY RepairsAssumption
  <1>2. Row(0, t[f[1]][f[2]], "compound", sig) \in RowType
    BY <1>1, StartMeters, RowTyped
  <1>3. QED
    BY <1>1, <1>2, RepairsAssumption DEF Fragments, Parent, Places

LEMMA NoRunTyped == RowsOk(NoRun.rows) /\ NoRun.meter \in StoredMeters /\ NoRun.script = "none"
  BY DEF NoRun, RowsOk, StoredMeters

LEMMA TypeInit == Init => TypeInv
  <1> SUFFICES ASSUME Init PROVE TypeInv
    OBVIOUS
  <1>1. PICK t \in [Legacy -> OldTaggings], sig \in Meters :
          rows = [f \in Legacy \X Places |-> Row(0, t[f[1]][f[2]], "compound", sig)]
    BY DEF Init
  <1>2. RowsOk(rows)
    BY <1>1, FirstRows DEF RowsOk
  <1>3. QED
    BY <1>2, StartMeters, NoRunTyped DEF Init, TypeInv

\* A commit of typed rows.
LEMMA CommitTyped ==
  ASSUME TypeInv, NEW R, RowsOk(R), NEW m \in StoredMeters, NEW sound, NEW informed,
         run.script \in Scripts, Commit(R, m, sound, informed)
  PROVE  TypeInv'
  <1>1. rows' = R /\ meter' = m /\ run' = NoRun /\ saves' = saves
        /\ settled' \subseteq settled \cup {run.script}
    BY DEF Commit
  <1>2. QED
    BY <1>1, NoRunTyped DEF TypeInv, RowsOk

\* Each script commits typed rows.
LEMMA MovementCommit ==
  ASSUME TypeInv, NEW readable \in BOOLEAN, RepairMovementMeter(readable)
  PROVE  LET known == readable /\ StartingMeter # NoMeter
             m == IF known /\ StartingMeter # run.meter THEN StartingMeter ELSE meter
         IN  run.script = "movement_meter" /\ m \in StoredMeters /\ Commit(rows, m, known, readable)
  BY StartType DEF RepairMovementMeter, TypeInv

SummaryRows(readable) == Written([f \in DOMAIN run.rows |-> WithMeter(f, readable)], {"meter"})

LEMMA SummaryCommit ==
  ASSUME TypeInv, NEW readable \in BOOLEAN, RepairSummaryMeter(readable)
  PROVE  /\ run.script = "summary_meter" /\ RowsOk(SummaryRows(readable))
         /\ DOMAIN SummaryRows(readable) = DOMAIN rows
         /\ Commit(SummaryRows(readable), meter, TRUE, readable)
  <1> DEFINE repaired == [f \in DOMAIN run.rows |-> WithMeter(f, readable)]
  <1>1. RowsOk(rows) /\ \A f \in DOMAIN run.rows : repaired[f] \in RowType
    BY WithMeterTyped DEF TypeInv
  <1> HIDE DEF repaired
  <1>2. /\ RowsOk(Written(repaired, {"meter"}))
        /\ DOMAIN Written(repaired, {"meter"}) = DOMAIN rows
    BY <1>1, WrittenTyped
  <1>3. QED
    BY <1>2 DEF RepairSummaryMeter, SummaryRows, repaired

LEMMA EighthsTyped ==
  ASSUME TypeInv, NEW readable \in BOOLEAN
  PROVE  RowsOk(EighthsRows(readable)) /\ DOMAIN EighthsRows(readable) = DOMAIN rows
  <1>1. CASE ~(readable /\ Convertible)
    BY <1>1 DEF EighthsRows, TypeInv
  <1>2. CASE readable /\ Convertible
    <2> DEFINE repaired == [f \in DOMAIN run.rows |-> Converted(f)]
    <2>1. RowsOk(rows) /\ \A f \in DOMAIN run.rows : repaired[f] \in RowType
      BY <1>2, ConvertedTyped DEF TypeInv, Convertible
    <2> HIDE DEF repaired
    <2>2. /\ RowsOk(Written(repaired, {"beatStart", "beatEnd"}))
          /\ DOMAIN Written(repaired, {"beatStart", "beatEnd"}) = DOMAIN rows
      BY <2>1, WrittenTyped
    <2>3. QED
      BY <1>2, <2>2 DEF EighthsRows, repaired
  <1>3. QED
    BY <1>1, <1>2

ClampColumns == {"mcStart", "mcEnd", "beatStart", "beatEnd"}
ClampRows == Written([f \in DOMAIN run.rows |-> ClampedIn(run.rows, run.meter, f)], ClampColumns)
ClampSound ==
    \A f \in DOMAIN run.rows : Stage(f) =>
       ~Outside(Clipped(run.rows[f], run.rows[Parent(f)], MeasureEndBeat(run.meter)),
                MeasureEndBeat(run.meter))

LEMMA ClampCommit ==
  ASSUME TypeInv, Clamp
  PROVE  /\ run.script = "clamp" /\ RowsOk(ClampRows) /\ DOMAIN ClampRows = DOMAIN rows
         /\ Commit(ClampRows, meter, ClampSound, TRUE)
  <1> DEFINE repaired == [f \in DOMAIN run.rows |-> ClampedIn(run.rows, run.meter, f)]
  <1>1. RowsOk(rows) /\ \A f \in DOMAIN run.rows : repaired[f] \in RowType
    BY ClampedTyped DEF TypeInv
  <1>2. repaired = [f \in DOMAIN run.rows |-> Clamped(f)]
    BY DEF ClampedIn, Clamped
  <1> HIDE DEF repaired
  <1>3. RowsOk(Written(repaired, ClampColumns)) /\ DOMAIN Written(repaired, ClampColumns) = DOMAIN rows
    BY <1>1, WrittenTyped
  <1>4. run.script = "clamp" /\ Commit(Written(repaired, ClampColumns), meter, ClampSound, TRUE)
    BY <1>2 DEF Clamp, ClampColumns, ClampSound
  <1>5. QED
    BY <1>3, <1>4 DEF ClampRows, repaired

LEMMA TypeStep == TypeInv /\ DOMAIN tagged = DOMAIN rows /\ [Next]_vars => TypeInv'
  <1> SUFFICES ASSUME TypeInv, DOMAIN tagged = DOMAIN rows, [Next]_vars PROVE TypeInv'
    OBVIOUS
  <1>1. CASE Deploy
    BY <1>1 DEF Deploy, TypeInv, RowsOk
  <1>2. ASSUME NEW w \in Wholes, NEW t \in NewTaggings, Save(w, t) PROVE TypeInv'
    <2>1. RowsOk(rows') /\ settled' = {} /\ saves' = saves + 1 /\ UNCHANGED <<meter, run>>
      BY <1>2, SaveStep
    <2>2. QED
      BY <2>1 DEF TypeInv
  <1>3. ASSUME NEW s \in Scripts, Begin(s) PROVE TypeInv'
    <2>1. /\ run'.script = s /\ run'.rows = rows /\ run'.meter = meter
          /\ UNCHANGED <<rows, meter, settled, saves>>
      BY <1>3 DEF Begin
    <2>2. QED
      BY <2>1 DEF TypeInv
  <1>4. CASE Crash
    BY <1>4, NoRunTyped DEF Crash, TypeInv
  <1>5. ASSUME NEW readable \in BOOLEAN, RepairMovementMeter(readable) PROVE TypeInv'
    <2> DEFINE known == readable /\ StartingMeter # NoMeter
               m == IF known /\ StartingMeter # run.meter THEN StartingMeter ELSE meter
    <2>1. run.script = "movement_meter" /\ m \in StoredMeters /\ Commit(rows, m, known, readable)
      BY <1>5, MovementCommit
    <2> HIDE DEF known, m
    <2>2. QED
      BY <2>1, CommitTyped DEF Scripts, TypeInv
  <1>6. ASSUME NEW readable \in BOOLEAN, RepairSummaryMeter(readable) PROVE TypeInv'
    <2>1. run.script = "summary_meter" /\ RowsOk(SummaryRows(readable)) /\ Commit(SummaryRows(readable), meter, TRUE, readable)
      BY <1>6, SummaryCommit
    <2>2. run.script \in Scripts /\ meter \in StoredMeters
      BY <2>1 DEF Scripts, TypeInv
    <2>3. QED
      BY <2>1, <2>2, CommitTyped
  <1>7. ASSUME NEW readable \in BOOLEAN, RepairEighths(readable) PROVE TypeInv'
    <2>1. run.script = "eighths" /\ RowsOk(EighthsRows(readable)) /\ Commit(EighthsRows(readable), meter, EighthsSound(readable), readable)
      BY <1>7, EighthsCommit, EighthsTyped
    <2>2. run.script \in Scripts /\ meter \in StoredMeters
      BY <2>1 DEF Scripts, TypeInv
    <2>3. QED
      BY <2>1, <2>2, CommitTyped
  <1>8. CASE Clamp
    <2>1. run.script = "clamp" /\ RowsOk(ClampRows) /\ Commit(ClampRows, meter, ClampSound, TRUE)
      BY <1>8, ClampCommit
    <2>2. run.script \in Scripts /\ meter \in StoredMeters
      BY <2>1 DEF Scripts, TypeInv
    <2>3. QED
      BY <2>1, <2>2, CommitTyped
  <1>9. CASE UNCHANGED vars
    BY <1>9 DEF vars, TypeInv, RowsOk
  <1>10. QED
    BY <1>1, <1>2, <1>3, <1>4, <1>5, <1>6, <1>7, <1>8, <1>9 DEF Next, Repair

-----------------------------------------------------------------------------
(* Scripts that run again.                                                  *)

\* What is at rest stays at rest under a commit: if the commit changes nothing, or
\* because the script that commits has put it to rest.
LEMMA RestCommit ==
  ASSUME TypeInv, RestInv, NEW R, NEW m, NEW sound, NEW informed, Commit(R, m, sound, informed),
         run.script \in Scripts,
         run.rows = rows /\ run.meter = meter /\ sound /\ informed => RestsIn(run.script, R, m)
  PROVE  RestInv'
  <1>1. rows' = R /\ meter' = m /\ run' = NoRun
    BY DEF Commit
  <1>2. ASSUME NEW s \in settled' PROVE RestsIn(s, R, m)
    <2>1. CASE s = run.script /\ run.rows = rows /\ run.meter = meter /\ sound /\ informed
      BY <2>1
    <2>2. CASE s \in settled /\ R = rows /\ m = meter
      BY <2>2 DEF RestInv
    <2>3. QED
      BY <1>2, <2>1, <2>2 DEF Commit
  <1>3. run'.script \notin settled'
    <2>1. settled' \subseteq settled \cup {run.script}
      BY DEF Commit
    <2>2. settled' \subseteq Scripts /\ "none" \notin Scripts
      BY <2>1 DEF TypeInv, Scripts
    <2>3. QED
      BY <1>1, <2>2, NoRunTyped
  <1>4. QED
    BY <1>1, <1>2, <1>3 DEF RestInv, RestsIn, ClampedIn, Wanted

LEMMA SummariesSettle ==
  ASSUME TypeInv, run.rows = rows, run.meter = meter
  PROVE  RestsIn("summary_meter", SummaryRows(TRUE), meter)
  <1> DEFINE R == SummaryRows(TRUE)
             repaired == [f \in DOMAIN run.rows |-> WithMeter(f, TRUE)]
  <1>1. DOMAIN R = DOMAIN rows
    BY DEF SummaryRows, Written
  <1>2. SUFFICES \A f \in DOMAIN rows : Wanted(R[f].mcStart, meter) \in {NoMeter, R[f].meter}
    <2> HIDE DEF R
    <2>1. QED
      BY <1>1, <1>2 DEF RestsIn, R
  <1> TAKE f \in DOMAIN rows
  <1> DEFINE new == WithMeter(f, TRUE)
             sig == LocalMeter(run.rows[f].mcStart, TRUE)
  <1>3. rows[f] \in RowType /\ f \in DOMAIN run.rows
    BY DEF TypeInv, RowsOk
  <1>4. /\ new \in RowType
        /\ \A c \in DOMAIN rows[f] : c # "meter" => new[c] = rows[f][c]
        /\ new.meter = IF sig = NoMeter THEN rows[f].meter ELSE sig
    BY <1>3, WithMeterTyped
  <1>5. R[f] = new
    <2>1. RowsOk(rows) /\ repaired[f] = new
      BY DEF TypeInv
    <2> HIDE DEF repaired, new
    <2>2. Written(repaired, {"meter"})[f] = repaired[f]
      BY <1>4, <2>1, WrittenAsComputed
    <2>3. QED
      BY <2>1, <2>2 DEF SummaryRows, repaired
  <1>6. new.mcStart = rows[f].mcStart
    BY <1>3, <1>4 DEF RowType
  <1>7. sig = Wanted(rows[f].mcStart, meter)
    BY DEF LocalMeter, Wanted
  <1> HIDE DEF R, new, sig
  <1>8. QED
    BY <1>4, <1>5, <1>6, <1>7

\* Beats that tell nothing of the old reading are not converted.
LEMMA NotConvertible ==
  ASSUME \A f \in DOMAIN run.rows : WholeBeats(run.rows[f])
  PROVE  ~Convertible
  <1>1. \A v \in Starts \cup Ends : v % 6 = 0
    BY DEF Starts, Ends, WholeBeats
  <1>2. ClassifyMovement(Starts, Ends) # "old"
    BY <1>1 DEF ClassifyMovement
  <1>3. QED
    BY <1>2 DEF Convertible

LEMMA EighthsSettle ==
  ASSUME TypeInv, run.rows = rows, EighthsSound(TRUE)
  PROVE  RestsIn("eighths", EighthsRows(TRUE), meter)
  <1> DEFINE R == EighthsRows(TRUE)
             repaired == [f \in DOMAIN run.rows |-> Converted(f)]
  <1>0. SUFFICES ASSUME Disputed PROVE \A f \in DOMAIN rows : WholeBeats(R[f])
    <2>1. DOMAIN R = DOMAIN rows
      BY EighthsTyped
    <2> HIDE DEF R
    <2>2. QED
      BY <1>0, <2>1 DEF RestsIn, R
  <1>1. Disputed
    BY <1>0
  <1> TAKE f \in DOMAIN rows
  <1>2. rows[f] \in RowType /\ f \in DOMAIN run.rows /\ RowsOk(rows)
    BY DEF TypeInv, RowsOk
  <1>3. CASE Convertible
    <2> DEFINE new == Converted(f)
    <2>1. /\ new \in RowType
          /\ \A c \in DOMAIN rows[f] : c \notin {"beatStart", "beatEnd"} => new[c] = rows[f][c]
          /\ new.beatStart = IF InScope(rows[f].mcStart, rows[f].beatStart)
                             THEN 3 * rows[f].beatStart - 12 ELSE rows[f].beatStart
          /\ new.beatEnd = IF InScope(rows[f].mcEnd, rows[f].beatEnd)
                           THEN 3 * rows[f].beatEnd - 12 ELSE rows[f].beatEnd
          /\ InScope(rows[f].mcStart, rows[f].beatStart) => new.beatStart \in {6, 12, 18, 24}
          /\ InScope(rows[f].mcEnd, rows[f].beatEnd) => new.beatEnd \in {6, 12, 18, 24}
      BY <1>2, <1>3, ConvertedTyped DEF Convertible
    <2>2. R[f] = new
      <3>1. repaired[f] = new
        BY <1>2
      <3> HIDE DEF repaired, new
      <3>2. Written(repaired, {"beatStart", "beatEnd"})[f] = repaired[f]
        BY <1>2, <2>1, <3>1, WrittenAsComputed
      <3>3. QED
        BY <1>3, <3>1, <3>2 DEF EighthsRows, repaired
    <2>3. new.mcStart = rows[f].mcStart /\ new.mcEnd = rows[f].mcEnd
      BY <1>2, <2>1 DEF RowType
    <2> HIDE DEF R, new
    <2>4. WholeBeats(new)
      <3>1. \A b \in {6, 12, 18, 24} : b % 6 = 0
        OBVIOUS
      <3>2. QED
        BY <2>1, <2>3, <3>1 DEF WholeBeats
    <2>5. QED
      BY <2>2, <2>4
  <1>4. CASE ~Convertible
    <2>1. R = rows
      BY <1>4 DEF EighthsRows
    <2>2. ClassifyMovement(Starts, Ends) \in {"empty", "new"}
      BY <1>1, <1>2, <1>4 DEF EighthsSound
    <2>3. \A v \in Starts \cup Ends : v % 6 = 0
      BY <2>2 DEF ClassifyMovement
    <2>4. QED
      BY <1>2, <2>1, <2>3 DEF WholeBeats, Starts, Ends
  <1>5. QED
    BY <1>3, <1>4

LEMMA ClampSettles ==
  ASSUME TypeInv, run.rows = rows, run.meter = meter
  PROVE  RestsIn("clamp", ClampRows, meter)
  <1> DEFINE R == ClampRows
             repaired == [f \in DOMAIN run.rows |-> ClampedIn(run.rows, run.meter, f)]
             end == MeasureEndBeat(meter)
  <1>1. RowsOk(rows) /\ meter \in StoredMeters /\ end \in Beats /\ end >= 6
    BY MeasureEndTyped DEF TypeInv
  <1>2. ASSUME NEW f \in DOMAIN rows PROVE R[f] = ClampedIn(rows, meter, f)
    <2>1. /\ ClampedIn(rows, meter, f) \in RowType
          /\ \A c \in DOMAIN rows[f] : c \notin ClampColumns
                                       => ClampedIn(rows, meter, f)[c] = rows[f][c]
      BY <1>1, ClampedTyped DEF ClampColumns
    <2>2. repaired[f] = ClampedIn(rows, meter, f)
      BY DEF ClampedIn
    <2> HIDE DEF repaired
    <2>3. Written(repaired, ClampColumns)[f] = repaired[f]
      BY <1>1, <2>1, <2>2, WrittenAsComputed
    <2>4. QED
      BY <2>2, <2>3 DEF ClampRows, repaired
  <1>3. DOMAIN R = DOMAIN rows
    BY DEF ClampRows, Written
  <1> HIDE DEF R, end
  <1>4. ASSUME NEW f \in DOMAIN rows PROVE ClampedIn(R, meter, f) = R[f]
    <2> DEFINE c == rows[f]
               p == rows[Parent(f)]
               x == Paired(Clipped(c, p, end), end)
    <2>1. c \in RowType /\ p \in RowType /\ Parent(f) \in DOMAIN rows /\ ~Stage(Parent(f))
      BY <1>1 DEF RowsOk, Parent, Stage
    <2>2. R[f] = IF ~Stage(f) \/ Outside(Clipped(c, p, end), end) THEN c ELSE x
      BY <1>2 DEF ClampedIn, end
    <2>3. R[Parent(f)] = p
      BY <1>2, <2>1 DEF ClampedIn
    <2>4. ClampedIn(R, meter, f) =
            IF ~Stage(f) \/ Outside(Clipped(R[f], p, end), end) THEN R[f]
            ELSE Paired(Clipped(R[f], p, end), end)
      BY <2>3 DEF ClampedIn, end
    <2>5. Paired(Clipped(x, p, end), end) = x
      BY <1>1, <2>1, ClampOnce
    <2> HIDE DEF c, p, x
    <2>6. CASE ~Stage(f) \/ Outside(Clipped(c, p, end), end)
      BY <2>2, <2>4, <2>6
    <2>7. CASE ~(~Stage(f) \/ Outside(Clipped(c, p, end), end))
      BY <2>2, <2>4, <2>5, <2>7
    <2>8. QED
      BY <2>6, <2>7
  <1>5. QED
    BY <1>3, <1>4 DEF RestsIn, R

LEMMA RestStep == TypeInv /\ DOMAIN tagged = DOMAIN rows /\ RestInv /\ [Next]_vars => RestInv'
  <1> SUFFICES ASSUME TypeInv, DOMAIN tagged = DOMAIN rows, RestInv, [Next]_vars PROVE RestInv'
    OBVIOUS
  <1>1. CASE UNCHANGED <<rows, meter, settled>> /\ (run' = run \/ run' = NoRun)
    <2>1. \A s \in settled' : RestsIn(s, rows', meter')
      BY <1>1 DEF RestInv
    <2>2. run' = NoRun => run'.script \notin settled'
      BY <1>1, NoRunTyped DEF TypeInv, Scripts
    <2>3. QED
      BY <1>1, <2>1, <2>2 DEF RestInv
  <1>2. ASSUME NEW w \in Wholes, NEW t \in NewTaggings, Save(w, t) PROVE RestInv'
    BY <1>2, SaveStep DEF RestInv
  <1>3. ASSUME NEW s \in Scripts, Begin(s) PROVE RestInv'
    BY <1>3 DEF Begin, RestInv
  <1>4. ASSUME NEW readable \in BOOLEAN, RepairMovementMeter(readable) PROVE RestInv'
    <2> DEFINE known == readable /\ StartingMeter # NoMeter
               m == IF known /\ StartingMeter # run.meter THEN StartingMeter ELSE meter
    <2>1. run.script = "movement_meter" /\ Commit(rows, m, known, readable)
      BY <1>4, MovementCommit
    <2>2. known /\ run.meter = meter => m = StartingMeter
      OBVIOUS
    <2> HIDE DEF known, m
    <2>3. run.rows = rows /\ run.meter = meter /\ known /\ readable => RestsIn(run.script, rows, m)
      BY <2>1, <2>2 DEF RestsIn
    <2>4. QED
      BY <2>1, <2>3, RestCommit DEF Scripts
  <1>5. ASSUME NEW readable \in BOOLEAN, RepairSummaryMeter(readable) PROVE RestInv'
    <2>1. run.script = "summary_meter" /\ Commit(SummaryRows(readable), meter, TRUE, readable)
      BY <1>5, SummaryCommit
    <2>2. run.rows = rows /\ run.meter = meter /\ readable
            => RestsIn(run.script, SummaryRows(readable), meter)
      <3>1. CASE readable = TRUE
        BY <2>1, <3>1, SummariesSettle
      <3>2. QED
        BY <3>1
    <2>3. QED
      BY <2>1, <2>2, RestCommit DEF Scripts
  <1>6. ASSUME NEW readable \in BOOLEAN, RepairEighths(readable) PROVE RestInv'
    <2>1. run.script = "eighths" /\ Commit(EighthsRows(readable), meter, EighthsSound(readable), readable)
      BY <1>6, EighthsCommit
    <2>2. run.rows = rows /\ EighthsSound(readable) /\ readable
            => RestsIn(run.script, EighthsRows(readable), meter)
      <3>1. CASE readable = TRUE
        BY <2>1, <3>1, EighthsSettle
      <3>2. QED
        BY <3>1
    <2>3. QED
      BY <2>1, <2>2, RestCommit DEF Scripts
  <1>7. CASE Clamp
    <2>1. run.script = "clamp" /\ Commit(ClampRows, meter, ClampSound, TRUE)
      BY <1>7, ClampCommit
    <2>2. run.rows = rows /\ run.meter = meter => RestsIn(run.script, ClampRows, meter)
      BY <2>1, ClampSettles
    <2>3. QED
      BY <2>1, <2>2, RestCommit DEF Scripts
  <1>8. Deploy \/ Crash \/ UNCHANGED vars
          => UNCHANGED <<rows, meter, settled>> /\ (run' = run \/ run' = NoRun)
    BY DEF Deploy, Crash, vars
  <1>9. QED
    BY <1>1, <1>2, <1>3, <1>4, <1>5, <1>6, <1>7, <1>8 DEF Next, Repair

-----------------------------------------------------------------------------
(* What rows are tagged with.                                               *)

\* Rows keep what they are tagged with, except in a save.
LEMMA RowsStay ==
  ASSUME TypeInv, [Next]_vars
  PROVE  \/ \E w \in Wholes, t \in NewTaggings : Save(w, t)
         \/ tagged' = tagged /\ DOMAIN rows' = DOMAIN rows /\ saves' = saves
  <1>1. CASE Deploy \/ Crash \/ (\E s \in Scripts : Begin(s)) \/ UNCHANGED vars
    BY <1>1 DEF Deploy, Crash, Begin, vars
  <1>2. ASSUME NEW readable \in BOOLEAN, RepairMovementMeter(readable)
        PROVE  tagged' = tagged /\ DOMAIN rows' = DOMAIN rows /\ saves' = saves
    BY <1>2 DEF RepairMovementMeter, Commit
  <1>3. ASSUME NEW readable \in BOOLEAN, RepairSummaryMeter(readable)
        PROVE  tagged' = tagged /\ DOMAIN rows' = DOMAIN rows /\ saves' = saves
    BY <1>3, SummaryCommit DEF Commit
  <1>4. ASSUME NEW readable \in BOOLEAN, RepairEighths(readable)
        PROVE  tagged' = tagged /\ DOMAIN rows' = DOMAIN rows /\ saves' = saves
    BY <1>4, EighthsCommit, EighthsTyped DEF Commit
  <1>5. CASE Clamp
    BY <1>5, ClampCommit DEF Commit
  <1>6. QED
    BY <1>1, <1>2, <1>3, <1>4, <1>5 DEF Next, Repair

LEMMA TaggedInit == Init => TaggedInv
  <1> SUFFICES ASSUME Init PROVE TaggedInv
    OBVIOUS
  <1>1. RowsOk(rows)
    BY TypeInit DEF TypeInv
  <1>2. tagged = [f \in DOMAIN rows |-> Extent(rows[f], "compound")]
    BY DEF Init
  <1>3. QED
    BY <1>1, <1>2, ExtentTyped DEF TaggedInv, RowsOk

LEMMA TaggedStep == TypeInv /\ TaggedInv /\ [Next]_vars => TaggedInv'
  <1> SUFFICES ASSUME TypeInv, TaggedInv, [Next]_vars PROVE TaggedInv'
    OBVIOUS
  <1>1. ASSUME NEW w \in Wholes, NEW t \in NewTaggings, Save(w, t) PROVE TaggedInv'
    <2>1. DOMAIN tagged = DOMAIN rows
      BY DEF TaggedInv
    <2>2. RowsOk(rows') /\ DOMAIN tagged' = DOMAIN rows' /\ \A f \in DOMAIN rows' : SaveLeaves(w, t, f)
      BY <1>1, <2>1, SaveStep
    <2>3. ASSUME NEW f \in DOMAIN rows' PROVE tagged'[f] \in ExtentType
      <3>1. tagged'[f] = Extent(rows'[f], "simple") \/ (f \in DOMAIN rows /\ tagged'[f] = tagged[f])
        BY <2>2 DEF SaveLeaves
      <3>2. rows'[f] \in RowType
        BY <2>2 DEF RowsOk
      <3>3. QED
        BY <3>1, <3>2, ExtentTyped DEF TaggedInv
    <2>4. QED
      BY <2>2, <2>3 DEF TaggedInv
  <1>2. CASE tagged' = tagged /\ DOMAIN rows' = DOMAIN rows
    BY <1>2 DEF TaggedInv
  <1>3. QED
    BY <1>1, <1>2, RowsStay

LEMMA StateHolds == Spec => [](TypeInv /\ TaggedInv)
  <1>1. Init => TypeInv /\ TaggedInv
    BY TypeInit, TaggedInit
  <1>2. TypeInv /\ TaggedInv /\ [Next]_vars => (TypeInv /\ TaggedInv)'
    <2>1. TypeInv /\ TaggedInv /\ [Next]_vars => TypeInv'
      BY TypeStep DEF TaggedInv
    <2>2. QED
      BY <2>1, TaggedStep
  <1>3. QED
    BY <1>1, <1>2, PTL DEF Spec

LEMMA RestHolds == Spec => [](TypeInv /\ TaggedInv /\ RestInv)
  <1>1. Init => RestInv
    BY NoRunTyped DEF Init, RestInv
  <1>2. TypeInv /\ TaggedInv /\ RestInv /\ [Next]_vars => RestInv'
    BY RestStep DEF TaggedInv
  <1>3. QED
    BY <1>1, <1>2, StateHolds, PTL DEF Spec

\* A script that runs again where it has settled computes what is there.
LEMMA RestWrites ==
  ASSUME TypeInv, RestInv, run.script \in settled, run' = NoRun, [Next]_vars
  PROVE  UNCHANGED <<rows, meter>> \/ RepairSummaryMeter(FALSE)
  <1>1. /\ run.rows = rows /\ run.meter = meter /\ RestsIn(run.script, rows, meter)
        /\ RowsOk(rows) /\ run.script \in Scripts
    BY DEF RestInv, TypeInv
  <1>2. ASSUME NEW readable \in BOOLEAN, RepairMovementMeter(readable) PROVE UNCHANGED <<rows, meter>>
    <2>1. meter = StartingMeter
      BY <1>1, <1>2 DEF RepairMovementMeter, RestsIn
    <2>2. QED
      BY <1>1, <1>2, <2>1 DEF RepairMovementMeter, Commit
  <1>3. CASE RepairSummaryMeter(TRUE)
    <2> DEFINE repaired == [f \in DOMAIN run.rows |-> WithMeter(f, TRUE)]
    <2>1. run.script = "summary_meter" /\ rows' = SummaryRows(TRUE) /\ meter' = meter
      BY <1>3, SummaryCommit DEF Commit
    <2>2. ASSUME NEW f \in DOMAIN run.rows PROVE repaired[f] = run.rows[f]
      <3> DEFINE new == WithMeter(f, TRUE)
                 sig == LocalMeter(run.rows[f].mcStart, TRUE)
      <3>1. /\ new \in RowType
            /\ \A c \in DOMAIN run.rows[f] : c # "meter" => new[c] = run.rows[f][c]
            /\ new.meter = IF sig = NoMeter THEN run.rows[f].meter ELSE sig
        BY WithMeterTyped
      <3>2. sig \in {NoMeter, run.rows[f].meter}
        BY <1>1, <2>1 DEF RestsIn, LocalMeter, Wanted
      <3> HIDE DEF new, sig
      <3>3. run.rows[f] \in RowType
        BY <1>1 DEF RowsOk
      <3>4. /\ new.id = run.rows[f].id /\ new.mcStart = run.rows[f].mcStart /\ new.mcEnd = run.rows[f].mcEnd
            /\ new.beatStart = run.rows[f].beatStart /\ new.beatEnd = run.rows[f].beatEnd
        BY <3>1, <3>3 DEF RowType
      <3>5. new = run.rows[f]
        BY <3>1, <3>2, <3>3, <3>4, SameRow
      <3>6. QED
        BY <3>5 DEF new
    <2> HIDE DEF repaired
    <2>3. Written(repaired, {"meter"}) = rows
      BY <1>1, <2>2, NothingWritten
    <2>4. QED
      BY <2>1, <2>3 DEF SummaryRows, repaired
  <1>4. ASSUME NEW readable \in BOOLEAN, RepairEighths(readable) PROVE UNCHANGED <<rows, meter>>
    <2>1. run.script = "eighths" /\ rows' = EighthsRows(readable) /\ meter' = meter
      BY <1>4, EighthsCommit DEF Commit
    <2>2. ~Convertible
      <3>1. CASE Disputed
        BY <1>1, <2>1, <3>1, NotConvertible DEF RestsIn
      <3>2. CASE ~Disputed
        BY <3>2 DEF Convertible
      <3>3. QED
        BY <3>1, <3>2
    <2>3. QED
      BY <2>1, <2>2 DEF EighthsRows
  <1>5. CASE Clamp
    <2> DEFINE repaired == [f \in DOMAIN run.rows |-> ClampedIn(run.rows, run.meter, f)]
    <2>1. run.script = "clamp" /\ rows' = ClampRows /\ meter' = meter
      BY <1>5, ClampCommit DEF Commit
    <2>2. \A f \in DOMAIN run.rows : repaired[f] = run.rows[f]
      BY <1>1, <2>1 DEF RestsIn
    <2> HIDE DEF repaired
    <2>3. Written(repaired, ClampColumns) = rows
      BY <1>1, <2>2, NothingWritten
    <2>4. QED
      BY <2>1, <2>3 DEF ClampRows, repaired
  <1>6. Deploy \/ Crash \/ UNCHANGED vars => UNCHANGED <<rows, meter>>
    BY DEF Deploy, Crash, vars
  <1>7. ~(\E s \in Scripts : Begin(s)) /\ ~(\E w \in Wholes, t \in NewTaggings : Save(w, t))
    <2>1. run # NoRun /\ run' = NoRun
      BY <1>1, NoRunTyped DEF Scripts
    <2>2. QED
      BY <2>1 DEF Begin, Save
  <1>8. QED
    BY <1>2, <1>3, <1>4, <1>5, <1>6, <1>7 DEF Next, Repair

\* fix_movement_meter, fix_38_beat_coordinates and clamp_subpart_bounds may be run
\* again at any time, and fix_summary_key_meter wherever it can read the score: for
\* any score and any rows, a second run writes nothing.
THEOREM RerunsAreIdle == Spec => RerunsChangeNothing
  <1>1. TypeInv /\ RestInv /\ [Next]_vars
        => [run.script \in settled /\ run' = NoRun =>
              UNCHANGED <<rows, meter>> \/ RepairSummaryMeter(FALSE)]_vars
    BY RestWrites
  <1>2. QED
    BY <1>1, RestHolds, PTL DEF Spec, RerunsChangeNothing

-----------------------------------------------------------------------------
(* Places in the score.                                                     *)

\* Rows that differ at most in the meter they display.
Alike(a, b) ==
    /\ a.id = b.id /\ a.mcStart = b.mcStart /\ a.mcEnd = b.mcEnd
    /\ a.beatStart = b.beatStart /\ a.beatEnd = b.beatEnd

LEMMA AlikePlaces ==
  ASSUME NEW a, NEW b, Alike(a, b), NEW how
  PROVE  Extent(a, how) = Extent(b, how) /\ (NoThirds(a) <=> NoThirds(b))
  BY DEF Alike, Extent, NoThirds

LEMMA ExtentIs ==
  ASSUME NEW r, NEW how
  PROVE  LET e == Extent(r, how)
         IN  /\ e.mcStart = r.mcStart /\ e.mcEnd = r.mcEnd
             /\ e.from = IF r.beatStart = NoBeat THEN 0 ELSE TicksAt(r.mcStart, r.beatStart, how)
             /\ e.to = IF r.beatEnd = NoBeat THEN BarLength(Counted(r.mcEnd))
                       ELSE TicksAt(r.mcEnd, r.beatEnd, how)
  BY DEF Extent

LEMMA SameExtent ==
  ASSUME NEW d \in ExtentType, NEW e \in ExtentType, d.mcStart = e.mcStart, d.mcEnd = e.mcEnd,
         d.from = e.from, d.to = e.to
  PROVE  d = e
  BY DEF ExtentType

\* A beat that the conversion leaves alone names the same place in both readings,
\* and one that it converts the place it had in the old.
LEMMA TicksSame ==
  ASSUME NEW mc \in Nat \ {0}, NEW beat \in Beats, beat # NoBeat, ~InScope(mc, beat)
  PROVE  TicksAt(mc, beat, "simple") = TicksAt(mc, beat, "compound")
  <1>1. MeterAt(mc) # DisputedMeter
    BY DEF InScope
  <1>2. Counted(mc) \in Sigs /\ Counted(mc) # DisputedMeter
    BY <1>1, MeterTypes DEF Counted, DisputedMeter
  <1>3. QED
    BY <1>2, GrainsAgree DEF TicksAt

LEMMA TicksConverted ==
  ASSUME NEW mc \in Nat \ {0}, NEW beat \in Beats, InScope(mc, beat)
  PROVE  TicksAt(mc, 3 * beat - 12, "simple") = TicksAt(mc, beat, "compound")
  <1>1. Counted(mc) = DisputedMeter /\ Counted(mc) \in Sigs
    BY MeterTypes DEF InScope, Counted, DisputedMeter, NoMeter
  <1>2. TicksAt(mc, 3 * beat - 12, "simple") = ((3 * beat - 12) - 6) * 4
        /\ TicksAt(mc, beat, "compound") = (beat - 6) * 12
    BY <1>1, GrainsAgree DEF TicksAt
  <1>3. QED
    BY <1>2 DEF Beats

LEMMA Scaled ==
  ASSUME NEW a \in Int, NEW b \in Int, NEW g \in Nat \ {0}
  PROVE  /\ a < b <=> (a - 6) * g < (b - 6) * g
         /\ a <= b <=> (a - 6) * g <= (b - 6) * g
         /\ (a - 6) * g \in Int
  <1>1. \A x \in Nat \ {0} : x * g >= 1
    OBVIOUS
  <1>2. (b - 6) * g - (a - 6) * g = (b - a) * g
    OBVIOUS
  <1>3. (a - 6) * g - (b - 6) * g = (a - b) * g
    OBVIOUS
  <1>4. (a - 6) * g \in Int /\ (b - 6) * g \in Int
    OBVIOUS
  <1>5. CASE a < b
    <2>1. (b - a) * g >= 1
      <3>1. b - a \in Nat \ {0}
        BY <1>5
      <3>2. QED
        BY <1>1, <3>1
    <2>2. QED
      BY <1>2, <1>4, <1>5, <2>1
  <1>6. CASE b < a
    <2>1. (a - b) * g >= 1
      <3>1. a - b \in Nat \ {0}
        BY <1>6
      <3>2. QED
        BY <1>1, <3>1
    <2>2. QED
      BY <1>3, <1>4, <1>6, <2>1
  <1>7. CASE a = b
    BY <1>4, <1>7
  <1>8. QED
    BY <1>5, <1>6, <1>7

\* A stage that _assert_contained admits lies within its fragment in the score.
LEMMA ContainedWithin ==
  ASSUME NEW c \in RowType, NEW p \in RowType, Contained(c, p),
         c.beatEnd # NoBeat => TicksAt(c.mcEnd, c.beatEnd, "simple") <= BarLength(Counted(c.mcEnd))
  PROVE  Within(Extent(c, "simple"), Extent(p, "simple")) = Extent(c, "simple")
  <1> DEFINE d == Extent(c, "simple")
             o == Extent(p, "simple")
  <1>1. /\ c.mcStart \in Nat \ {0} /\ c.mcEnd \in Nat \ {0} /\ c.beatStart \in Beats /\ c.beatEnd \in Beats
        /\ p.mcStart \in Nat \ {0} /\ p.mcEnd \in Nat \ {0} /\ p.beatStart \in Beats /\ p.beatEnd \in Beats
        /\ d \in ExtentType /\ o \in ExtentType
    BY ExtentTyped DEF RowType
  <1>2. ~Earlier(<<d.mcStart, d.from>>, <<o.mcStart, o.from>>)
    <2> DEFINE g == Grain(Counted(c.mcStart), "simple")
    <2>1. g \in Nat \ {0}
      BY <1>1, MeterTypes, GrainType
    <2>2. CASE c.mcStart = p.mcStart
      <3>1. ~(c.beatStart < p.beatStart)
        BY <2>2 DEF Contained, Earlier
      <3>2. c.beatStart # NoBeat => d.from = (c.beatStart - 6) * g
        BY ExtentIs DEF TicksAt
      <3>3. p.beatStart # NoBeat => o.from = (p.beatStart - 6) * g
        BY <2>2, ExtentIs DEF TicksAt
      <3>4. (c.beatStart = NoBeat => d.from = 0) /\ (p.beatStart = NoBeat => o.from = 0)
        BY ExtentIs
      <3> HIDE DEF g
      <3>5. o.from <= d.from
        <4>1. CASE p.beatStart = NoBeat
          <5>1. c.beatStart # NoBeat => (6 - 6) * g <= (c.beatStart - 6) * g
            <6>1. c.beatStart # NoBeat => c.beatStart \in Int /\ 6 <= c.beatStart
              BY <1>1 DEF Beats, NoBeat
            <6>2. QED
              BY <2>1, <6>1, Scaled
          <5>2. (6 - 6) * g = 0
            BY <2>1
          <5>3. QED
            BY <3>2, <3>4, <4>1, <5>1, <5>2
        <4>2. CASE p.beatStart # NoBeat
          <5>1. c.beatStart # NoBeat /\ p.beatStart <= c.beatStart /\ c.beatStart \in Int /\ p.beatStart \in Int
            BY <1>1, <3>1, <4>2 DEF Beats, NoBeat
          <5>2. (p.beatStart - 6) * g <= (c.beatStart - 6) * g
            BY <2>1, <5>1, Scaled
          <5>3. QED
            BY <3>2, <3>3, <4>2, <5>1, <5>2
        <4>3. QED
          BY <4>1, <4>2
      <3>6. QED
        BY <1>1, <2>2, <3>5, ExtentIs DEF Earlier, ExtentType
    <2>3. CASE c.mcStart # p.mcStart
      BY <1>1, <2>3, ExtentIs DEF Contained, Earlier
    <2>4. QED
      BY <2>2, <2>3
  <1>3. ~Earlier(<<o.mcEnd, o.to>>, <<d.mcEnd, d.to>>)
    <2> DEFINE g == Grain(Counted(c.mcEnd), "simple")
    <2>1. g \in Nat \ {0}
      BY <1>1, MeterTypes, GrainType
    <2>2. CASE c.mcEnd = p.mcEnd
      <3>1. c.beatEnd # NoBeat => d.to = (c.beatEnd - 6) * g
        BY ExtentIs DEF TicksAt
      <3>2. p.beatEnd # NoBeat => o.to = (p.beatEnd - 6) * g
        BY <2>2, ExtentIs DEF TicksAt
      <3>3. /\ c.beatEnd = NoBeat => d.to = BarLength(Counted(c.mcEnd))
            /\ p.beatEnd = NoBeat => o.to = BarLength(Counted(c.mcEnd))
            /\ BarLength(Counted(c.mcEnd)) \in Nat
        BY <1>1, <2>2, ExtentIs, MeterTypes, FullBar
      <3>4. c.beatEnd # NoBeat => d.to <= BarLength(Counted(c.mcEnd))
        BY ExtentIs
      <3>5. d.to <= o.to
        <4>1. CASE p.beatEnd = NoBeat
          BY <3>3, <3>4, <4>1
        <4>2. CASE p.beatEnd # NoBeat
          <5>1. c.beatEnd # NoBeat /\ c.beatEnd <= p.beatEnd /\ c.beatEnd \in Int /\ p.beatEnd \in Int
            BY <1>1, <2>2, <4>2 DEF Contained, Beats, NoBeat
          <5> HIDE DEF g
          <5>2. (c.beatEnd - 6) * g <= (p.beatEnd - 6) * g
            BY <2>1, <5>1, Scaled
          <5>3. QED
            BY <3>1, <3>2, <4>2, <5>1, <5>2
        <4>3. QED
          BY <4>1, <4>2
      <3>6. QED
        BY <1>1, <2>2, <3>5, ExtentIs DEF Earlier, ExtentType
    <2>3. CASE c.mcEnd # p.mcEnd
      BY <1>1, <2>3, ExtentIs DEF Contained, Earlier
    <2>4. QED
      BY <2>2, <2>3
  <1>4. Within(d, o) = [mcStart |-> d.mcStart, from |-> d.from, mcEnd |-> d.mcEnd, to |-> d.to]
    BY <1>2, <1>3 DEF Within
  <1> HIDE DEF d, o
  <1>5. Within(d, o) = d
    BY <1>1, <1>4 DEF ExtentType
  <1>6. QED
    BY <1>5 DEF d, o

LEMMA WithinTyped ==
  ASSUME NEW d \in ExtentType, NEW o \in ExtentType
  PROVE  /\ Within(d, o) \in ExtentType
         /\ Within(Within(d, o), o) = Within(d, o)
         /\ Within(d, d) = d
  <1> DEFINE w == Within(d, o)
             early == Earlier(<<d.mcStart, d.from>>, <<o.mcStart, o.from>>)
             late == Earlier(<<o.mcEnd, o.to>>, <<d.mcEnd, d.to>>)
  <1>1. \A n, m \in Int : ~Earlier(<<n, m>>, <<n, m>>)
    BY DEF Earlier
  <1>2. /\ w \in ExtentType
        /\ w.mcStart = IF early THEN o.mcStart ELSE d.mcStart
        /\ w.from = IF early THEN o.from ELSE d.from
        /\ w.mcEnd = IF late THEN o.mcEnd ELSE d.mcEnd
        /\ w.to = IF late THEN o.to ELSE d.to
    BY DEF Within, ExtentType
  <1>3. ~Earlier(<<w.mcStart, w.from>>, <<o.mcStart, o.from>>)
    BY <1>1, <1>2 DEF ExtentType
  <1>4. ~Earlier(<<o.mcEnd, o.to>>, <<w.mcEnd, w.to>>)
    BY <1>1, <1>2 DEF ExtentType
  <1> HIDE DEF w
  <1>5. Within(w, o) = w
    <2>1. Within(w, o) = [mcStart |-> w.mcStart, from |-> w.from, mcEnd |-> w.mcEnd, to |-> w.to]
      BY <1>3, <1>4 DEF Within
    <2>2. QED
      BY <1>2, <2>1 DEF ExtentType
  <1>6. Within(d, d) = d
    <2>1. Within(d, d) = [mcStart |-> d.mcStart, from |-> d.from, mcEnd |-> d.mcEnd, to |-> d.to]
      BY <1>1 DEF Within, ExtentType
    <2>2. QED
      BY <2>1 DEF ExtentType
  <1>7. QED
    BY <1>2, <1>5, <1>6 DEF w

-----------------------------------------------------------------------------
(* The clamp, in a movement that keeps its meter.                           *)

\* A stretch of the score between two keys, where a sixth of a beat is g ticks.
Between(s, e, g) ==
    [mcStart |-> s[1], mcEnd |-> e[1], from |-> (s[2] - 6) * g, to |-> (e[2] - 6) * g]

LEMMA ExtentByKeys ==
  ASSUME OneMeter, StartingMeter # NoMeter, NEW r \in RowType
  PROVE  Extent(r, "simple") = Between(StartKey(r), EndKey(r, MeasureEndBeat(StartingMeter)),
                                       Grain(StartingMeter, "simple"))
  <1> DEFINE g == Grain(StartingMeter, "simple")
             end == MeasureEndBeat(StartingMeter)
  <1>1. /\ r.mcStart \in Nat \ {0} /\ r.mcEnd \in Nat \ {0}
        /\ Counted(r.mcStart) = StartingMeter /\ Counted(r.mcEnd) = StartingMeter
    BY MeterEverywhere DEF RowType
  <1>2. StartingMeter \in Sigs
    BY StartType
  <1>3. g \in Nat \ {0} /\ (end - 6) * g = BarLength(StartingMeter)
    BY <1>2, GrainType, FullBar
  <1> HIDE DEF g, end
  <1>4. (IF r.beatStart = NoBeat THEN 0 ELSE (r.beatStart - 6) * g) = (StartKey(r)[2] - 6) * g
    <2>1. (6 - 6) * g = 0
      BY <1>3
    <2>2. QED
      BY <2>1 DEF StartKey
  <1>5. (IF r.beatEnd = NoBeat THEN BarLength(StartingMeter) ELSE (r.beatEnd - 6) * g)
          = (EndKey(r, end)[2] - 6) * g
    BY <1>3 DEF EndKey
  <1>6. StartKey(r)[1] = r.mcStart /\ EndKey(r, end)[1] = r.mcEnd
    BY DEF StartKey, EndKey
  <1>7. Extent(r, "simple") =
          [mcStart |-> r.mcStart, mcEnd |-> r.mcEnd,
           from |-> IF r.beatStart = NoBeat THEN 0 ELSE (r.beatStart - 6) * g,
           to |-> IF r.beatEnd = NoBeat THEN BarLength(StartingMeter) ELSE (r.beatEnd - 6) * g]
    BY <1>1 DEF Extent, TicksAt, g
  <1>8. QED
    BY <1>4, <1>5, <1>6, <1>7 DEF Between, g, end

LEMMA ScaledKeys ==
  ASSUME NEW p \in Nat \X Nat, NEW q \in Nat \X Nat, NEW g \in Nat \ {0}
  PROVE  Earlier(<<p[1], (p[2] - 6) * g>>, <<q[1], (q[2] - 6) * g>>) <=> Earlier(p, q)
  <1>1. p[2] < q[2] <=> (p[2] - 6) * g < (q[2] - 6) * g
    BY Scaled
  <1>2. QED
    BY <1>1 DEF Earlier

LEMMA WithinKeys ==
  ASSUME NEW s \in Nat \X Nat, NEW e \in Nat \X Nat, NEW t \in Nat \X Nat, NEW u \in Nat \X Nat,
         NEW g \in Nat \ {0}
  PROVE  Within(Between(s, e, g), Between(t, u, g)) =
           Between(IF Earlier(s, t) THEN t ELSE s, IF Earlier(u, e) THEN u ELSE e, g)
  <1> DEFINE d == Between(s, e, g)
             o == Between(t, u, g)
             early == Earlier(s, t)
             late == Earlier(u, e)
  <1>1. Earlier(<<d.mcStart, d.from>>, <<o.mcStart, o.from>>) <=> early
    BY ScaledKeys DEF Between
  <1>2. Earlier(<<o.mcEnd, o.to>>, <<d.mcEnd, d.to>>) <=> late
    BY ScaledKeys DEF Between
  <1>3. Within(d, o) = [mcStart |-> IF early THEN o.mcStart ELSE d.mcStart,
                        from |-> IF early THEN o.from ELSE d.from,
                        mcEnd |-> IF late THEN o.mcEnd ELSE d.mcEnd,
                        to |-> IF late THEN o.to ELSE d.to]
    BY <1>1, <1>2 DEF Within
  <1> HIDE DEF early, late
  <1>4. Within(d, o) = Between(IF early THEN t ELSE s, IF late THEN u ELSE e, g)
    BY <1>3 DEF Between
  <1>5. QED
    BY <1>4 DEF early, late

\* What the clamp makes of a stage covers what of it lies within the fragment.
LEMMA ClampPlaces ==
  ASSUME OneMeter, StartingMeter # NoMeter, NEW c \in RowType, NEW p \in RowType
  PROVE  LET end == MeasureEndBeat(StartingMeter)
             x == Paired(Clipped(c, p, end), end)
         IN  /\ x \in RowType
             /\ Extent(x, "simple") = Within(Extent(c, "simple"), Extent(p, "simple"))
             /\ NoThirds(c) /\ NoThirds(p) => NoThirds(x)
  <1> DEFINE end == MeasureEndBeat(StartingMeter)
             g == Grain(StartingMeter, "simple")
             y == Clipped(c, p, end)
             x == Paired(y, end)
  <1>1. end \in Beats /\ end >= 6 /\ end % 6 = 0 /\ g \in Nat \ {0}
    BY StartType, MeasureEndTyped, GrainType
  <1>2. y \in RowType
    BY <1>1, ClippedIs
  <1>3. x \in RowType /\ StartKey(x) = StartKey(y) /\ EndKey(x, end) = EndKey(y, end)
    BY <1>1, <1>2, PairedIs, PairedKeys
  <1>4. Extent(x, "simple") = Within(Extent(c, "simple"), Extent(p, "simple"))
    <2>1. /\ Extent(x, "simple") = Between(StartKey(x), EndKey(x, end), g)
          /\ Extent(c, "simple") = Between(StartKey(c), EndKey(c, end), g)
          /\ Extent(p, "simple") = Between(StartKey(p), EndKey(p, end), g)
      BY <1>3, ExtentByKeys
    <2>2. /\ StartKey(c) \in Nat \X Nat /\ EndKey(c, end) \in Nat \X Nat
          /\ StartKey(p) \in Nat \X Nat /\ EndKey(p, end) \in Nat \X Nat
      BY <1>1, KeyTypes
    <2>3. /\ StartKey(y) = IF Earlier(StartKey(c), StartKey(p)) THEN StartKey(p) ELSE StartKey(c)
          /\ EndKey(y, end) = IF Earlier(EndKey(p, end), EndKey(c, end))
                               THEN EndKey(p, end) ELSE EndKey(c, end)
      BY <1>1, ClippedKeys
    <2> HIDE DEF x, y, g, end
    <2>4. QED
      BY <1>1, <1>3, <2>1, <2>2, <2>3, WithinKeys
  <1>5. ASSUME NoThirds(c), NoThirds(p) PROVE NoThirds(x)
    <2>1. /\ (y.mcStart = p.mcStart /\ y.beatStart = p.beatStart)
             \/ (y.mcStart = c.mcStart /\ y.beatStart = c.beatStart)
          /\ (y.mcEnd = p.mcEnd /\ y.beatEnd = p.beatEnd)
             \/ (y.mcEnd = c.mcEnd /\ y.beatEnd = c.beatEnd)
      <3> DEFINE early == Earlier(StartKey(c), StartKey(p))
                 late == Earlier(EndKey(p, end), EndKey(c, end))
      <3>1. /\ y.mcStart = IF early THEN p.mcStart ELSE c.mcStart
            /\ y.beatStart = IF early THEN p.beatStart ELSE c.beatStart
            /\ y.mcEnd = IF late THEN p.mcEnd ELSE c.mcEnd
            /\ y.beatEnd = IF late THEN p.beatEnd ELSE c.beatEnd
        BY <1>1, ClippedIs
      <3> HIDE DEF early, late, y
      <3>2. QED
        BY <3>1
    <2>2. NoThirds(y)
      BY <1>5, <2>1 DEF NoThirds
    <2>3. /\ x.mcStart = y.mcStart /\ x.mcEnd = y.mcEnd
          /\ x.beatStart \in {6, y.beatStart} /\ x.beatEnd \in {end, y.beatEnd}
      BY <1>1, <1>2, PairedIs
    <2>4. end \notin {8, 10}
      BY <1>1
    <2> HIDE DEF x, y, end
    <2>5. QED
      BY <2>2, <2>3, <2>4 DEF NoThirds
  <1>6. QED
    BY <1>3, <1>4, <1>5

-----------------------------------------------------------------------------
(* The record and the snapshots.                                            *)

LEMMA RecordStep ==
  ASSUME TypeInv, RecordInv, [Next]_vars
  PROVE  RecordInv'
  <1>1. ASSUME NEW readable \in BOOLEAN, RepairMovementMeter(readable) PROVE RecordInv'
    <2> DEFINE known == readable /\ StartingMeter # NoMeter
               m == IF known /\ StartingMeter # run.meter THEN StartingMeter ELSE meter
    <2>1. run.script = "movement_meter" /\ Commit(rows, m, known, readable) /\ run # NoRun
      BY <1>1, MovementCommit, NoRunTyped
    <2>2. run.meter = meter
      BY <2>1 DEF RecordInv
    <2>3. known => m = StartingMeter
      BY <2>2
    <2>4. /\ meter' = m /\ run' = NoRun
          /\ "movement_meter" \in clean' => known \/ "movement_meter" \in clean
      <3> HIDE DEF known, m
      <3>1. QED
        BY <2>1 DEF Commit
    <2>5. "movement_meter" \in clean' => m = StartingMeter /\ StartingMeter # NoMeter
      BY <2>3, <2>4 DEF RecordInv
    <2> HIDE DEF known, m
    <2>6. QED
      BY <2>4, <2>5, NoRunTyped DEF RecordInv
  <1>2. ASSUME run' = NoRun, meter' = meter, clean' \subseteq clean \cup {"summary_meter", "eighths", "clamp"}
        PROVE  RecordInv'
    BY <1>2, NoRunTyped DEF RecordInv
  <1>3. ASSUME NEW readable \in BOOLEAN, RepairSummaryMeter(readable) PROVE RecordInv'
    BY <1>2, <1>3, SummaryCommit DEF Commit
  <1>4. ASSUME NEW readable \in BOOLEAN, RepairEighths(readable) PROVE RecordInv'
    BY <1>2, <1>4, EighthsCommit DEF Commit
  <1>5. CASE Clamp
    BY <1>2, <1>5, ClampCommit DEF Commit
  <1>6. CASE Crash
    BY <1>2, <1>6 DEF Crash
  <1>7. CASE UNCHANGED <<meter, run, clean>>
    BY <1>7 DEF RecordInv
  <1>8. ASSUME NEW s \in Scripts, Begin(s) PROVE RecordInv'
    BY <1>8 DEF Begin, RecordInv
  <1>9. QED
    BY <1>1, <1>3, <1>4, <1>5, <1>6, <1>7, <1>8 DEF Next, Repair, Deploy, Save, vars

\* A column that a script does not set is left as it is.
LEMMA WrittenKeeps ==
  ASSUME RowsOk(rows), NEW repaired, NEW columns, \A f \in DOMAIN run.rows : repaired[f] \in RowType,
         NEW f \in DOMAIN rows
  PROVE  LET new == Written(repaired, columns)[f]
             old == rows[f]
         IN  /\ "id" \notin columns => new.id = old.id
             /\ columns = {"meter"} => Alike(new, old)
  <1> DEFINE x == [c \in DOMAIN rows[f] |-> IF c \in columns THEN repaired[f][c] ELSE rows[f][c]]
  <1>1. Written(repaired, columns)[f] = rows[f]
        \/ (f \in DOMAIN run.rows /\ Written(repaired, columns)[f] = x)
    BY DEF Written
  <1>2. rows[f] \in RowType
    BY DEF RowsOk
  <1>3. ASSUME f \in DOMAIN run.rows
        PROVE  /\ x.id = IF "id" \in columns THEN repaired[f].id ELSE rows[f].id
               /\ x.mcStart = IF "mcStart" \in columns THEN repaired[f].mcStart ELSE rows[f].mcStart
               /\ x.mcEnd = IF "mcEnd" \in columns THEN repaired[f].mcEnd ELSE rows[f].mcEnd
               /\ x.beatStart = IF "beatStart" \in columns THEN repaired[f].beatStart ELSE rows[f].beatStart
               /\ x.beatEnd = IF "beatEnd" \in columns THEN repaired[f].beatEnd ELSE rows[f].beatEnd
    <2>1. repaired[f] \in RowType
      BY <1>3
    <2>2. QED
      BY <1>2, <2>1, Mixed
  <1> HIDE DEF x
  <1>4. CASE Written(repaired, columns)[f] = rows[f]
    BY <1>4 DEF Alike
  <1>5. CASE f \in DOMAIN run.rows /\ Written(repaired, columns)[f] = x
    <2>1. "id" \notin columns => x.id = rows[f].id
      BY <1>3, <1>5
    <2>2. columns = {"meter"} => Alike(x, rows[f])
      <3>1. columns = {"meter"} => /\ "id" \notin columns /\ "mcStart" \notin columns /\ "mcEnd" \notin columns
                                  /\ "beatStart" \notin columns /\ "beatEnd" \notin columns
        OBVIOUS
      <3>2. QED
        BY <1>3, <1>5, <3>1 DEF Alike
    <2>3. QED
      BY <1>5, <2>1, <2>2
  <1>6. QED
    BY <1>1, <1>4, <1>5

LEMMA SummaryKeeps ==
  ASSUME TypeInv, NEW readable \in BOOLEAN, NEW f \in DOMAIN rows
  PROVE  Alike(SummaryRows(readable)[f], rows[f])
  <1> DEFINE repaired == [g \in DOMAIN run.rows |-> WithMeter(g, readable)]
  <1>1. RowsOk(rows) /\ \A g \in DOMAIN run.rows : repaired[g] \in RowType
    BY WithMeterTyped DEF TypeInv
  <1> HIDE DEF repaired
  <1>2. Alike(Written(repaired, {"meter"})[f], rows[f])
    BY <1>1, WrittenKeeps
  <1>3. QED
    BY <1>2 DEF SummaryRows, repaired

\* A script keeps the ids.
LEMMA IdsStay ==
  ASSUME TypeInv, [Next]_vars, NEW f \in DOMAIN rows,
         ~(\E w \in Wholes, t \in NewTaggings : Save(w, t))
  PROVE  rows'[f].id = rows[f].id
  <1>1. CASE rows' = rows
    BY <1>1
  <1>2. ASSUME NEW readable \in BOOLEAN, RepairSummaryMeter(readable) PROVE rows'[f].id = rows[f].id
    BY <1>2, SummaryCommit, SummaryKeeps DEF Commit, Alike
  <1>3. ASSUME NEW readable \in BOOLEAN, RepairEighths(readable) PROVE rows'[f].id = rows[f].id
    <2>1. rows' = EighthsRows(readable)
      BY <1>3, EighthsCommit DEF Commit
    <2>2. CASE readable /\ Convertible
      <3> DEFINE repaired == [g \in DOMAIN run.rows |-> Converted(g)]
      <3>1. RowsOk(rows) /\ \A g \in DOMAIN run.rows : repaired[g] \in RowType
        BY <2>2, ConvertedTyped DEF TypeInv, Convertible
      <3> HIDE DEF repaired
      <3>2. "id" \notin {"beatStart", "beatEnd"}
        OBVIOUS
      <3>3. Written(repaired, {"beatStart", "beatEnd"})[f].id = rows[f].id
        BY <3>1, <3>2, WrittenKeeps
      <3>4. QED
        BY <2>1, <2>2, <3>3 DEF EighthsRows, repaired
    <2>3. QED
      BY <2>1, <2>2 DEF EighthsRows
  <1>4. CASE Clamp
    <2> DEFINE repaired == [g \in DOMAIN run.rows |-> ClampedIn(run.rows, run.meter, g)]
    <2>1. RowsOk(rows) /\ \A g \in DOMAIN run.rows : repaired[g] \in RowType
      BY ClampedTyped DEF TypeInv
    <2> HIDE DEF repaired
    <2>2. "id" \notin ClampColumns
      BY DEF ClampColumns
    <2>3. Written(repaired, ClampColumns)[f].id = rows[f].id
      BY <2>1, <2>2, WrittenKeeps
    <2>4. rows' = ClampRows
      BY <1>4, ClampCommit DEF Commit
    <2>5. QED
      BY <2>3, <2>4 DEF ClampRows, repaired
  <1>5. ASSUME NEW readable \in BOOLEAN, RepairMovementMeter(readable) PROVE rows' = rows
    BY <1>5 DEF RepairMovementMeter, Commit
  <1>6. Deploy \/ Crash \/ (\E s \in Scripts : Begin(s)) \/ UNCHANGED vars => rows' = rows
    BY DEF Deploy, Crash, Begin, vars
  <1>7. QED
    BY <1>1, <1>2, <1>3, <1>4, <1>5, <1>6 DEF Next, Repair

LEMMA SnapshotStep ==
  ASSUME TypeInv, TaggedInv, SnapshotInv, [Next]_vars
  PROVE  SnapshotInv'
  <1>1. ASSUME NEW w \in Wholes, NEW t \in NewTaggings, Save(w, t) PROVE SnapshotInv'
    <2>1. /\ run' = run /\ saves' = saves + 1 /\ saves \in Nat
          /\ DOMAIN rows \subseteq DOMAIN rows'
          /\ \A f \in DOMAIN rows' : SaveLeaves(w, t, f)
      BY <1>1, SaveStep DEF TaggedInv, TypeInv
    <2>2. ASSUME NEW f \in {w} \X Places
          PROVE  Saved(w, t)[f].id = IF Stage(f) THEN saves + 1 ELSE 0
      BY DEF Saved, Row
    <2>3. ASSUME NEW f \in DOMAIN rows' PROVE rows'[f].id <= saves'
      <3>1. CASE f[1] = w
        BY <2>1, <2>2, <3>1 DEF SaveLeaves
      <3>2. CASE f[1] # w
        <4>1. rows'[f] = rows[f] /\ f \in DOMAIN rows
          BY <2>1, <3>2 DEF SaveLeaves
        <4>2. rows[f].id \in Nat /\ rows[f].id <= saves
          BY <4>1 DEF SnapshotInv, TypeInv, RowsOk, RowType
        <4>3. QED
          BY <2>1, <4>1, <4>2
      <3>3. QED
        BY <3>1, <3>2
    <2>4. ASSUME NEW f \in DOMAIN run.rows
          PROVE  /\ run.rows[f].id \in Nat /\ run.rows[f].id <= saves
                 /\ Stage(f) /\ rows'[f].id = run.rows[f].id =>
                       rows'[f] = run.rows[f] /\ rows'[Parent(f)] = run.rows[Parent(f)]
      <3>1. run.rows[f].id \in Nat /\ run.rows[f].id <= saves
        BY DEF SnapshotInv, TypeInv, RowsOk, RowType
      <3>2. f \in DOMAIN rows' /\ f \in DOMAIN rows /\ Parent(f) \in DOMAIN rows'
        BY <2>1 DEF SnapshotInv, TypeInv, RowsOk
      <3>3. CASE f[1] = w
        <4>1. Stage(f) => rows'[f].id = saves + 1
          BY <2>1, <2>2, <3>2, <3>3 DEF SaveLeaves
        <4>2. QED
          BY <2>1, <3>1, <4>1
      <3>4. CASE f[1] # w
        <4>1. rows'[f] = rows[f]
          BY <2>1, <3>2, <3>4 DEF SaveLeaves
        <4>2. Parent(f)[1] # w
          BY <3>4 DEF Parent
        <4>3. rows'[Parent(f)] = rows[Parent(f)]
          BY <2>1, <3>2, <4>2 DEF SaveLeaves
        <4>4. QED
          BY <3>1, <4>1, <4>3 DEF SnapshotInv
      <3>5. QED
        BY <3>3, <3>4
    <2>5. ASSUME run # NoRun, NEW f \in DOMAIN rows', Stage(f), rows'[f].id = 0
          PROVE  f \in DOMAIN run.rows /\ run.rows[f].id = 0
      <3>1. f[1] # w
        BY <2>1, <2>2, <2>5 DEF SaveLeaves
      <3>2. f \in DOMAIN rows /\ rows[f].id = 0
        BY <2>1, <2>5, <3>1 DEF SaveLeaves
      <3>3. QED
        BY <2>5, <3>2 DEF SnapshotInv
    <2>6. DOMAIN run.rows \subseteq DOMAIN rows'
      BY <2>1 DEF SnapshotInv
    <2>7. \A f \in DOMAIN run.rows : run.rows[f].id <= saves'
      BY <2>1, <2>4
    <2>8. QED
      BY <2>1, <2>3, <2>4, <2>5, <2>6, <2>7 DEF SnapshotInv
  <1>2. ASSUME ~(\E w \in Wholes, t \in NewTaggings : Save(w, t)), NEW f \in DOMAIN rows'
        PROVE  rows'[f].id <= saves'
    BY <1>2, IdsStay, RowsStay DEF SnapshotInv
  <1>3. CASE UNCHANGED <<rows, run, saves>>
    BY <1>3 DEF SnapshotInv
  <1>4. ASSUME NEW s \in Scripts, Begin(s) PROVE SnapshotInv'
    <2>1. run'.rows = rows /\ rows' = rows /\ saves' = saves
      BY <1>4 DEF Begin
    <2>2. QED
      BY <2>1 DEF SnapshotInv
  <1>5. ASSUME run' = NoRun, ~(\E w \in Wholes, t \in NewTaggings : Save(w, t)) PROVE SnapshotInv'
    <2>1. DOMAIN run'.rows = {}
      BY <1>5 DEF NoRun
    <2>2. QED
      BY <1>2, <1>5, <2>1 DEF SnapshotInv
  <1>6. Deploy \/ UNCHANGED vars => UNCHANGED <<rows, run, saves>>
    BY DEF Deploy, vars
  <1>7. Repair => run' = NoRun \/ \E s \in Scripts : Begin(s)
    BY DEF Repair, RepairMovementMeter, RepairSummaryMeter, RepairEighths, Clamp, Crash, Commit
  <1>8. QED
    BY <1>1, <1>3, <1>4, <1>5, <1>6, <1>7 DEF Next

-----------------------------------------------------------------------------
(* Positions before the conversion.                                         *)

\* Where the old tool counted 3/8 as one beat, it offered its thirds.
LEMMA OldPoints ==
  ASSUME NEW mc \in Nat \ {0}, MeterAt(mc) = DisputedMeter, NEW n \in Nat,
         n <= BarLength(Counted(mc)), n % Step(Counted(mc), "compound") = 0
  PROVE  /\ n < BarLength(Counted(mc)) => BeatAt(mc, n, "compound") \in {6, 8, 10}
         /\ 1 <= n => BeatAt(mc, n, "compound") \in {8, 10, 12}
  <1>1. Counted(mc) = <<3, 8>> /\ Counted(mc) \in Sigs
    BY MeterTypes DEF Counted, DisputedMeter, NoMeter
  <1>2. Grain(Counted(mc), "compound") = 12
    BY <1>1, GrainsAgree DEF DisputedMeter
  <1>3. Step(Counted(mc), "compound") = 24 /\ BarLength(Counted(mc)) = 72
    BY <1>1, <1>2 DEF Step, Compound, BarLength
  <1>4. BeatAt(mc, n, "compound") = 6 + n \div 12
    BY <1>2 DEF BeatAt
  <1>5. n <= 72 /\ n % 24 = 0
    BY <1>3
  <1>6. n \in {0, 24, 48, 72}
    BY <1>5
  <1>7. QED
    BY <1>3, <1>4, <1>6

LEMMA FirstRowsOld ==
  ASSUME NEW e, Offered(e, "compound"), NEW sig
  PROVE  LET r == Row(0, e, "compound", sig)
         IN  /\ r.id = 0
             /\ InScope(r.mcStart, r.beatStart) => r.beatStart \in {6, 8, 10}
             /\ InScope(r.mcEnd, r.beatEnd) => r.beatEnd \in {8, 10, 12}
  <1> DEFINE r == Row(0, e, "compound", sig)
  <1>1. /\ r.id = 0 /\ r.mcStart = e.mcStart /\ r.mcEnd = e.mcEnd
        /\ r.beatStart = IF e.from = Edge THEN NoBeat ELSE BeatAt(e.mcStart, e.from, "compound")
        /\ r.beatEnd = IF e.to = Edge THEN NoBeat ELSE BeatAt(e.mcEnd, e.to, "compound")
    BY DEF Row
  <1> HIDE DEF r
  <1>2. /\ e.mcStart \in Nat \ {0} /\ e.mcEnd \in Nat \ {0}
        /\ BarLength(Counted(e.mcStart)) \in Nat
        /\ e.from # Edge => /\ e.from \in Nat /\ e.from < BarLength(Counted(e.mcStart))
                            /\ e.from % Step(Counted(e.mcStart), "compound") = 0
        /\ e.to # Edge => /\ e.to \in Nat /\ 1 <= e.to /\ e.to <= BarLength(Counted(e.mcEnd))
                          /\ e.to % Step(Counted(e.mcEnd), "compound") = 0
    BY OfferedBounds, MeterTypes, FullBar
  <1>3. ASSUME InScope(r.mcStart, r.beatStart) PROVE r.beatStart \in {6, 8, 10}
    <2>1. e.from # Edge /\ MeterAt(e.mcStart) = DisputedMeter
      BY <1>1, <1>3 DEF InScope
    <2>2. e.from <= BarLength(Counted(e.mcStart))
      BY <1>2, <2>1
    <2>3. QED
      BY <1>1, <1>2, <2>1, <2>2, OldPoints
  <1>4. ASSUME InScope(r.mcEnd, r.beatEnd) PROVE r.beatEnd \in {8, 10, 12}
    <2>1. e.to # Edge /\ MeterAt(e.mcEnd) = DisputedMeter
      BY <1>1, <1>4 DEF InScope
    <2>2. QED
      BY <1>1, <1>2, <2>1, OldPoints
  <1>5. QED
    BY <1>1, <1>3, <1>4 DEF r

LEMMA PlaceInit == Init => RecordInv /\ SnapshotInv /\ BeforeInv /\ AfterInv
  <1> SUFFICES ASSUME Init PROVE RecordInv /\ SnapshotInv /\ BeforeInv /\ AfterInv
    OBVIOUS
  <1>1. /\ run = NoRun /\ clean = {} /\ saves = 0 /\ DOMAIN run.rows = {} /\ run.script = "none"
        /\ tagged = [f \in DOMAIN rows |-> Extent(rows[f], "compound")]
    BY DEF Init, NoRun
  <1>2. PICK t \in [Legacy -> OldTaggings], sig \in Meters :
          rows = [f \in Legacy \X Places |-> Row(0, t[f[1]][f[2]], "compound", sig)]
    BY DEF Init
  <1>3. ASSUME NEW f \in DOMAIN rows PROVE OldRow(f)
    <2> DEFINE e == t[f[1]][f[2]]
    <2>1. f \in Legacy \X Places /\ rows[f] = Row(0, e, "compound", sig)
      BY <1>2
    <2>2. Offered(e, "compound")
      BY <2>1, FirstRows
    <2> HIDE DEF e
    <2>3. QED
      BY <1>1, <2>1, <2>2, FirstRowsOld DEF OldRow
  <1>4. RecordInv
    BY <1>1 DEF RecordInv
  <1>5. SnapshotInv
    BY <1>1, <1>3 DEF SnapshotInv, OldRow
  <1>6. BeforeInv /\ AfterInv
    BY <1>1, <1>3 DEF BeforeInv, AfterInv
  <1>7. QED
    BY <1>4, <1>5, <1>6

LEMMA BeforeStep ==
  ASSUME TypeInv, BeforeInv, [Next]_vars
  PROVE  BeforeInv'
  <1> SUFFICES ASSUME "eighths" \notin clean'
      PROVE  /\ "clamp" \notin clean'
             /\ \A f \in DOMAIN rows' : OldRow(f)'
             /\ run' # NoRun => run'.rows = rows' /\ run'.script # "clamp"
    BY DEF BeforeInv
  <1>1. clean \subseteq clean'
    BY DEF Next, Repair, Deploy, Save, Begin, RepairMovementMeter, RepairSummaryMeter,
           RepairEighths, Clamp, Crash, Commit, vars
  <1>2. /\ "eighths" \notin clean /\ "clamp" \notin clean
        /\ \A f \in DOMAIN rows : OldRow(f)
        /\ run # NoRun => run.rows = rows /\ run.script # "clamp"
    BY <1>1 DEF BeforeInv
  <1>3. ~(\E w \in Wholes, t \in NewTaggings : Save(w, t))
    BY <1>2 DEF Save
  <1>4. tagged' = tagged /\ DOMAIN rows' = DOMAIN rows
    BY <1>3, RowsStay
  <1>5. ASSUME \A f \in DOMAIN rows : Alike(rows'[f], rows[f])
        PROVE  \A f \in DOMAIN rows' : OldRow(f)'
    BY <1>2, <1>4, <1>5, AlikePlaces DEF OldRow, Alike
  <1>6. rows' = rows => \A f \in DOMAIN rows' : OldRow(f)'
    BY <1>5 DEF Alike
  <1>7. CASE Deploy \/ UNCHANGED vars
    BY <1>2, <1>6, <1>7 DEF Deploy, vars
  <1>8. ASSUME NEW s \in Scripts, Begin(s)
        PROVE  rows' = rows /\ clean' = clean /\ run'.rows = rows /\ run'.script # "clamp"
    BY <1>2, <1>8 DEF Begin
  <1>9. ASSUME NEW readable \in BOOLEAN, RepairMovementMeter(readable)
         PROVE  rows' = rows /\ run' = NoRun /\ "clamp" \notin clean'
    BY <1>2, <1>9 DEF RepairMovementMeter, Commit
  <1>10. ASSUME NEW readable \in BOOLEAN, RepairSummaryMeter(readable)
         PROVE  /\ \A f \in DOMAIN rows : Alike(rows'[f], rows[f])
                /\ run' = NoRun /\ "clamp" \notin clean'
    BY <1>2, <1>10, SummaryCommit, SummaryKeeps DEF Commit
  <1>11. ASSUME NEW readable \in BOOLEAN, RepairEighths(readable)
         PROVE  rows' = rows /\ run' = NoRun /\ "clamp" \notin clean'
    <2>1. run.script = "eighths" /\ Commit(EighthsRows(readable), meter, EighthsSound(readable), readable)
      BY <1>11, EighthsCommit
    <2>2. ~EighthsSound(readable)
      BY <2>1 DEF Commit
    <2>3. EighthsRows(readable) = rows
      BY <2>2 DEF EighthsRows, EighthsSound
    <2>4. QED
      BY <1>2, <2>1, <2>3 DEF Commit
  <1>12. ~Clamp
    BY <1>2, NoRunTyped DEF Clamp
  <1>13. ASSUME Repair
         PROVE  \/ \E s \in Scripts : Begin(s)
                \/ run' = NoRun /\ "clamp" \notin clean' /\ \A f \in DOMAIN rows : Alike(rows'[f], rows[f])
    <2>1. rows' = rows => \A f \in DOMAIN rows : Alike(rows'[f], rows[f])
      BY DEF Alike
    <2>2. Crash => rows' = rows /\ run' = NoRun /\ "clamp" \notin clean'
      BY <1>2 DEF Crash
    <2>3. QED
      BY <1>9, <1>10, <1>11, <1>12, <1>13, <2>1, <2>2 DEF Repair
  <1>14. CASE Repair
    <2>1. CASE \E s \in Scripts : Begin(s)
      BY <1>2, <1>6, <1>8, <2>1
    <2>2. CASE ~(\E s \in Scripts : Begin(s))
      BY <1>5, <1>13, <1>14, <2>2
    <2>3. QED
      BY <2>1, <2>2
  <1>15. QED
    BY <1>3, <1>7, <1>14 DEF Next

-----------------------------------------------------------------------------
(* The conversion.                                                          *)

\* A bound that is not in 3/8 is read alike.
LEMMA BeatStays ==
  ASSUME NEW mc \in Nat \ {0}, NEW beat \in Beats, ~InScope(mc, beat)
  PROVE  beat = NoBeat \/ TicksAt(mc, beat, "simple") = TicksAt(mc, beat, "compound")
  BY TicksSame

\* A row with no beat in 3/8 covers the same in either reading.
LEMMA ExtentStays ==
  ASSUME NEW r \in RowType, ~InScope(r.mcStart, r.beatStart), ~InScope(r.mcEnd, r.beatEnd)
  PROVE  Extent(r, "simple") = Extent(r, "compound") /\ NoThirds(r)
  <1>1. r.mcStart \in Nat \ {0} /\ r.mcEnd \in Nat \ {0} /\ r.beatStart \in Beats /\ r.beatEnd \in Beats
    BY DEF RowType
  <1>2. /\ r.beatStart = NoBeat \/ TicksAt(r.mcStart, r.beatStart, "simple") = TicksAt(r.mcStart, r.beatStart, "compound")
        /\ r.beatEnd = NoBeat \/ TicksAt(r.mcEnd, r.beatEnd, "simple") = TicksAt(r.mcEnd, r.beatEnd, "compound")
    BY <1>1, BeatStays
  <1>3. QED
    BY <1>2 DEF Extent, NoThirds

\* The conversion keeps the place of each bound.
LEMMA ConvertedPlaces ==
  ASSUME TypeInv, NEW f \in DOMAIN run.rows, Starts \cup Ends \subseteq OldGrid
  PROVE  /\ Extent(Converted(f), "simple") = Extent(run.rows[f], "compound")
         /\ NoThirds(Converted(f))
  <1> DEFINE old == run.rows[f]
             new == Converted(f)
  <1>1. /\ old \in RowType /\ new \in RowType
        /\ new.mcStart = old.mcStart /\ new.mcEnd = old.mcEnd
        /\ new.beatStart = IF InScope(old.mcStart, old.beatStart)
                           THEN 3 * old.beatStart - 12 ELSE old.beatStart
        /\ new.beatEnd = IF InScope(old.mcEnd, old.beatEnd)
                         THEN 3 * old.beatEnd - 12 ELSE old.beatEnd
        /\ InScope(old.mcStart, old.beatStart) => new.beatStart \in {6, 12, 18, 24}
        /\ InScope(old.mcEnd, old.beatEnd) => new.beatEnd \in {6, 12, 18, 24}
    <2>1. old \in RowType
      BY DEF TypeInv, RowsOk
    <2>2. "mcStart" \in DOMAIN old /\ "mcEnd" \in DOMAIN old
      BY <2>1 DEF RowType
    <2> HIDE DEF old
    <2>3. QED
      BY <2>1, <2>2, ConvertedTyped DEF old
  <1> HIDE DEF old, new
  <1>2. /\ old.mcStart \in Nat \ {0} /\ old.mcEnd \in Nat \ {0}
        /\ old.beatStart \in Beats /\ old.beatEnd \in Beats
    BY <1>1 DEF RowType
  <1>3. Extent(new, "simple").from = Extent(old, "compound").from
    <2>1. CASE InScope(old.mcStart, old.beatStart)
      <3>1. TicksAt(old.mcStart, 3 * old.beatStart - 12, "simple") = TicksAt(old.mcStart, old.beatStart, "compound")
        BY <1>2, <2>1, TicksConverted
      <3>2. old.beatStart # NoBeat /\ new.beatStart # NoBeat
        BY <1>1, <2>1 DEF InScope, NoBeat
      <3>3. QED
        BY <1>1, <2>1, <3>1, <3>2, ExtentIs
    <2>2. CASE ~InScope(old.mcStart, old.beatStart)
      BY <1>1, <1>2, <2>2, BeatStays, ExtentIs
    <2>3. QED
      BY <2>1, <2>2
  <1>4. Extent(new, "simple").to = Extent(old, "compound").to
    <2>1. CASE InScope(old.mcEnd, old.beatEnd)
      <3>1. TicksAt(old.mcEnd, 3 * old.beatEnd - 12, "simple") = TicksAt(old.mcEnd, old.beatEnd, "compound")
        BY <1>2, <2>1, TicksConverted
      <3>2. old.beatEnd # NoBeat /\ new.beatEnd # NoBeat
        BY <1>1, <2>1 DEF InScope, NoBeat
      <3>3. QED
        BY <1>1, <2>1, <3>1, <3>2, ExtentIs
    <2>2. CASE ~InScope(old.mcEnd, old.beatEnd)
      BY <1>1, <1>2, <2>2, BeatStays, ExtentIs
    <2>3. QED
      BY <2>1, <2>2
  <1>5. Extent(new, "simple") = Extent(old, "compound")
    <2>1. Extent(new, "simple") \in ExtentType /\ Extent(old, "compound") \in ExtentType
      BY <1>1, ExtentTyped
    <2>2. /\ Extent(new, "simple").mcStart = Extent(old, "compound").mcStart
          /\ Extent(new, "simple").mcEnd = Extent(old, "compound").mcEnd
      BY <1>1, ExtentIs
    <2>3. QED
      BY <1>3, <1>4, <2>1, <2>2, SameExtent
  <1>6. NoThirds(new)
    <2>1. ASSUME InScope(new.mcStart, new.beatStart) PROVE new.beatStart \notin {8, 10}
      BY <1>1, <2>1 DEF InScope
    <2>2. ASSUME InScope(new.mcEnd, new.beatEnd) PROVE new.beatEnd \notin {8, 10}
      BY <1>1, <2>2 DEF InScope
    <2>3. QED
      BY <2>1, <2>2 DEF NoThirds
  <1>7. QED
    BY <1>5, <1>6 DEF old, new

\* The first conversion that reports success leaves every row where it was tagged.
LEMMA FirstConversion ==
  ASSUME TypeInv, BeforeInv, "eighths" \notin clean, NEW readable \in BOOLEAN,
         RepairEighths(readable), EighthsSound(readable), NEW f \in DOMAIN rows
  PROVE  /\ Extent(EighthsRows(readable)[f], "simple") = tagged[f]
         /\ NoThirds(EighthsRows(readable)[f])
         /\ EighthsRows(readable)[f].id = 0
  <1> DEFINE new == EighthsRows(readable)[f]
             repaired == [g \in DOMAIN run.rows |-> Converted(g)]
  <1>1. /\ run.rows = rows /\ \A g \in DOMAIN rows : OldRow(g) /\ rows[g] \in RowType
        /\ RowsOk(rows)
    <2>1. run # NoRun
      BY NoRunTyped DEF RepairEighths
    <2>2. QED
      BY <2>1 DEF BeforeInv, TypeInv, RowsOk
  <1>2. rows[f].id = 0 /\ Extent(rows[f], "compound") = tagged[f] /\ rows[f] \in RowType
    BY <1>1 DEF OldRow
  <1>3. CASE readable /\ Convertible
    <2>1. Starts \cup Ends \subseteq OldGrid /\ f \in DOMAIN run.rows
      BY <1>1, <1>3 DEF Convertible
    <2>2. /\ Converted(f) \in RowType
          /\ \A c \in DOMAIN rows[f] : c \notin {"beatStart", "beatEnd"} => Converted(f)[c] = rows[f][c]
      BY <1>1, <2>1, ConvertedTyped
    <2>3. new = Converted(f)
      <3>1. repaired[f] = Converted(f)
        BY <2>1
      <3> HIDE DEF repaired
      <3>2. Written(repaired, {"beatStart", "beatEnd"})[f] = repaired[f]
        BY <1>1, <2>2, <3>1, WrittenAsComputed
      <3>3. QED
        BY <1>3, <3>1, <3>2 DEF EighthsRows, repaired
    <2>4. Converted(f).id = 0
      BY <1>2, <2>2 DEF RowType
    <2> HIDE DEF new
    <2>5. QED
      BY <1>1, <1>2, <2>1, <2>3, <2>4, ConvertedPlaces DEF new
  <1>4. CASE ~(readable /\ Convertible)
    <2>1. new = rows[f]
      BY <1>4 DEF EighthsRows
    <2>2. ~Disputed \/ ClassifyMovement(Starts, Ends) \in {"empty", "new"}
      BY <1>1, <1>4 DEF EighthsSound
    <2>3. ~InScope(rows[f].mcStart, rows[f].beatStart) /\ ~InScope(rows[f].mcEnd, rows[f].beatEnd)
      <3>1. CASE ~Disputed
        BY <1>2, <3>1, Undisputed DEF InScope, RowType
      <3>2. CASE ClassifyMovement(Starts, Ends) = "empty"
        <4>1. Starts \cup Ends = {}
          BY <3>2 DEF ClassifyMovement
        <4>2. QED
          BY <1>1, <4>1 DEF Starts, Ends
      <3>3. ClassifyMovement(Starts, Ends) # "new"
        <4>1. Starts \subseteq {6, 8, 10} /\ Ends \subseteq {8, 10, 12}
          BY <1>1 DEF Starts, Ends, OldRow
        <4>2. ~(\E v \in Starts \cup Ends : v > 12) /\ 12 \notin Starts
          BY <4>1
        <4>3. QED
          BY <4>2 DEF ClassifyMovement
      <3>4. QED
        BY <2>2, <3>1, <3>2, <3>3
    <2>4. QED
      BY <1>2, <2>1, <2>3, ExtentStays
  <1>5. QED
    BY <1>3, <1>4

\* What is at most whole beats and halves is not taken for the old encoding again.
LEMMA ConvertedOnce ==
  ASSUME \A f \in DOMAIN run.rows : NoThirds(run.rows[f])
  PROVE  ~Convertible
  <1> SUFFICES ASSUME Convertible PROVE FALSE
    OBVIOUS
  <1>1. Starts \cup Ends \subseteq {6, 8, 10, 12} /\ \E v \in Starts \cup Ends : v % 6 # 0
    BY DEF Convertible, ClassifyMovement, OldGrid
  <1>2. PICK v \in Starts \cup Ends : v \in {8, 10}
    BY <1>1
  <1>3. QED
    BY <1>2 DEF Starts, Ends, NoThirds

-----------------------------------------------------------------------------
(* Saves after the conversion.                                              *)

\* The new tool offers the halves of a beat of 3/8.
LEMMA NewPoints ==
  ASSUME NEW mc \in Nat \ {0}, MeterAt(mc) = DisputedMeter, NEW n \in Nat,
         n % Step(Counted(mc), "simple") = 0
  PROVE  BeatAt(mc, n, "simple") \notin {8, 10}
  <1>1. Counted(mc) = <<3, 8>> /\ Counted(mc) \in Sigs
    BY MeterTypes DEF Counted, DisputedMeter, NoMeter
  <1>2. Grain(Counted(mc), "simple") = 4
    BY <1>1, GrainsAgree DEF DisputedMeter
  <1>3. Step(Counted(mc), "simple") = 12
    BY <1>1, <1>2 DEF Step, Compound
  <1>4. BeatAt(mc, n, "simple") = 6 + n \div 4
    BY <1>2 DEF BeatAt
  <1>5. n % 12 = 0
    BY <1>3
  <1>6. PICK k \in Nat : n = 12 * k
    BY <1>5
  <1>7. n \div 4 = 3 * k
    BY <1>6
  <1>8. QED
    BY <1>4, <1>7

\* A saved row shows no third, and ends within its measure.
LEMMA SavedPlaces ==
  ASSUME NEW e, Offered(e, "simple"), NEW id, NEW m
  PROVE  LET r == Row(id, e, "simple", m)
         IN  /\ NoThirds(r)
             /\ r.beatEnd # NoBeat => TicksAt(r.mcEnd, r.beatEnd, "simple") <= BarLength(Counted(r.mcEnd))
  <1> DEFINE r == Row(id, e, "simple", m)
  <1>1. /\ r.mcStart = e.mcStart /\ r.mcEnd = e.mcEnd
        /\ r.beatStart = IF e.from = Edge THEN NoBeat ELSE BeatAt(e.mcStart, e.from, "simple")
        /\ r.beatEnd = IF e.to = Edge THEN NoBeat ELSE BeatAt(e.mcEnd, e.to, "simple")
    BY DEF Row
  <1> HIDE DEF r
  <1>2. /\ e.mcStart \in Nat \ {0} /\ e.mcEnd \in Nat \ {0}
        /\ BarLength(Counted(e.mcEnd)) \in Nat
        /\ e.from # Edge => e.from \in Nat /\ e.from % Step(Counted(e.mcStart), "simple") = 0
        /\ e.to # Edge => /\ e.to \in Nat /\ e.to <= BarLength(Counted(e.mcEnd))
                          /\ e.to % Step(Counted(e.mcEnd), "simple") = 0
    BY OfferedBounds, MeterTypes, FullBar
  <1>3. NoThirds(r)
    <2>1. ASSUME InScope(r.mcStart, r.beatStart) PROVE r.beatStart \notin {8, 10}
      <3>1. e.from # Edge /\ MeterAt(e.mcStart) = DisputedMeter
        BY <1>1, <2>1 DEF InScope
      <3>2. QED
        BY <1>1, <1>2, <3>1, NewPoints
    <2>2. ASSUME InScope(r.mcEnd, r.beatEnd) PROVE r.beatEnd \notin {8, 10}
      <3>1. e.to # Edge /\ MeterAt(e.mcEnd) = DisputedMeter
        BY <1>1, <2>2 DEF InScope
      <3>2. QED
        BY <1>1, <1>2, <3>1, NewPoints
    <2>3. QED
      BY <2>1, <2>2 DEF NoThirds
  <1>4. ASSUME r.beatEnd # NoBeat
        PROVE  TicksAt(r.mcEnd, r.beatEnd, "simple") <= BarLength(Counted(r.mcEnd))
    <2> DEFINE g == Grain(Counted(e.mcEnd), "simple")
    <2>1. e.to \in Nat /\ e.to <= BarLength(Counted(e.mcEnd))
      BY <1>1, <1>2, <1>4
    <2>2. r.beatEnd = 6 + e.to \div g /\ e.to # Edge
      BY <1>1, <1>4 DEF BeatAt
    <2>3. g \in Nat \ {0}
      BY <1>2, MeterTypes, GrainType
    <2>4. TicksAt(r.mcEnd, r.beatEnd, "simple") = (r.beatEnd - 6) * g
      BY <1>1 DEF TicksAt
    <2> HIDE DEF g
    <2>5. e.to \div g \in Nat /\ (e.to \div g) * g \in Nat /\ (e.to \div g) * g <= e.to
      BY <2>1, <2>3, Division
    <2>6. (6 + e.to \div g) - 6 = e.to \div g
      BY <2>5
    <2>7. TicksAt(r.mcEnd, r.beatEnd, "simple") = (e.to \div g) * g
      BY <2>2, <2>4, <2>6
    <2>8. QED
      BY <1>1, <1>2, <2>1, <2>5, <2>7
  <1>5. QED
    BY <1>3, <1>4 DEF r

LEMMA SaveAfter ==
  ASSUME TypeInv, TaggedInv, AfterInv, NEW w \in Wholes, NEW t \in NewTaggings, Save(w, t)
  PROVE  AfterInv'
  <1>1. /\ "eighths" \in clean /\ UNCHANGED <<clean, run>>
        /\ RowsOk(rows') /\ DOMAIN tagged' = DOMAIN rows'
        /\ \A f \in DOMAIN rows' : SaveLeaves(w, t, f)
    BY SaveStep DEF TaggedInv
  <1>2. ASSUME NEW f \in DOMAIN rows', f[1] = w
        PROVE  /\ NoThirds(rows'[f]) /\ tagged'[f] = Extent(rows'[f], "simple")
               /\ Stage(f) => Within(tagged'[f], tagged'[Parent(f)]) = tagged'[f]
    <2> DEFINE p == Parent(f)
    <2>1. /\ f \in {w} \X Places /\ rows'[f] = Saved(w, t)[f]
          /\ tagged'[f] = Extent(rows'[f], "simple") /\ Contained(rows'[f], rows'[p])
      BY <1>1, <1>2 DEF SaveLeaves
    <2>2. p \in DOMAIN rows' /\ p[1] = w /\ rows'[f] \in RowType /\ rows'[p] \in RowType
      BY <1>1, <1>2 DEF RowsOk, Parent
    <2>3. tagged'[p] = Extent(rows'[p], "simple")
      BY <1>1, <2>2 DEF SaveLeaves
    <2> DEFINE r == rows'[f]
    <2>4. NoThirds(r) /\ (r.beatEnd # NoBeat => TicksAt(r.mcEnd, r.beatEnd, "simple") <= BarLength(Counted(r.mcEnd)))
      <3> DEFINE e == t[f[2]]
                 id == IF Stage(f) THEN saves + 1 ELSE 0
                 m == MeterAt(e.mcStart)
      <3>1. r = Row(id, e, "simple", m)
        BY <2>1 DEF Saved
      <3>2. Offered(e, "simple")
        BY <2>1, RepairsAssumption
      <3> HIDE DEF e, id, m, r
      <3>3. QED
        BY <3>1, <3>2, SavedPlaces
    <2>5. Within(Extent(r, "simple"), Extent(rows'[p], "simple")) = Extent(r, "simple")
      <3> HIDE DEF p, r
      <3>1. r \in RowType /\ Contained(r, rows'[p])
        BY <2>1, <2>2 DEF r, p
      <3>2. QED
        BY <2>2, <2>4, <3>1, ContainedWithin
    <2>6. QED
      BY <2>1, <2>3, <2>4, <2>5
  <1>3. ASSUME NEW f \in DOMAIN rows', f[1] # w
        PROVE  /\ f \in DOMAIN rows /\ rows'[f] = rows[f] /\ tagged'[f] = tagged[f]
               /\ tagged'[Parent(f)] = tagged[Parent(f)]
    <2>1. Parent(f) \in DOMAIN rows' /\ Parent(f)[1] # w
      BY <1>1, <1>3 DEF RowsOk, Parent
    <2>2. QED
      BY <1>1, <1>3, <2>1 DEF SaveLeaves
  <1>4. ASSUME NEW f \in DOMAIN rows'
        PROVE  /\ NoThirds(rows'[f])
               /\ IF Stage(f)
                  THEN \/ Extent(rows'[f], "simple") = Within(tagged'[f], tagged'[Parent(f)])
                       \/ Extent(rows'[f], "simple") = tagged'[f] /\ "clamp" \notin clean /\ rows'[f].id = 0
                  ELSE Extent(rows'[f], "simple") = tagged'[f]
    <2>1. CASE f[1] = w
      BY <1>2, <2>1
    <2>2. CASE f[1] # w
      BY <1>1, <1>3, <2>2 DEF AfterInv, Now, Own
    <2>3. QED
      BY <2>1, <2>2
  <1>5. QED
    BY <1>1, <1>4 DEF AfterInv, Now, Own

-----------------------------------------------------------------------------
(* The clamp after the conversion.                                          *)

\* A stage that the clamp has read and finds is put in its place, if it is not
\* there: what of it lies within its fragment.
LEMMA ClampedStage ==
  ASSUME OneMeter, TypeInv, TaggedInv, RecordInv, SnapshotInv, AfterInv, Clamp,
         NEW f \in DOMAIN run.rows, Stage(f), rows[f].id = run.rows[f].id,
         ~Outside(Clipped(run.rows[f], run.rows[Parent(f)], MeasureEndBeat(run.meter)),
                  MeasureEndBeat(run.meter))
  PROVE  NoThirds(ClampRows[f]) /\ Extent(ClampRows[f], "simple") = Own(f)
  <1> DEFINE c == rows[f]
             p == rows[Parent(f)]
             end == MeasureEndBeat(StartingMeter)
             x == Paired(Clipped(c, p, end), end)
             repaired == [g \in DOMAIN run.rows |-> ClampedIn(run.rows, run.meter, g)]
  <1>1. run.meter = StartingMeter /\ StartingMeter # NoMeter /\ "eighths" \in clean
    BY DEF Clamp, RecordInv
  <1>2. /\ f \in DOMAIN rows /\ run.rows[f] = c /\ run.rows[Parent(f)] = p
        /\ Parent(f) \in DOMAIN rows /\ RowsOk(rows) /\ RowsOk(run.rows)
        /\ c \in RowType /\ p \in RowType
    BY DEF SnapshotInv, TypeInv, RowsOk
  <1>3. ~Stage(Parent(f))
    BY DEF Stage, Parent
  <1>4. /\ NoThirds(c) /\ NoThirds(p) /\ Extent(p, "simple") = tagged[Parent(f)]
        /\ Extent(c, "simple") \in {Own(f), tagged[f]}
    BY <1>1, <1>2, <1>3 DEF AfterInv, Now
  <1>5. /\ x \in RowType /\ NoThirds(x)
        /\ Extent(x, "simple") = Within(Extent(c, "simple"), Extent(p, "simple"))
    <2> HIDE DEF c, p
    <2>1. QED
      BY <1>1, <1>2, <1>4, ClampPlaces
  <1>6. Extent(x, "simple") = Own(f)
    <2>1. tagged[f] \in ExtentType /\ tagged[Parent(f)] \in ExtentType
      BY <1>2 DEF TaggedInv
    <2>2. Within(Own(f), tagged[Parent(f)]) = Own(f)
      BY <2>1, WithinTyped DEF Own
    <2> HIDE DEF c, p, x
    <2>3. QED
      BY <1>4, <1>5, <2>2 DEF Own
  <1>7. repaired[f] = x
    BY <1>1, <1>2 DEF ClampedIn
  <1>8. ClampRows[f] = x
    <2>1. \A k \in DOMAIN c : k \notin ClampColumns => repaired[f][k] = c[k]
      BY <1>1, <1>2, StartType, ClampedTyped DEF ClampColumns
    <2>2. DOMAIN x = DOMAIN c /\ x = [k \in DOMAIN x |-> x[k]]
      BY <1>2, <1>5 DEF RowType
    <2>3. ClampRows[f] = IF repaired[f] # c
                         THEN [k \in DOMAIN c |-> IF k \in ClampColumns THEN repaired[f][k] ELSE c[k]]
                         ELSE c
      BY <1>2 DEF ClampRows, Written
    <2> HIDE DEF c, x, repaired
    <2>4. [k \in DOMAIN c |-> IF k \in ClampColumns THEN repaired[f][k] ELSE c[k]] = x
      BY <1>7, <2>1, <2>2
    <2>5. QED
      BY <1>7, <2>3, <2>4
  <1>9. QED
    BY <1>5, <1>6, <1>8

\* Everything else the clamp leaves as it is.
LEMMA NotClamped ==
  ASSUME TypeInv, SnapshotInv, NEW f \in DOMAIN rows,
         \/ ~Stage(f)
         \/ f \notin DOMAIN run.rows
         \/ rows[f].id # run.rows[f].id
         \/ Outside(Clipped(run.rows[f], run.rows[Parent(f)], MeasureEndBeat(run.meter)),
                    MeasureEndBeat(run.meter))
  PROVE  ClampRows[f] = rows[f]
  <1> DEFINE repaired == [g \in DOMAIN run.rows |-> ClampedIn(run.rows, run.meter, g)]
  <1>1. f \in DOMAIN run.rows => repaired[f] = ClampedIn(run.rows, run.meter, f)
    OBVIOUS
  <1>2. f \in DOMAIN run.rows /\ rows[f].id = run.rows[f].id => repaired[f] = run.rows[f]
    BY DEF ClampedIn
  <1> HIDE DEF repaired
  <1>3. Written(repaired, ClampColumns)[f] = rows[f]
    BY <1>2 DEF Written
  <1>4. QED
    BY <1>3 DEF ClampRows, repaired

LEMMA ClampAfter ==
  ASSUME OneMeter, TypeInv, TaggedInv, RecordInv, SnapshotInv, AfterInv, Clamp
  PROVE  AfterInv'
  <1>1. /\ run.script = "clamp" /\ Commit(ClampRows, meter, ClampSound, TRUE)
        /\ DOMAIN ClampRows = DOMAIN rows
    BY ClampCommit
  <1>2. /\ rows' = ClampRows /\ tagged' = tagged /\ run' = NoRun /\ DOMAIN run'.rows = {}
        /\ "clamp" \in clean' => ClampSound \/ "clamp" \in clean
        /\ clean \subseteq clean'
    BY <1>1 DEF Commit, NoRun
  <1>3. "eighths" \in clean /\ run # NoRun
    BY <1>1, NoRunTyped DEF RecordInv
  <1>4. ASSUME NEW f \in DOMAIN rows
        PROVE  /\ NoThirds(rows'[f])
               /\ IF Stage(f)
                  THEN \/ Extent(rows'[f], "simple") = Own(f)
                       \/ Extent(rows'[f], "simple") = tagged[f] /\ "clamp" \notin clean' /\ rows'[f].id = 0
                  ELSE Extent(rows'[f], "simple") = tagged[f]
    <2> DEFINE outside == Outside(Clipped(run.rows[f], run.rows[Parent(f)], MeasureEndBeat(run.meter)),
                                  MeasureEndBeat(run.meter))
    <2>1. CASE Stage(f) /\ f \in DOMAIN run.rows /\ rows[f].id = run.rows[f].id /\ ~outside
      BY <1>2, <2>1, ClampedStage
    <2>2. CASE ~(Stage(f) /\ f \in DOMAIN run.rows /\ rows[f].id = run.rows[f].id /\ ~outside)
      <3>1. rows'[f] = rows[f]
        BY <1>2, <2>2, NotClamped
      <3>2. /\ NoThirds(rows[f])
            /\ IF Stage(f)
               THEN \/ Extent(rows[f], "simple") = Own(f)
                    \/ Extent(rows[f], "simple") = tagged[f] /\ "clamp" \notin clean /\ rows[f].id = 0
               ELSE Extent(rows[f], "simple") = tagged[f]
        BY <1>3 DEF AfterInv, Now
      <3>3. Stage(f) /\ rows[f].id = 0 => ~ClampSound
        <4>1. Stage(f) /\ rows[f].id = 0 => f \in DOMAIN run.rows /\ rows[f].id = run.rows[f].id
          BY <1>3 DEF SnapshotInv
        <4>2. QED
          BY <2>2, <4>1 DEF ClampSound
      <3> HIDE DEF outside
      <3>4. QED
        BY <1>2, <3>1, <3>2, <3>3
    <2>3. QED
      BY <2>1, <2>2
  <1>5. QED
    BY <1>1, <1>2, <1>4 DEF AfterInv, Now, Own

-----------------------------------------------------------------------------
(* Positions after the conversion.                                          *)

LEMMA AfterStep ==
  ASSUME OneMeter, TypeInv, TaggedInv, RecordInv, SnapshotInv, BeforeInv, AfterInv, [Next]_vars
  PROVE  AfterInv'
  <1>1. ASSUME NEW w \in Wholes, NEW t \in NewTaggings, Save(w, t) PROVE AfterInv'
    BY <1>1, SaveAfter
  <1>2. CASE Clamp
    BY <1>2, ClampAfter
  <1>3. ASSUME tagged' = tagged, DOMAIN rows' = DOMAIN rows,
               \A f \in DOMAIN rows : Alike(rows'[f], rows[f]),
               run'.rows = run.rows \/ run'.rows = rows \/ run' = NoRun,
               "eighths" \in clean' => "eighths" \in clean, "clamp" \in clean' => "clamp" \in clean
        PROVE  AfterInv'
    <2> SUFFICES ASSUME "eighths" \in clean' PROVE AfterInv'
      BY DEF AfterInv
    <2>1. "eighths" \in clean
      BY <1>3
    <2>2. ASSUME NEW f \in DOMAIN rows
          PROVE  /\ NoThirds(rows'[f])
                 /\ IF Stage(f)
                    THEN \/ Extent(rows'[f], "simple") = Own(f)
                         \/ Extent(rows'[f], "simple") = tagged[f] /\ "clamp" \notin clean' /\ rows'[f].id = 0
                    ELSE Extent(rows'[f], "simple") = tagged[f]
      <3>1. Alike(rows'[f], rows[f])
        BY <1>3
      <3>2. Extent(rows'[f], "simple") = Extent(rows[f], "simple") /\ (NoThirds(rows'[f]) <=> NoThirds(rows[f]))
        BY <3>1, AlikePlaces
      <3>3. rows'[f].id = rows[f].id
        BY <3>1 DEF Alike
      <3>4. QED
        BY <1>3, <2>1, <3>2, <3>3 DEF AfterInv, Now
    <2>3. \A f \in DOMAIN run'.rows : NoThirds(run'.rows[f])
      <3>1. DOMAIN NoRun.rows = {}
        BY DEF NoRun
      <3>2. QED
        BY <1>3, <2>1, <3>1 DEF AfterInv
    <2>4. QED
      BY <1>3, <2>2, <2>3 DEF AfterInv, Now, Own
  <1>4. rows' = rows => \A f \in DOMAIN rows : Alike(rows'[f], rows[f])
    BY DEF Alike
  <1>5. CASE Deploy \/ Crash \/ (\E s \in Scripts : Begin(s)) \/ UNCHANGED vars
    BY <1>3, <1>4, <1>5 DEF Deploy, Crash, Begin, vars
  <1>6. ASSUME NEW readable \in BOOLEAN, RepairMovementMeter(readable) PROVE AfterInv'
    <2>1. /\ rows' = rows /\ tagged' = tagged /\ run' = NoRun
          /\ "eighths" \in clean' => "eighths" \in clean
          /\ "clamp" \in clean' => "clamp" \in clean
      BY <1>6 DEF RepairMovementMeter, Commit
    <2>2. QED
      BY <1>3, <1>4, <2>1
  <1>7. ASSUME NEW readable \in BOOLEAN, RepairSummaryMeter(readable) PROVE AfterInv'
    <2>1. /\ rows' = SummaryRows(readable) /\ tagged' = tagged /\ run' = NoRun
          /\ DOMAIN rows' = DOMAIN rows
          /\ "eighths" \in clean' => "eighths" \in clean
          /\ "clamp" \in clean' => "clamp" \in clean
      BY <1>7, SummaryCommit DEF Commit
    <2>2. QED
      BY <1>3, <2>1, SummaryKeeps
  <1>8. ASSUME NEW readable \in BOOLEAN, RepairEighths(readable) PROVE AfterInv'
    <2>1. /\ rows' = EighthsRows(readable) /\ tagged' = tagged /\ run' = NoRun
          /\ DOMAIN rows' = DOMAIN rows
          /\ clean' = IF EighthsSound(readable) THEN clean \cup {"eighths"} ELSE clean
      BY <1>8, EighthsCommit, EighthsTyped DEF Commit
    <2>2. CASE "eighths" \in clean
      <3>1. \A f \in DOMAIN run.rows : NoThirds(run.rows[f])
        BY <2>2 DEF AfterInv
      <3>2. rows' = rows
        BY <2>1, <3>1, ConvertedOnce DEF EighthsRows
      <3>3. "clamp" \in clean' => "clamp" \in clean
        BY <2>1
      <3>4. QED
        BY <1>3, <1>4, <2>1, <2>2, <3>2, <3>3
    <2>3. CASE "eighths" \notin clean /\ EighthsSound(readable)
      <3>1. \A f \in DOMAIN rows' : Extent(rows'[f], "simple") = tagged'[f] /\ NoThirds(rows'[f]) /\ rows'[f].id = 0
        BY <1>8, <2>1, <2>3, FirstConversion
      <3>2. "clamp" \notin clean'
        BY <2>1, <2>3 DEF BeforeInv
      <3>3. DOMAIN run'.rows = {}
        BY <2>1 DEF NoRun
      <3>4. QED
        BY <3>1, <3>2, <3>3 DEF AfterInv, Now, Own
    <2>4. CASE "eighths" \notin clean /\ ~EighthsSound(readable)
      BY <2>1, <2>4 DEF AfterInv
    <2>5. QED
      BY <2>2, <2>3, <2>4
  <1>9. QED
    BY <1>1, <1>2, <1>5, <1>6, <1>7, <1>8 DEF Next, Repair

LEMMA PlaceStep ==
  ASSUME OneMeter, TypeInv, PlaceInv, [Next]_vars
  PROVE  PlaceInv'
  <1>1. TaggedInv' /\ RecordInv' /\ SnapshotInv' /\ BeforeInv'
    BY TaggedStep, RecordStep, SnapshotStep, BeforeStep DEF PlaceInv
  <1>2. AfterInv'
    BY AfterStep DEF PlaceInv
  <1>3. QED
    BY <1>1, <1>2 DEF PlaceInv

LEMMA PlacesAreKept == TypeInv /\ PlaceInv => PositionsKept
  <1> SUFFICES ASSUME TypeInv, PlaceInv, "eighths" \in clean, NEW f \in DOMAIN rows
      PROVE  Now(f) = Own(f) \/ (Now(f) = tagged[f] /\ "clamp" \notin clean)
    BY DEF PositionsKept, Now, Own
  <1>1. CASE Stage(f)
    BY <1>1 DEF PlaceInv, AfterInv
  <1>2. CASE ~Stage(f)
    <2>1. f \in Fragments /\ tagged[f] \in ExtentType
      BY DEF TypeInv, RowsOk, PlaceInv, TaggedInv
    <2>2. Parent(f) = f
      BY <1>2, <2>1 DEF Fragments, Stage, Parent
    <2>3. Own(f) = tagged[f]
      BY <2>1, <2>2, WithinTyped DEF Own
    <2>4. QED
      BY <1>2, <2>3 DEF PlaceInv, AfterInv
  <1>3. QED
    BY <1>1, <1>2

\* Once the conversion has reported success, every row of a movement that keeps its
\* meter covers what it was tagged with, and once the clamp has, every stage covers
\* what of that lies within its fragment: whatever was saved between the SELECT and
\* the commit of a script, and however often the scripts are run.
THEOREM PositionsStay == ASSUME OneMeter PROVE Spec => []PositionsKept
  <1>1. Init => PlaceInv
    BY TaggedInit, PlaceInit DEF PlaceInv
  <1>2. TypeInv /\ PlaceInv /\ [Next]_vars => PlaceInv'
    BY PlaceStep
  <1>3. TypeInv /\ PlaceInv => PositionsKept
    BY PlacesAreKept
  <1>4. QED
    BY <1>1, <1>2, <1>3, StateHolds, PTL DEF Spec

=============================================================================
