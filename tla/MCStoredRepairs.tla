--------------------------- MODULE MCStoredRepairs ---------------------------
(* Instances of StoredRepairs for TLC: two bars of 3/8.                    *)
EXTENDS StoredRepairs

Bars == 1..2
MC38 == <<[mc |-> 1, sig |-> <<3, 8>>], [mc |-> 2, sig |-> <<3, 8>>]>>
MCMeters == {NoMeter, <<2, 4>>, <<3, 8>>}

ASSUME OneMeter

-----------------------------------------------------------------------------
(* meter_timeline and meter_at_mc as the code computes them.               *)

\* A declaration that repeats the meter in force is dropped, one at the same
\* measure as the last replaces it.
Declare(timeline, d) ==
    CASE timeline # <<>> /\ Last(timeline).sig = d.sig -> timeline
      [] timeline # <<>> /\ Last(timeline).sig # d.sig /\ Last(timeline).mc = d.mc ->
            Append(Front(timeline), d)
      [] OTHER -> Append(timeline, d)

MeterTimeline(ds) == FoldLeft(Declare, <<>>, ds)

TimelineMeter(ds, mc) ==
    LET reached == SelectSeq(MeterTimeline(ds), LAMBDA d : d.mc <= mc)
    IN  IF reached = <<>> THEN NoMeter ELSE Last(reached).sig

\* InForce gives the same, and finds the same opening meter, for every list of up
\* to four declarations of three meters in three measures.
ASSUME \A ds \in SeqOf([mc : 1..3, sig : {<<2, 4>>, <<3, 4>>, DisputedMeter}], 4) :
          (\A i, j \in DOMAIN ds : i < j => ds[i].mc <= ds[j].mc) =>
             LET timeline == MeterTimeline(ds)
             IN  /\ \A mc \in 1..3 : InForce(ds, mc) = TimelineMeter(ds, mc)
                 /\ ds # <<>> => Head(timeline).sig = InForce(ds, ds[1].mc)
                 /\ {timeline[i].sig : i \in DOMAIN timeline} =
                    {InForce(ds, ds[i].mc) : i \in DOMAIN ds}

-----------------------------------------------------------------------------
(* The taggings.                                                           *)

E(b, s, c, t) == [mcStart |-> b, from |-> s, mcEnd |-> c, to |-> t]

\* Stretches of the two bars between points of a grid.
Stretches(grid) ==
    {e \in {E(b, s, c, t) : b \in Bars, s \in grid \ {72}, c \in Bars, t \in grid \ {0}} :
        Earlier(<<e.mcStart, e.from>>, <<e.mcEnd, e.to>>)}
PlainBars == {E(b, Edge, c, Edge) : b \in Bars, c \in Bars} \ {E(2, Edge, 1, Edge)}

Split(e, cut) == [whole |-> e,
                  first |-> E(e.mcStart, e.from, cut[1], cut[2]),
                  last  |-> E(cut[1], cut[2], e.mcEnd, e.to)]

\* A fragment with two stages that meet inside it.
Exact(grid) ==
    {Split(e, cut) : e \in Stretches(grid), cut \in Bars \X (grid \ {0, 72})}

Sensible(t) ==
    /\ Earlier(<<t.first.mcStart, t.first.from>>, <<t.first.mcEnd, t.first.to>>)
    /\ Earlier(<<t.last.mcStart, t.last.from>>, <<t.last.mcEnd, t.last.to>>)

\* A fragment whose stages were given whole measures (M7).
Overgrown(grid) ==
    {[whole |-> e, first |-> E(1, Edge, 1, Edge), last |-> E(2, Edge, 2, Edge)] :
        e \in {x \in Stretches(grid) \cup PlainBars : x.mcStart = 1 /\ x.mcEnd = 2}}

MCOldTaggings == {t \in Exact({0, 24, 48, 72}) : Sensible(t)} \cup Overgrown({0, 24, 48, 72})

MCNewTaggings == {t \in Exact({0, 12, 48, 72}) : Sensible(t)} \cup
                 {t \in Overgrown({0, 48}) : t.whole.from = Edge}
=============================================================================
