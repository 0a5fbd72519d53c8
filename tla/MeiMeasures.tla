---------------------------- MODULE MeiMeasures ------------------------------
(***************************************************************************)
(* The bar structure of a score as the normalizer sees it: the passes of   *)
(* mei_normalizer.py that number bars and endings, pair repeat barlines    *)
(* and complete split bars (passes 1 to 7).  A score is a sequence of      *)
(* measures in document order; what they contain is in MeiPitch, MeiClefs. *)
(***************************************************************************)
EXTENDS Integers, FiniteSets, Sequences, SequencesExt

\* An @n: an integer, an integer with a letter (12a), DCML's X1, something
\* else, or none.
Label == [kind : {"int", "suffixed", "X", "odd", "none"}, num : Int]
Number(k) == [kind |-> "int", num |-> k]

\* A measure: its label, @metcon = "false", its barlines, the position of the
\* ending it lies in (0 for none), a staffDef with a meter, a meterSig, and a
\* @join that points nowhere.
Measure == [n : Label, short : BOOLEAN,
            left : {"plain", "rptstart"},
            right : {"plain", "rptstart", "rptend", "rptboth"},
            ending : Nat, meterDef : BOOLEAN, meterSig : BOOLEAN, badJoin : BOOLEAN]

Bare(ms) == {i \in DOMAIN ms : ms[i].ending = 0}
Opens(m) == m.right = "rptstart" \/ m.left = "rptstart"
Closes(m) == m.right \in {"rptend", "rptboth"}

Largest(S) == CHOOSE x \in S : \A y \in S : y <= x
Issue(code, at) == [code |-> code, at |-> at]

-----------------------------------------------------------------------------
(* Pass 1: the pickup bar is number 0; the bars after it move down by one.  *)

\* Fault: the number of a short first bar is not looked at.
PickupBarAnyNumber(ms) ==
    IF ms = <<>> \/ ~ms[1].short THEN ms
    ELSE [i \in DOMAIN ms |-> IF ms[i].ending = 0 THEN [ms[i] EXCEPT !.n.num = @ - 1] ELSE ms[i]]

\* Bars inside endings keep their numbers, and so does the first bare one.
PickupBar(ms) ==
    IF ms = <<>> THEN ms
    ELSE IF ms[1].n = Number(0) THEN [ms EXCEPT ![1].short = TRUE]
    ELSE IF ms[1].short /\ ms[1].n = Number(1)
    THEN [i \in DOMAIN ms |->
            IF i = 1 THEN [ms[1] EXCEPT !.n = Number(0)]
            ELSE IF i \in Bare(ms) /\ (\E j \in Bare(ms) : j < i) /\ ms[i].n.kind = "int"
            THEN [ms[i] EXCEPT !.n.num = @ - 1]
            ELSE ms[i]]
    ELSE ms

(* Pass 2: a meter given by a staffDef inside a measure becomes a meterSig. *)
MeterChanges(ms) == [i \in DOMAIN ms |->
    [ms[i] EXCEPT !.meterSig = @ \/ ms[i].meterDef]]

(* Pass 3: endings without a number take their position.                    *)
NumberedEndings(es) == [k \in DOMAIN es |->
    IF es[k].kind = "none" THEN Number(k) ELSE es[k]]

EndingIssues(ms, es) ==
    LET N == {k \in DOMAIN es : es[k].kind = "int"}
        D == {es[k].num : k \in N}
        contiguous == D = 1 .. Largest(D) IN
    {Issue("ENDING_EMPTY", k) : k \in {j \in DOMAIN es : \A i \in DOMAIN ms : ms[i].ending # j}}
    \cup (IF N # {} /\ ~contiguous THEN {Issue("ENDING_NON_SEQUENTIAL", 0)} ELSE {})
    \cup (IF N # {} /\ contiguous /\ Cardinality(N) # Cardinality(D)
          THEN {Issue("ENDING_REPEATED_VOLTA", 0)} ELSE {})
    \cup (IF Len(es) = 1 THEN {Issue("ENDING_SINGLE", 0)} ELSE {})

-----------------------------------------------------------------------------
(* Pass 4 and _build_repeat_sections: two walks over the barlines with a     *)
(* stack of open sections.                                                  *)

Popped(stack) == IF stack = <<>> THEN <<>> ELSE Front(stack)

\* _check_repeat_barlines: the first close may be unpaired.
RepeatWalk(ms) ==
    FoldLeftDomain(LAMBDA acc, i :
          LET open == IF Opens(ms[i]) THEN Append(acc.open, i) ELSE acc.open
              left == Popped(open) IN
          IF ~Closes(ms[i]) THEN [acc EXCEPT !.open = open]
          ELSE [open |-> IF ms[i].right = "rptboth" THEN Append(left, i) ELSE left,
                closed |-> TRUE,
                unpaired |-> IF acc.closed /\ open = <<>>
                             THEN acc.unpaired \cup {i} ELSE acc.unpaired],
        [open |-> <<>>, closed |-> FALSE, unpaired |-> {}], ms)

RepeatIssues(ms) ==
    LET w == RepeatWalk(ms) IN
    {Issue("REPEAT_UNPAIRED_END", i) : i \in w.unpaired}
    \cup {Issue("REPEAT_UNCLOSED_START", w.open[k]) : k \in DOMAIN w.open}

\* _build_repeat_sections: <<open, close>> in the order of the closes, open = 0
\* for none.
SectionsAfter(acc, m, i) ==
    LET open == IF Opens(m) THEN Append(acc.open, i) ELSE acc.open
        left == Popped(open) IN
    IF ~Closes(m) THEN [acc EXCEPT !.open = open]
    ELSE [open |-> IF m.right = "rptboth" THEN Append(left, i) ELSE left,
          pairs |-> Append(acc.pairs, <<IF open = <<>> THEN 0 ELSE Last(open), i>>)]
RepeatSections(ms) ==
    LET walk[i \in 0 .. Len(ms)] ==
            IF i = 0 THEN [open |-> <<>>, pairs |-> <<>>]
            ELSE SectionsAfter(walk[i - 1], ms[i], i)
    IN walk[Len(ms)].pairs

-----------------------------------------------------------------------------
(* Pass 5: the numbers outside endings.                                     *)

\* The integers in document order, and the positions where a run begins.
OrderedNumbers(ms) ==
    LET bare == SelectSeq(ms, LAMBDA m : m.ending = 0 /\ m.n.kind = "int")
    IN [k \in DOMAIN bare |-> bare[k].n.num]
RunStarts(ns) == {k \in DOMAIN ns : k = 1 \/ ns[k] <= ns[k - 1]}
Repeated(ns) == {ns[k] : k \in {j \in DOMAIN ns : \E h \in 1 .. j - 1 : ns[h] = ns[j]}}

\* _is_multi_section_restart: duplicates, and every increasing run begins at 1.
Restarts(ns) ==
    /\ Repeated(ns) # {}
    /\ Cardinality(RunStarts(ns)) >= 2
    /\ \A k \in RunStarts(ns) : ns[k] = 1

NumberIssues(ms) ==
    LET ns == OrderedNumbers(ms)
        D == {ns[k] : k \in DOMAIN ns}
        gaps == {a \in D : \E b \in D : b - a > 10 /\ \A c \in D : ~(a < c /\ c < b)} IN
    {Issue("MEASURE_N_MISSING", i) : i \in {j \in Bare(ms) : ms[j].n.kind = "none"}}
    \cup {Issue("MEASURE_N_DCML_X", i) : i \in {j \in Bare(ms) : ms[j].n.kind = "X"}}
    \cup {Issue("MEASURE_N_NON_INTEGER", i) :
            i \in {j \in Bare(ms) : ms[j].n.kind \in {"odd", "suffixed"}}}
    \cup (IF Restarts(ns) THEN {Issue("MEASURE_N_MULTI_SECTION_DUPLICATE", 0)}
          ELSE {Issue("MEASURE_N_DUPLICATE", n) : n \in Repeated(ns)})
    \cup {Issue("MEASURE_N_GAP", a) : a \in gaps}

(* Pass 6: inside endings a suffix goes, and what is left is checked.       *)
EndingBars(ms) == [i \in DOMAIN ms |->
    IF ms[i].ending # 0 /\ ms[i].n.kind = "suffixed" THEN [ms[i] EXCEPT !.n.kind = "int"] ELSE ms[i]]

EndingBarIssues(ms) ==
    LET In == DOMAIN ms \ Bare(ms) IN
    {Issue("ENDING_MEASURE_N_DCML_X", i) : i \in {j \in In : ms[j].n.kind = "X"}}
    \cup {Issue("ENDING_MEASURE_N_UNPARSEABLE", i) : i \in {j \in In : ms[j].n.kind \in {"odd", "none"}}}
    \cup {Issue("ENDING_MEASURE_N_DUPLICATE", ms[i].n.num) : i \in {j \in In :
            /\ ms[j].n.kind = "int"
            /\ \E h \in In : h < j /\ ms[h].ending = ms[j].ending /\ ms[h].n = ms[j].n}}

-----------------------------------------------------------------------------
(* Pass 7: a short bar at a closing barline has a complement, the bar after  *)
(* the one its section opened at.                                           *)

Complement(ms, pair) ==
    IF pair[1] # 0 THEN pair[1] + 1 ELSE IF pair[2] = 1 THEN 0 ELSE 1

\* ms after the first k closes.
SplitAt(ms, pair) ==
    LET c == Complement(ms, pair)
    IN IF ms[pair[2]].short /\ c \in DOMAIN ms THEN [ms EXCEPT ![c].short = TRUE] ELSE ms
SplitUpTo(ms, k) ==
    LET done[h \in 0 .. k] ==
            IF h = 0 THEN ms ELSE SplitAt(done[h - 1], RepeatSections(ms)[h])
    IN done[k]
SplitMeasures(ms) == SplitUpTo(ms, Len(RepeatSections(ms)))

SplitIssues(ms) ==
    LET pairs == RepeatSections(ms) IN
    {Issue("SPLIT_MEASURE_NO_COMPLEMENT", pairs[k][2]) : k \in {j \in DOMAIN pairs :
        SplitUpTo(ms, j - 1)[pairs[j][2]].short /\ Complement(ms, pairs[j]) \notin DOMAIN ms}}
    \cup {Issue("JOIN_BROKEN_REFERENCE", i) : i \in {j \in DOMAIN ms : ms[j].badJoin}}

\* duration_bars: the largest number, a suffix aside.
DurationBars(ms) ==
    Largest({0} \cup {ms[i].n.num : i \in {j \in DOMAIN ms : ms[j].n.kind \in {"int", "suffixed"}}})
=============================================================================
