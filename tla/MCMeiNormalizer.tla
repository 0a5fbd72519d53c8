---------------------------- MODULE MCMeiNormalizer --------------------------
(***************************************************************************)
(* Scores for TLC: families of small scores, each of which varies what one *)
(* group of passes looks at.                                               *)
(***************************************************************************)
EXTENDS MeiNormalizer, TLC

Bar(n) == [n |-> n, short |-> FALSE, left |-> "plain", right |-> "plain", ending |-> 0,
           meterDef |-> FALSE, meterSig |-> FALSE, badJoin |-> FALSE]
Plain(k) == Bar(M!Number(k))
Tidy == [grand |-> TRUE, brace |-> TRUE, barThru |-> TRUE, labels |-> FALSE]
Blank == [measures |-> <<Plain(1)>>, endings |-> <<>>, voices |-> <<>>, ties |-> <<>>,
          keys |-> <<>>, corrections |-> <<>>, staff |-> <<>>, header |-> Tidy]

\* Repeats and split bars over three bars, numbered from 1.
Barlines == {[b |-> s, l |-> l, r |-> r] : s \in BOOLEAN, l \in {"plain", "rptstart"},
                                           r \in {"plain", "rptstart", "rptend", "rptboth"}}
Repeats == {[Blank EXCEPT !.measures = [i \in 1 .. 3 |->
               [Plain(i) EXCEPT !.short = f[i].b, !.left = f[i].l, !.right = f[i].r]]] :
                 f \in [1 .. 3 -> Barlines]}

\* Numbers and endings: four bars, a pickup or not, the last two in endings or
\* not, of which one may be empty or unnumbered.
Labels == {M!Number(1), M!Number(2), M!Number(14), [kind |-> "suffixed", num |-> 2],
           [kind |-> "X", num |-> 1], [kind |-> "none", num |-> 0]}
Numbered == {[Blank EXCEPT
               !.measures = <<[Plain(1) EXCEPT !.short = p], [Bar(x) EXCEPT !.meterDef = p],
                              [Bar(y) EXCEPT !.ending = e], [Bar(z) EXCEPT !.ending = 2 * e]>>,
               !.endings = IF e = 0 THEN <<>> ELSE <<w, [kind |-> "none", num |-> 0]>>] :
             p \in BOOLEAN, x, y, z \in Labels, e \in {0, 1},
             w \in {M!Number(1), M!Number(2)}}

\* Two bars of one staff with two voices: two notes against one, then one.
Sound(a, g) == [pitch |-> "f4", letter |-> "f", accid |-> a, ges |-> g]
Sounds == {Sound(a, g) : a \in {"none", "s", "n"}, g \in {"none", "s"}}
One(n) == [dur |-> 1, notes |-> <<n>>]
Rest(d) == [dur |-> d, notes |-> <<>>]
Pitches == {[Blank EXCEPT
               !.measures = <<Plain(1), Plain(2)>>,
               !.voices = (<<1, 1, 1>> :> <<One(a), One(b)>>) @@ (<<1, 1, 2>> :> <<Rest(q), One(c)>>)
                          @@ (<<2, 1, 1>> :> <<One(d)>>),
               !.ties = t, !.keys = k] :
             a, b, c, d \in Sounds, q \in {0, 1},
             t \in {<<>>, <<[start |-> <<1, 1, 1, 2, 1>>, end |-> P!NoEnd]>>},
             k \in {<<>>, <<[at |-> 1, inside |-> FALSE, all |-> [f |-> "s"], staff |-> <<>>]>>}}

\* A key change before bar 2 or inside it, for everybody, for a staff alone or
\* for both, after a staff had a key of its own or none had; a tie over two
\* barlines.
Change(at, inside, all, staff) == [at |-> at, inside |-> inside, all |-> all, staff |-> staff]
Keys == {<<>>} \cup
    {<<Change(1, FALSE, [f |-> "s"], own), change>> :
        own \in {<<>>, 1 :> [f |-> "n"]},
        change \in {Change(2, FALSE, <<>>, <<>>), Change(2, FALSE, <<>>, 1 :> [f |-> "s"]),
                   Change(2, TRUE, P!NoKey, 1 :> [f |-> "s"]),
                   Change(2, TRUE, <<>>, <<>>), Change(2, TRUE, <<>>, 1 :> [f |-> "s"])}}
Chains == {[Blank EXCEPT
              !.measures = <<Plain(1), Plain(2), Plain(3)>>,
              !.voices = [v \in {<<b, 1, 1>> : b \in 1 .. 3} |-> <<One(n[v[1]])>>],
              !.ties = <<[start |-> <<1, 1, 1, 1, 1>>, end |-> e],
                         [start |-> <<2, 1, 1, 1, 1>>, end |-> P!NoEnd]>>,
              !.keys = k] :
            n \in [1 .. 3 -> Sounds], e \in {P!NoEnd, <<2, 1, 1, 1, 1>>}, k \in Keys}

\* One or two changes of clef in a layer and their copies in a second one, at
\* the change or after it, between spaces, or as courtesies; a copy refers to
\* the change, to nothing that is left, or is explicit and in time itself.
N(d) == [kind |-> "note", dur |-> d, key |-> C!NoSign, id |-> 0, to |-> 0]
S(d) == [N(d) EXCEPT !.kind = "space"]
Sign(k, id) == [kind |-> "clef", dur |-> 0, key |-> k, id |-> id, to |-> 0]
Same(id, to) == [kind |-> "clef", dur |-> 0, key |-> C!NoSign, id |-> id, to |-> to]
Anchor == {<<N(1), Sign("F", 1), N(1), N(2)>>, <<N(2), N(2), Sign("F", 1)>>,
           <<Sign("F", 1), N(2), Sign("G", 2), N(2)>>, <<N(2), Sign("F", 1), S(2)>>,
           <<N(1), Sign("F", 1), N(1), Sign("F", 2), N(2)>>,
           <<N(2), Sign("F", 1), S(1), Sign("G", 2), N(1)>>,
           <<N(1), Sign("F", 1), N(1), N(2), Sign("G", 2)>>}
Fill(cs) == {<<x, y, c, z>> : x \in {N(1), S(1)}, y \in {N(1), S(1)}, c \in cs, z \in {N(2), S(2)}}
            \cup {<<S(4), c>> : c \in cs} \cup {<<c, N(4)>> : c \in cs} \cup {<<N(4), c>> : c \in cs}
            \cup {<<S(2), S(1), c, N(1)>> : c \in cs}
            \cup {<<S(2), c, S(1), d, N(1)>> : c \in cs, d \in cs}
Copies == {Same(3, 1), Same(4, 2), Same(0, 1), Same(5, 9), Sign("F", 6)}
Late(staff) == \A p, q \in C!Clefs(staff) :
    /\ C!Here(staff, q).id = C!Here(staff, p).to
         => C!Onset(staff[q[1]], q[2]) <= C!Onset(staff[p[1]], p[2])
    /\ C!Here(staff, q).id = C!Here(staff, p).id /\ p # q => C!Here(staff, p).id = 0
    /\ C!Here(staff, p).id = 6 /\ C!Here(staff, q).id = 1
         => C!Onset(staff[q[1]], q[2]) = C!Onset(staff[p[1]], p[2])
Clefs == {[Blank EXCEPT !.staff = staff] :
            staff \in {st \in {<<a, b>> : a \in Anchor, b \in Fill(Copies)}
                        \cup {<<b, a, <<S(2), Same(7, 1), N(2)>>>> : a \in Anchor, b \in Fill(Copies)} :
                      Late(st)}}

Headers == {[Blank EXCEPT !.header = h] : h \in Header}

\* Corrections of what is printed or gestural, of a barline, and of what
\* another correction has put.
Errata == {[Blank EXCEPT !.measures = <<Plain(1), [Plain(2) EXCEPT !.right = "rptend"]>>,
              !.voices = <<1, 1, 1>> :> <<One(n)>>, !.ties = <<>>,
              !.corrections = <<[mc |-> 1, note |-> t, field |-> f, expected |-> x, corrected |-> y],
                                [mc |-> m, note |-> <<>>, field |-> "repeat-start",
                                 expected |-> "plain", corrected |-> "rptstart"]>>
                              \o [k \in 1 .. q |->
                                   [mc |-> 1, note |-> t, field |-> f, expected |-> "n", corrected |-> "f"]]] :
            n \in Sounds, t \in {<<>>, <<1, 1, 1, 1, 1>>, <<1, 1, 1, 2, 1>>},
            f \in {"accid", "ges", "colour"}, x \in {"none", "s"}, y \in {"n"}, m \in {1, 2, 3}, q \in {0, 1}}

MCScores == Repeats \cup Numbered \cup Pitches \cup Chains \cup Clefs \cup Headers \cup Errata

ASSUME NoReversal
=============================================================================
