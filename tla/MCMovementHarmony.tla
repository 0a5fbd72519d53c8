-------------------------- MODULE MCMovementHarmony ------------------------
(* Instances of MovementHarmony for TLC.                                   *)
EXTENDS MovementHarmony, TLC

CONSTANTS I, V      \* readings of a chord

\* Two measures of the same number, as in a movement whose bars are counted
\* anew at the Trio.
MCLabel == <<1, 1>>
MCBeats == {1, 2}
MCChords == {I, V}

Dcml(mc, beat, chord) ==
    [mc |-> mc, label |-> MCLabel[mc], beat |-> beat, chord |-> chord,
     manual |-> FALSE, reviewed |-> FALSE, orphaned |-> FALSE]

\* An analysis with two events in measure 1, and a later one that has one event
\* in each measure.
MCTsvs == {<<Dcml(1, 1, I), Dcml(1, 2, V)>>, <<Dcml(1, 2, I), Dcml(2, 1, V)>>}

Id(beat, mc) == [label |-> 1, beat |-> beat, mc |-> mc]

\* One or two requests of each kind: an insertion with and without mc, an event
\* named without its mc, and "Confirm all" for both measures.
MCSent ==
    {[kind |-> "insert", id |-> Id(1, 1), chord |-> V],
     [kind |-> "insert", id |-> Id(2, NoMc), chord |-> V],
     [kind |-> "delete", id |-> Id(1, NoMc)],
     [kind |-> "confirm", id |-> Id(1, 1)],
     [kind |-> "confirm", id |-> Id(2, NoMc)],
     [kind |-> "move", id |-> Id(2, 1), beat |-> 1],
     [kind |-> "chord", id |-> Id(1, 2), chord |-> I],
     [kind |-> "batch", ids |-> {Id(2, 1), Id(1, 2)}]}

ClientSymmetry == Permutations(Clients)
=============================================================================
