----------------------- MODULE MovementHarmonyProofs -----------------------
(***************************************************************************)
(* What the row lock of MovementAnalysisService._load is for, for any      *)
(* number of clients and tasks and whatever the edits do to the array;     *)
(* that edits and merges leave an array of events; and the policy of the   *)
(* smart merge, for every array and every analysis.                        *)
(***************************************************************************)
EXTENDS MovementHarmony, FiniteSetTheorems, SequenceTheorems, TLAPS

-----------------------------------------------------------------------------
(* Sorting.  Ranked puts at place k the element that has k - 1 others      *)
(* before it: that there is exactly one such element is what a sort needs. *)

\* A non-empty set of numbers has a least one.
LEMMA LeastNat ==
  ASSUME NEW T \in SUBSET Nat, T # {}
  PROVE  \E n \in T : \A m \in T : n <= m
  <1>1. IsWellFoundedOn(OpToRel(<, Nat), Nat)
    BY NatLessThanWellFounded
  <1>2. \E n \in T : \A m \in T : ~(<<m, n>> \in OpToRel(<, Nat))
    BY <1>1, WFMin
  <1>3. \A m, n \in T : ~(<<m, n>> \in OpToRel(<, Nat)) => n <= m
    BY DEF OpToRel
  <1>4. QED
    BY <1>2, <1>3

\* Elements of S before x.
Below(S, R, x) == {y \in S : <<y, x>> \in R}

StrictOrder(S, R) ==
    /\ \A x \in S : <<x, x>> \notin R
    /\ \A x, y \in S : x = y \/ <<x, y>> \in R \/ <<y, x>> \in R
    /\ \A x, y, z \in S : <<x, y>> \in R /\ <<y, z>> \in R => <<x, z>> \in R

\* Counting those before it gives every element its own place.
LEMMA Ranks ==
  ASSUME NEW S, IsFiniteSet(S), NEW R, StrictOrder(S, R)
  PROVE  LET rank == [x \in S |-> Cardinality(Below(S, R, x)) + 1]
         IN  /\ rank \in Bijection(S, 1..Cardinality(S))
           /\ \A x, y \in S : <<x, y>> \in R <=> rank[x] < rank[y]
  <1> DEFINE rank == [x \in S |-> Cardinality(Below(S, R, x)) + 1]
             N == Cardinality(S)
  <1>1. \A x \in S : IsFiniteSet(Below(S, R, x)) /\ Cardinality(Below(S, R, x)) \in Nat
    BY FS_Subset, FS_CardinalityType DEF Below
  <1>2. N \in Nat
    BY FS_CardinalityType
  <1>3. \A x \in S : Cardinality(Below(S, R, x)) < N
    <2> TAKE x \in S
    <2>1. Below(S, R, x) \in SUBSET S /\ Below(S, R, x) # S
      BY DEF Below, StrictOrder
    <2>2. QED
      BY <2>1, <1>1, <1>2, FS_Subset
  <1>4. \A x, y \in S : <<x, y>> \in R => rank[x] < rank[y]
    <2> SUFFICES ASSUME NEW x \in S, NEW y \in S, <<x, y>> \in R PROVE rank[x] < rank[y]
      OBVIOUS
    <2>1. Below(S, R, x) \in SUBSET Below(S, R, y) /\ Below(S, R, x) # Below(S, R, y)
      BY DEF Below, StrictOrder
    <2>2. Cardinality(Below(S, R, x)) <= Cardinality(Below(S, R, y))
          /\ Cardinality(Below(S, R, x)) # Cardinality(Below(S, R, y))
      BY <2>1, <1>1, FS_Subset
    <2>3. QED
      BY <2>2, <1>1
  <1>5. rank \in [S -> 1..N]
    BY <1>1, <1>2, <1>3
  <1>6. \A x, y \in S : <<x, y>> \in R <=> rank[x] < rank[y]
    <2> SUFFICES ASSUME NEW x \in S, NEW y \in S, rank[x] < rank[y] PROVE <<x, y>> \in R
      BY <1>4
    <2>1. rank[x] \in Int /\ rank[y] \in Int
      BY <1>5
    <2>2. x # y /\ ~(<<y, x>> \in R)
      BY <2>1, <1>4
    <2>3. QED
      BY <2>2 DEF StrictOrder
  <1>7. rank \in Injection(S, 1..N)
    <2>1. ASSUME NEW x \in S, NEW y \in S, rank[x] = rank[y] PROVE x = y
      <3>1. rank[x] \in Int /\ ~(rank[x] < rank[y]) /\ ~(rank[y] < rank[x])
        BY <2>1, <1>5
      <3>2. <<x, y>> \notin R /\ <<y, x>> \notin R
        BY <3>1, <1>4
      <3>3. QED
        BY <3>2 DEF StrictOrder
    <2>2. QED
      BY <2>1, <1>5 DEF Injection, IsInjective
  <1>8. IsFiniteSet(1..N) /\ Cardinality(1..N) = N
    BY <1>2, FS_Interval
  <1>9. rank \in Surjection(S, 1..N)
    BY <1>7, <1>8, FS_Injection
  <1>10. QED
    BY <1>6, <1>7, <1>9 DEF Bijection
\* order lists the elements of S, each once, R-smaller ones first.
ListsInOrder(order, S, R) ==
    /\ order \in Bijection(1..Cardinality(S), S)
    /\ \A i, j \in 1..Cardinality(S) : i < j => <<order[i], order[j]>> \in R

\* What Ranked returns, for a strict order.
LEMMA RankedLists ==
  ASSUME NEW S, IsFiniteSet(S), NEW R, StrictOrder(S, R), NEW order,
         order = [k \in 1..Cardinality(S) |-> order[k]],
         \A k \in 1..Cardinality(S) :
            (\E x \in S : Cardinality(Below(S, R, x)) = k - 1) =>
                order[k] \in S /\ Cardinality(Below(S, R, order[k])) = k - 1
  PROVE  ListsInOrder(order, S, R)
  <1> DEFINE rank == [x \in S |-> Cardinality(Below(S, R, x)) + 1]
             N == Cardinality(S)
  <1>1. rank \in Bijection(S, 1..N) /\ \A x, y \in S : <<x, y>> \in R <=> rank[x] < rank[y]
    BY Ranks
  <1>2. \A x \in S : Cardinality(Below(S, R, x)) \in Nat
    BY FS_Subset, FS_CardinalityType DEF Below
  <1>3. ASSUME NEW k \in 1..N
        PROVE  order[k] \in S /\ rank[order[k]] = k
    <2>1. PICK x \in S : rank[x] = k
      BY <1>1 DEF Bijection, Surjection
    <2>2. Cardinality(Below(S, R, x)) = k - 1
      BY <2>1, <1>2
    <2>3. order[k] \in S /\ Cardinality(Below(S, R, order[k])) = k - 1
      BY <2>2
    <2>4. QED
      BY <2>3, <1>2
  <1>4. order \in [1..N -> S]
    BY <1>3
  <1>5. \A i, j \in 1..N : order[i] = order[j] => i = j
    BY <1>3
  <1>6. \A x \in S : rank[x] \in 1..N /\ order[rank[x]] = x
    <2> SUFFICES ASSUME NEW x \in S PROVE rank[x] \in 1..N /\ order[rank[x]] = x
      OBVIOUS
    <2>1. rank[x] \in 1..N
      BY <1>1 DEF Bijection, Injection
    <2>2. order[rank[x]] \in S /\ rank[order[rank[x]]] = rank[x]
      BY <2>1, <1>3
    <2>3. QED
      BY <2>1, <2>2, <1>1 DEF Bijection, Injection, IsInjective
  <1>7. order \in Bijection(1..N, S)
    <2>1. order \in Injection(1..N, S)
      BY <1>4, <1>5 DEF Injection, IsInjective
    <2>2. order \in Surjection(1..N, S)
      BY <1>4, <1>6 DEF Surjection
    <2>3. QED
      BY <2>1, <2>2 DEF Bijection
  <1>8. \A i, j \in 1..N : i < j => <<order[i], order[j]>> \in R
    BY <1>3, <1>1
  <1>9. QED
    BY <1>7, <1>8 DEF ListsInOrder

\* The two keys order events by place; events of one place are not ordered.
WeakOrder(S, R) ==
    /\ \A x \in S : <<x, x>> \notin R
    /\ \A x, y, z \in S : <<x, y>> \in R /\ <<y, z>> \in R => <<x, z>> \in R
    /\ \A x, y, z \in S : <<x, y>> \notin R /\ <<y, z>> \notin R => <<x, z>> \notin R

\* Ties broken by a strict order, a weak order becomes a strict one.
LEMMA TiesBroken ==
  ASSUME NEW S, NEW W, WeakOrder(S, W), NEW T, StrictOrder(S, T),
         NEW R, \A x, y \in S : <<x, y>> \in R <=>
                    <<x, y>> \in W \/ (<<y, x>> \notin W /\ <<x, y>> \in T)
  PROVE  StrictOrder(S, R)
  BY DEF WeakOrder, StrictOrder

\* Document order counts from 1.
LEMMA NumberedMeasures == \A m \in Mcs : m \in Nat /\ m # NoMc
  <1>1. DOMAIN Label = 1..Len(Label) /\ Len(Label) \in Nat
    BY TimelineAssumption, LenProperties
  <1>2. QED
    BY <1>1 DEF Mcs, NoMc

\* What the keys read of an event.
LEMMA EventFields ==
  ASSUME NEW e \in Event
  PROVE  e.mc \in Nat /\ e.label \in Nat /\ e.beat \in Nat
  <1>1. Beats \subseteq Nat
    BY TimelineAssumption
  <1>2. e.mc \in Mcs \cup {NoMc} /\ e.label \in Nat /\ e.beat \in Beats
    BY DEF Event
  <1>3. e.mc \in Nat
    BY <1>2, NumberedMeasures DEF NoMc
  <1>4. QED
    BY <1>1, <1>2, <1>3

LEMMA PrintOrder ==
  ASSUME NEW a \in Event, NEW b \in Event, NEW c \in Event
  PROVE  /\ ~InPrint(a, a)
         /\ InPrint(a, b) /\ InPrint(b, c) => InPrint(a, c)
         /\ ~InPrint(a, b) /\ ~InPrint(b, c) => ~InPrint(a, c)
  <1> DEFINE Key(e) == /\ e.label \in Nat /\ e.beat \in Nat
  <1>1. Key(a) /\ Key(b) /\ Key(c)
    BY EventFields
  <1>2. QED
    BY <1>1 DEF InPrint

LEMMA ScoreOrder ==
  ASSUME NEW a \in Event, NEW b \in Event, NEW c \in Event
  PROVE  /\ ~InScore(a, a)
         /\ InScore(a, b) /\ InScore(b, c) => InScore(a, c)
         /\ ~InScore(a, b) /\ ~InScore(b, c) => ~InScore(a, c)
  <1> DEFINE Key(e) == /\ e.mc \in Nat /\ e.label \in Nat /\ e.beat \in Nat
  <1>1. Key(a) /\ Key(b) /\ Key(c)
    BY EventFields
  <1>2. QED
    BY <1>1 DEF InScore, InPrint, NoMc

-----------------------------------------------------------------------------
(* The sorted array.                                                       *)

\* Sorting an array rearranges it into the order of print.
LEMMA SortedInPrint ==
  ASSUME NEW es \in Seq(Event)
  PROVE  \E order \in Bijection(DOMAIN es, DOMAIN es) :
            /\ Sorted(es, InPrint) = [k \in DOMAIN es |-> es[order[k]]]
            /\ \A i, j \in DOMAIN es : i < j => ~InPrint(es[order[j]], es[order[i]])
  <1> DEFINE S == DOMAIN es
             W == {p \in S \X S : InPrint(es[p[1]], es[p[2]])}
             T == {p \in S \X S : p[1] < p[2]}
             R == {p \in S \X S : \/ InPrint(es[p[1]], es[p[2]])
                                  \/ ~InPrint(es[p[2]], es[p[1]]) /\ p[1] < p[2]}
             Less(i, j) == \/ InPrint(es[i], es[j])
                           \/ ~InPrint(es[j], es[i]) /\ i < j
             order == Ranked(S, Less)
  <1>1. S = 1..Len(es) /\ Len(es) \in Nat
    BY LenProperties
  <1>2. IsFiniteSet(S) /\ Cardinality(S) = Len(es) /\ S = 1..Cardinality(S)
    BY <1>1, FS_Interval
  <1>3. \A i \in S : es[i] \in Event
    BY <1>1, ElementOfSeq
  <1>4. WeakOrder(S, W)
    BY <1>3, PrintOrder DEF WeakOrder
  <1>5. StrictOrder(S, T)
    BY <1>1 DEF StrictOrder
  <1>6. StrictOrder(S, R)
    <2> HIDE DEF S
    <2>1. \A x, y \in S : <<x, y>> \in R <=>
                    <<x, y>> \in W \/ (<<y, x>> \notin W /\ <<x, y>> \in T)
      OBVIOUS
    <2> HIDE DEF R, W, T
    <2>2. QED
      BY <2>1, <1>4, <1>5, TiesBroken
  <1>7. \A x \in S : Below(S, R, x) = {y \in S : Less(y, x)}
    BY DEF Below
  <1>8. order = [k \in 1..Cardinality(S) |->
                    CHOOSE x \in S : Cardinality({y \in S : Less(y, x)}) = k - 1]
    BY DEF Ranked
  <1>9. ListsInOrder(order, S, R)
    <2> HIDE DEF S, R, order, Less
    <2>1. order = [k \in 1..Cardinality(S) |-> order[k]]
      <3> DEFINE At(k) == CHOOSE x \in S : Cardinality({y \in S : Less(y, x)}) = k - 1
      <3>1. order = [k \in 1..Cardinality(S) |-> At(k)]
        BY <1>8
      <3> HIDE DEF At
      <3>2. QED
        BY <3>1
    <2>2. ASSUME NEW k \in 1..Cardinality(S), NEW x \in S, Cardinality(Below(S, R, x)) = k - 1
          PROVE  order[k] \in S /\ Cardinality(Below(S, R, order[k])) = k - 1
      <3>1. Cardinality({y \in S : Less(y, x)}) = k - 1
        BY <2>2, <1>7
      <3>2. order[k] \in S /\ Cardinality({y \in S : Less(y, order[k])}) = k - 1
        BY <3>1, <1>8
      <3>3. QED
        BY <3>2, <1>7
    <2>3. QED
      BY <2>1, <2>2, <1>2, <1>6, RankedLists
  <1>10. Sorted(es, InPrint) = [k \in S |-> es[order[k]]]
    BY DEF Sorted
  <1>11. order \in Bijection(S, S)
    <2> HIDE DEF S, order
    <2>1. QED
      BY <1>9, <1>2 DEF ListsInOrder
  <1>12. ASSUME NEW i \in S, NEW j \in S, i < j
         PROVE  ~InPrint(es[order[j]], es[order[i]])
    <2> HIDE DEF order
    <2>1. <<order[i], order[j]>> \in R
      BY <1>2, <1>9, <1>12 DEF ListsInOrder
    <2>2. es[order[i]] \in Event /\ es[order[j]] \in Event
      BY <2>1, <1>3
    <2>3. QED
      BY <2>1, <2>2, PrintOrder
  <1> HIDE DEF order
  <1>13. QED
    BY <1>10, <1>11, <1>12

LEMMA SortedType ==
  ASSUME NEW es \in Seq(Event)
  PROVE  Sorted(es, InPrint) \in Seq(Event)
  <1>1. PICK order \in Bijection(DOMAIN es, DOMAIN es) :
            Sorted(es, InPrint) = [k \in DOMAIN es |-> es[order[k]]]
    BY SortedInPrint
  <1>2. DOMAIN es = 1..Len(es) /\ Len(es) \in Nat
    BY LenProperties
  <1>3. \A k \in 1..Len(es) : es[order[k]] \in Event
    BY <1>1, <1>2, ElementOfSeq DEF Bijection, Injection
  <1>4. QED
    BY <1>1, <1>2, <1>3

-----------------------------------------------------------------------------
(* The editing primitives leave an array of events.                        *)

\* _find_event returns a place of the array, if the event is there.
LEMMA FoundIsPlace ==
  ASSUME NEW es \in Seq(Event), NEW id, Matches(es, id) # {}
  PROVE  Found(es, id) \in 1..Len(es)
  <1>1. DOMAIN es = 1..Len(es) /\ Len(es) \in Nat
    BY LenProperties
  <1>2. Matches(es, id) \in SUBSET Nat /\ Matches(es, id) \subseteq 1..Len(es)
    BY <1>1 DEF Matches
  <1>3. \E i \in Matches(es, id) : \A j \in Matches(es, id) : i <= j
    BY <1>2, LeastNat
  <1>4. Found(es, id) \in Matches(es, id)
    BY <1>3 DEF Found
  <1>5. QED
    BY <1>2, <1>4

LEMMA ByHandType ==
  ASSUME NEW e \in Event
  PROVE  /\ ByHand(e) \in Event
         /\ \A b \in Beats : [ByHand(e) EXCEPT !.beat = b] \in Event
         /\ \A ch \in Chords : [ByHand(e) EXCEPT !.chord = ch] \in Event
  BY DEF ByHand, Event

LEMMA DeletedType ==
  ASSUME NEW es \in Seq(Event), NEW id, Matches(es, id) # {}
  PROVE  Deleted(es, id) \in Seq(Event)
  <1> DEFINE at == Found(es, id)
  <1>1. at \in 1..Len(es) /\ Len(es) \in Nat
    BY FoundIsPlace, LenProperties
  <1> HIDE DEF at
  <1>2. \A i \in 1..Len(es) : es[i] \in Event
    BY ElementOfSeq
  <1>3. SubSeq(es, 1, at - 1) \in Seq(Event)
    BY <1>1, <1>2, SubSeqProperties
  <1>4. SubSeq(es, at + 1, Len(es)) \in Seq(Event)
    BY <1>1, <1>2, SubSeqProperties
  <1>5. SubSeq(es, 1, at - 1) \o SubSeq(es, at + 1, Len(es)) \in Seq(Event)
    BY <1>3, <1>4, ConcatProperties
  <1>6. QED
    BY <1>5 DEF Deleted, at

LEMMA MovedType ==
  ASSUME NEW es \in Seq(Event), NEW id, Matches(es, id) # {}, NEW beat \in Beats
  PROVE  Moved(es, id, beat) \in Seq(Event)
  <1> DEFINE at == Found(es, id)
             moved == [es EXCEPT ![at] = [ByHand(es[at]) EXCEPT !.beat = beat]]
  <1>1. at \in 1..Len(es)
    BY FoundIsPlace
  <1> HIDE DEF at
  <1>2. [ByHand(es[at]) EXCEPT !.beat = beat] \in Event
    BY <1>1, ElementOfSeq, ByHandType
  <1>3. moved \in Seq(Event)
    BY <1>1, <1>2, ExceptSeq
  <1>4. Moved(es, id, beat) = Sorted(moved, InPrint)
    BY DEF Moved, at
  <1>5. QED
    BY <1>3, <1>4, SortedType

LEMMA RespelledType ==
  ASSUME NEW es \in Seq(Event), NEW id, Matches(es, id) # {}, NEW chord \in Chords
  PROVE  Respelled(es, id, chord) \in Seq(Event)
  <1> DEFINE at == Found(es, id)
  <1>1. at \in 1..Len(es)
    BY FoundIsPlace
  <1> HIDE DEF at
  <1>2. [ByHand(es[at]) EXCEPT !.chord = chord] \in Event
    BY <1>1, ElementOfSeq, ByHandType
  <1>3. [es EXCEPT ![at] = [ByHand(es[at]) EXCEPT !.chord = chord]] \in Seq(Event)
    BY <1>1, <1>2, ExceptSeq
  <1>4. QED
    BY <1>3 DEF Respelled, at

LEMMA ConfirmedType ==
  ASSUME NEW es \in Seq(Event), NEW ids
  PROVE  Confirmed(es, ids) \in Seq(Event)
  <1>1. DOMAIN es = 1..Len(es) /\ Len(es) \in Nat /\ \A i \in 1..Len(es) : es[i] \in Event
    BY LenProperties, ElementOfSeq
  <1>2. \A e \in Event : [e EXCEPT !.reviewed = TRUE] \in Event
    BY DEF Event
  <1> DEFINE New(i) == IF \E id \in ids : Matches(es, id) # {} /\ Found(es, id) = i
                       THEN [es[i] EXCEPT !.reviewed = TRUE] ELSE es[i]
  <1>3. \A i \in 1..Len(es) : New(i) \in Event
    BY <1>1, <1>2
  <1>4. Confirmed(es, ids) = [i \in 1..Len(es) |-> New(i)]
    BY <1>1 DEF Confirmed
  <1> HIDE DEF New
  <1>5. QED
    BY <1>1, <1>3, <1>4

LEMMA InsertedType ==
  ASSUME NEW es \in Seq(Event), NEW id \in Ids, NEW chord \in Chords
  PROVE  Inserted(es, id, chord) \in Seq(Event)
  <1> DEFINE e == [mc |-> id.mc, label |-> id.label, beat |-> id.beat,
                   chord |-> chord, manual |-> TRUE, reviewed |-> TRUE,
                   orphaned |-> FALSE]
  <1>1. \A m \in Mcs : Label[m] \in Nat
    BY TimelineAssumption, LenProperties, ElementOfSeq DEF Mcs
  <1>2. e \in Event
    BY <1>1 DEF Ids, Event
  <1> HIDE DEF e
  <1>3. Append(es, e) \in Seq(Event)
    BY <1>2, AppendProperties
  <1>4. Inserted(es, id, chord) = Sorted(Append(es, e), InPrint)
    BY DEF Inserted, e
  <1>5. QED
    BY <1>3, <1>4, SortedType

\* What an edit request stores is an array of events again.
LEMMA EditedType ==
  ASSUME NEW es \in Seq(Event), NEW op \in Ops, Feasible(es, op)
  PROVE  Edited(es, op) \in Seq(Event)
  <1>1. CASE op.kind = "insert"
    <2>1. op.id \in Ids /\ op.chord \in Chords
      BY <1>1 DEF Ops
    <2>2. Edited(es, op) = Inserted(es, op.id, op.chord)
      BY <1>1 DEF Edited
    <2>3. QED
      BY <2>1, <2>2, InsertedType
  <1>2. CASE op.kind = "delete"
    <2>1. Matches(es, op.id) # {}
      BY <1>2 DEF Feasible
    <2>2. Edited(es, op) = Deleted(es, op.id)
      BY <1>2 DEF Edited
    <2>3. QED
      BY <2>1, <2>2, DeletedType
  <1>3. CASE op.kind = "move"
    <2>1. op.beat \in Beats /\ Matches(es, op.id) # {}
      BY <1>3 DEF Ops, Feasible
    <2>2. Edited(es, op) = Moved(es, op.id, op.beat)
      BY <1>3 DEF Edited
    <2>3. QED
      BY <2>1, <2>2, MovedType
  <1>4. CASE op.kind = "chord"
    <2>1. op.chord \in Chords /\ Matches(es, op.id) # {}
      BY <1>4 DEF Ops, Feasible
    <2>2. Edited(es, op) = Respelled(es, op.id, op.chord)
      BY <1>4 DEF Edited
    <2>3. QED
      BY <2>1, <2>2, RespelledType
  <1>5. CASE op.kind = "confirm"
    <2>1. Edited(es, op) = Confirmed(es, {op.id})
      BY <1>5 DEF Edited
    <2>2. QED
      BY <2>1, ConfirmedType
  <1>6. CASE op.kind = "batch"
    <2>1. Edited(es, op) = Confirmed(es, op.ids)
      BY <1>6 DEF Edited
    <2>2. QED
      BY <2>1, ConfirmedType
  <1>7. QED
    BY <1>1, <1>2, <1>3, <1>4, <1>5, <1>6 DEF Ops

-----------------------------------------------------------------------------
(* The merged array.                                                       *)

LEMMA KeptType ==
  ASSUME NEW e \in Event, NEW tsv
  PROVE  /\ Kept(e, tsv) \in Event
         /\ Kept(e, tsv).mc = e.mc
  BY DEF Kept, Event

\* The places of a merge: those of the analysis come first.
LEMMA PlacesOfMerge ==
  ASSUME NEW es \in Seq(Event), NEW tsv \in Seq(Event)
  PROVE  /\ IsFiniteSet(MergedPlaces(es, tsv))
         /\ \A p \in MergedPlaces(es, tsv) :
              /\ p = <<p[1], p[2]>> /\ p[1] \in {0, 1} /\ p[2] \in Nat
              /\ MergedEvent(es, tsv, p) \in Event
              /\ p[1] = 0 => p[2] \in DOMAIN tsv /\ tsv[p[2]].mc \in Renewed(es, tsv)
              /\ p[1] = 1 => /\ p[2] \in DOMAIN es
                             /\ Protected(es[p[2]]) \/ es[p[2]].mc = NoMc
  <1>1. /\ DOMAIN es = 1..Len(es) /\ Len(es) \in Nat
        /\ DOMAIN tsv = 1..Len(tsv) /\ Len(tsv) \in Nat
    BY LenProperties
  <1>2. /\ \A i \in DOMAIN es : es[i] \in Event
        /\ \A i \in DOMAIN tsv : tsv[i] \in Event
    BY <1>1, ElementOfSeq
  <1>3. IsFiniteSet(MergedPlaces(es, tsv))
    <2> DEFINE M == Len(es) + Len(tsv) + 1
               All == (0..M) \X (0..M)
    <2>1. M \in Nat /\ IsFiniteSet(0..M)
      <3>1. M \in Nat
        BY <1>1
      <3> HIDE DEF M
      <3>2. QED
        BY <3>1, FS_Interval
    <2>2. IsFiniteSet(All)
      BY <2>1, FS_Product
    <2>3. MergedPlaces(es, tsv) \in SUBSET All
      BY <1>1 DEF MergedPlaces
    <2> HIDE DEF All
    <2>4. QED
      BY <2>2, <2>3, FS_Subset
  <1>4. ASSUME NEW p \in MergedPlaces(es, tsv)
        PROVE  /\ p = <<p[1], p[2]>> /\ p[1] \in {0, 1} /\ p[2] \in Nat
               /\ p[1] = 0 => p[2] \in DOMAIN tsv /\ tsv[p[2]].mc \in Renewed(es, tsv)
               /\ p[1] = 1 => /\ p[2] \in DOMAIN es
                              /\ Protected(es[p[2]]) \/ es[p[2]].mc = NoMc
    BY <1>1 DEF MergedPlaces
  <1>5. ASSUME NEW p \in MergedPlaces(es, tsv)
        PROVE  MergedEvent(es, tsv, p) \in Event
    BY <1>2, <1>4, KeptType DEF MergedEvent
  <1>6. QED
    BY <1>3, <1>4, <1>5

\* Merging lists the places of the merge by score, ties in the order in which
\* the code appended them.
LEMMA MergedLists ==
  ASSUME NEW es \in Seq(Event), NEW tsv \in Seq(Event), es # <<>>
  PROVE  \E order :
            /\ order \in Bijection(1..Cardinality(MergedPlaces(es, tsv)), MergedPlaces(es, tsv))
            /\ \A i, j \in 1..Cardinality(MergedPlaces(es, tsv)) :
                 i < j => MergedBefore(es, tsv, order[i], order[j])
            /\ Merged(es, tsv) = [k \in 1..Cardinality(MergedPlaces(es, tsv)) |->
                                    MergedEvent(es, tsv, order[k])]
  <1> DEFINE S == MergedPlaces(es, tsv)
             Ev(p) == MergedEvent(es, tsv, p)
             W == {p \in S \X S : InScore(Ev(p[1]), Ev(p[2]))}
             T == {p \in S \X S : \/ p[1][1] < p[2][1]
                                  \/ p[1][1] = p[2][1] /\ p[1][2] < p[2][2]}
             R == {p \in S \X S : MergedBefore(es, tsv, p[1], p[2])}
             Less(p, q) == MergedBefore(es, tsv, p, q)
             order == Ranked(S, Less)
  <1>1. /\ IsFiniteSet(S)
        /\ \A p \in S : /\ p = <<p[1], p[2]>> /\ p[1] \in {0, 1} /\ p[2] \in Nat
                        /\ Ev(p) \in Event
    BY PlacesOfMerge
  <1>2. WeakOrder(S, W)
    <2> HIDE DEF S, Ev
    <2>1. QED
      BY <1>1, ScoreOrder DEF WeakOrder
  <1>3. StrictOrder(S, T)
    <2> HIDE DEF S, Ev
    <2>1. \A p \in S : p[1] \in Nat /\ p[2] \in Nat
      BY <1>1
    <2>2. \A p, q \in S : p[1] = q[1] /\ p[2] = q[2] => p = q
      BY <1>1
    <2>3. QED
      BY <2>1, <2>2 DEF StrictOrder
  <1>4. StrictOrder(S, R)
    <2>1. \A p, q \in S : <<p, q>> \in R <=>
                    <<p, q>> \in W \/ (<<q, p>> \notin W /\ <<p, q>> \in T)
      <3> HIDE DEF S
      <3>1. QED
        BY DEF MergedBefore
    <2> HIDE DEF R, W, T, S
    <2>2. QED
      BY <2>1, <1>2, <1>3, TiesBroken
  <1>5. \A p \in S : Below(S, R, p) = {q \in S : Less(q, p)}
    <2> HIDE DEF S
    <2>1. QED
      BY DEF Below
  <1>6. order = [k \in 1..Cardinality(S) |->
                    CHOOSE p \in S : Cardinality({q \in S : Less(q, p)}) = k - 1]
    BY DEF Ranked
  <1>7. ListsInOrder(order, S, R)
    <2> HIDE DEF S, R, order, Less
    <2>1. order = [k \in 1..Cardinality(S) |-> order[k]]
      <3> DEFINE At(k) == CHOOSE p \in S : Cardinality({q \in S : Less(q, p)}) = k - 1
      <3>1. order = [k \in 1..Cardinality(S) |-> At(k)]
        BY <1>6
      <3> HIDE DEF At
      <3>2. QED
        BY <3>1
    <2>2. ASSUME NEW k \in 1..Cardinality(S), NEW x \in S, Cardinality(Below(S, R, x)) = k - 1
          PROVE  order[k] \in S /\ Cardinality(Below(S, R, order[k])) = k - 1
      <3>1. Cardinality({q \in S : Less(q, x)}) = k - 1
        BY <2>2, <1>5
      <3>2. order[k] \in S /\ Cardinality({q \in S : Less(q, order[k])}) = k - 1
        BY <3>1, <1>6
      <3>3. QED
        BY <3>2, <1>5
    <2>3. QED
      BY <2>1, <2>2, <1>1, <1>4, RankedLists
  <1>8. Merged(es, tsv) = [k \in DOMAIN order |-> Ev(order[k])]
    BY DEF Merged
  <1> HIDE DEF order, S
  <1>9. DOMAIN order = 1..Cardinality(S)
    BY <1>7 DEF ListsInOrder, Bijection, Injection
  <1>10. order \in Bijection(1..Cardinality(S), S)
    BY <1>7 DEF ListsInOrder
  <1>11. \A i, j \in 1..Cardinality(S) : i < j => MergedBefore(es, tsv, order[i], order[j])
    <2>1. \A i, j \in 1..Cardinality(S) : i < j => <<order[i], order[j]>> \in R
      BY <1>7 DEF ListsInOrder
    <2>2. QED
      BY <2>1
  <1>12. Merged(es, tsv) = [k \in 1..Cardinality(S) |-> MergedEvent(es, tsv, order[k])]
    BY <1>8, <1>9
  <1>13. QED
    BY <1>10, <1>11, <1>12 DEF S

LEMMA MergedType ==
  ASSUME NEW es \in Seq(Event), NEW tsv \in Seq(Event)
  PROVE  Merged(es, tsv) \in Seq(Event)
  <1>1. CASE es = <<>>
    BY <1>1 DEF Merged
  <1>2. CASE es # <<>>
    <2> DEFINE S == MergedPlaces(es, tsv)
               N == Cardinality(S)
    <2>1. PICK order \in Bijection(1..N, S) :
             Merged(es, tsv) = [k \in 1..N |-> MergedEvent(es, tsv, order[k])]
      BY <1>2, MergedLists
    <2>2. N \in Nat
      BY PlacesOfMerge, FS_CardinalityType
    <2>3. \A k \in 1..N : MergedEvent(es, tsv, order[k]) \in Event
      BY <2>1, PlacesOfMerge DEF Bijection, Injection
    <2> HIDE DEF S, N
    <2>4. QED
      BY <2>1, <2>2, <2>3
  <1>3. QED
    BY <1>1, <1>2

-----------------------------------------------------------------------------
(* Edits and the lock.                                                     *)

\* The array an edit works on is the array: nobody else can have stored
\* anything since, because the edit holds the lock and tasks wait for it.
LockInv ==
    /\ DOMAIN edit = Clients
    /\ edit = [c \in Clients |-> edit[c]]
    /\ lock \in Clients \cup {Nobody}
    /\ \A c \in Clients : edit[c] # Idle => lock = c /\ edit[c].read = events

LEMMA LockStep == LockInv /\ [Next]_vars => LockInv'
  <1> SUFFICES ASSUME LockInv, [Next]_vars PROVE LockInv'
    OBVIOUS
  <1> USE HarmonyAssumption DEF LockInv
  <1>1. ASSUME NEW c \in Clients, NEW op \in Sent, Load(c, op) PROVE LockInv'
    BY <1>1 DEF Load, Idle
  <1>2. ASSUME NEW c \in Clients, CommitEdit(c) PROVE LockInv'
    BY <1>2 DEF CommitEdit, Release
  <1>3. ASSUME NEW c \in Clients, AbandonEdit(c) PROVE LockInv'
    BY <1>3 DEF AbandonEdit, Release
  <1>4. ASSUME NEW t \in Tasks, NEW tsv \in Tsvs, StartAnalysis(t, tsv) PROVE LockInv'
    BY <1>4 DEF StartAnalysis
  <1>5. ASSUME NEW t \in Tasks, FinishAnalysis(t) PROVE LockInv'
    BY <1>5 DEF FinishAnalysis
  <1>6. ASSUME NEW t \in Tasks, FailAnalysis(t) PROVE LockInv'
    BY <1>6 DEF FailAnalysis
  <1>7. CASE UNCHANGED vars
    BY <1>7 DEF vars
  <1>8. QED
    BY <1>1, <1>2, <1>3, <1>4, <1>5, <1>6, <1>7 DEF Next

\* No edit of the harmony undoes what another edit or an analysis has stored
\* since it was read, whoever else is at work.
THEOREM EditIsolation == Spec => EditsAreIsolated
  <1> DEFINE Isolated ==
        \A c \in Clients : Commits(c) => events' = Edited(events, edit[c].op)
  <1>1. Init => LockInv
    BY DEF Init, LockInv
  <1>2. LockInv /\ [Next]_vars => [Isolated]_vars
    <2> SUFFICES ASSUME LockInv, Next, NEW c \in Clients, Commits(c)
                 PROVE  events' = Edited(events, edit[c].op)
      OBVIOUS
    <2>1. ASSUME NEW d \in Clients, CommitEdit(d)
          PROVE  events' = Edited(events, edit[c].op)
      <3>1. d = c
        BY <2>1, HarmonyAssumption DEF CommitEdit, LockInv, Commits
      <3>2. QED
        BY <2>1, <3>1 DEF CommitEdit, LockInv
    <2>2. ASSUME NEW d \in Clients, (\E op \in Sent : Load(d, op)) \/ AbandonEdit(d)
          PROVE  FALSE
      BY <2>2 DEF Load, AbandonEdit, Commits
    <2>3. ASSUME NEW t \in Tasks, (\E tsv \in Tsvs : StartAnalysis(t, tsv)) \/ FailAnalysis(t)
          PROVE  FALSE
      BY <2>3 DEF StartAnalysis, FailAnalysis, Commits
    <2>4. ASSUME NEW t \in Tasks, FinishAnalysis(t) PROVE FALSE
      BY <2>4 DEF FinishAnalysis, Commits
    <2>5. QED
      BY <2>1, <2>2, <2>3, <2>4 DEF Next
  <1>3. QED
    BY <1>1, <1>2, LockStep, PTL DEF Spec, EditsAreIsolated

-----------------------------------------------------------------------------
(* The state.                                                              *)

LEMMA TypeStep == TypeOK /\ [Next]_vars => TypeOK'
  <1> SUFFICES ASSUME TypeOK, [Next]_vars PROVE TypeOK'
    OBVIOUS
  <1> USE DEF TypeOK
  <1>1. ASSUME NEW c \in Clients, NEW op \in Sent, Load(c, op) PROVE TypeOK'
    BY <1>1 DEF Load
  <1>2. ASSUME NEW c \in Clients, CommitEdit(c) PROVE TypeOK'
    <2>1. edit[c].op \in Ops /\ edit[c].read \in Seq(Event) /\ Feasible(edit[c].read, edit[c].op)
      BY <1>2, HarmonyAssumption DEF CommitEdit
    <2>2. events' \in Seq(Event)
      BY <1>2, <2>1, EditedType DEF CommitEdit
    <2>3. QED
      BY <1>2, <2>2 DEF CommitEdit, Release
  <1>3. ASSUME NEW c \in Clients, AbandonEdit(c) PROVE TypeOK'
    BY <1>3 DEF AbandonEdit, Release
  <1>4. ASSUME NEW t \in Tasks, NEW tsv \in Tsvs, StartAnalysis(t, tsv) PROVE TypeOK'
    BY <1>4 DEF StartAnalysis
  <1>5. ASSUME NEW t \in Tasks, FinishAnalysis(t) PROVE TypeOK'
    <2>1. task[t].read \in Seq(Event) /\ task[t].tsv \in Seq(Event)
      BY <1>5, TimelineAssumption DEF FinishAnalysis
    <2>2. events' \in Seq(Event)
      BY <1>5, <2>1, MergedType DEF FinishAnalysis
    <2>3. QED
      BY <1>5, <2>2 DEF FinishAnalysis
  <1>6. ASSUME NEW t \in Tasks, FailAnalysis(t) PROVE TypeOK'
    BY <1>6 DEF FailAnalysis
  <1>7. CASE UNCHANGED vars
    BY <1>7 DEF vars
  <1>8. QED
    BY <1>1, <1>2, <1>3, <1>4, <1>5, <1>6, <1>7 DEF Next

\* Whatever edits and analyses do, movement_analysis.events is an array of
\* well-formed events, and so is every copy of it that somebody works on.
THEOREM TypeCorrect == Spec => []TypeOK
  <1>1. Init => TypeOK
    BY EmptySeq DEF Init, TypeOK
  <1>2. QED
    BY <1>1, TypeStep, PTL DEF Spec

-----------------------------------------------------------------------------
(* The policy of the merge, for every array and every analysis.            *)

\* Reviewed and manual events stay.
LEMMA MergeKeepsProtected ==
  ASSUME NEW es \in Seq(Event), NEW tsv \in Seq(Event),
         NEW e \in SetOf(es), Protected(e)
  PROVE  Kept(e, tsv) \in SetOf(Merged(es, tsv))
  <1> DEFINE S == MergedPlaces(es, tsv)
             N == Cardinality(S)
  <1>1. PICK i \in DOMAIN es : e = es[i]
    BY DEF SetOf
  <1>2. es # <<>>
    BY <1>1
  <1>3. PICK order \in Bijection(1..N, S) :
           Merged(es, tsv) = [k \in 1..N |-> MergedEvent(es, tsv, order[k])]
    BY <1>2, MergedLists
  <1>4. <<1, i>> \in S
    BY <1>1 DEF MergedPlaces
  <1> HIDE DEF S, N
  <1>5. PICK k \in 1..N : order[k] = <<1, i>>
    BY <1>3, <1>4 DEF Bijection, Surjection
  <1>6. Merged(es, tsv)[k] = Kept(e, tsv)
    BY <1>1, <1>3, <1>5 DEF MergedEvent
  <1>7. QED
    BY <1>3, <1>6 DEF SetOf

\* Nothing else stays but events that name no measure.
LEMMA MergeDropsStale ==
  ASSUME NEW es \in Seq(Event), NEW tsv \in Seq(Event),
         NEW e \in SetOf(Merged(es, tsv))
  PROVE  \/ e \in SetOf(tsv)
         \/ \E old \in SetOf(es) : e = Kept(old, tsv) /\ (Protected(old) \/ old.mc = NoMc)
  <1>1. CASE es = <<>>
    BY <1>1 DEF Merged
  <1>2. CASE es # <<>>
    <2> DEFINE S == MergedPlaces(es, tsv)
               N == Cardinality(S)
    <2>1. PICK order \in Bijection(1..N, S) :
             Merged(es, tsv) = [k \in 1..N |-> MergedEvent(es, tsv, order[k])]
      BY <1>2, MergedLists
    <2> HIDE DEF N
    <2>2. PICK k \in 1..N : e = MergedEvent(es, tsv, order[k])
      BY <2>1 DEF SetOf
    <2>3. order[k] \in S
      BY <2>1 DEF Bijection, Injection
    <2> DEFINE p == order[k]
    <2> HIDE DEF p
    <2>4. /\ p[1] \in {0, 1}
          /\ p[1] = 0 => p[2] \in DOMAIN tsv
          /\ p[1] = 1 => /\ p[2] \in DOMAIN es
                         /\ Protected(es[p[2]]) \/ es[p[2]].mc = NoMc
      BY <2>3, PlacesOfMerge DEF p
    <2>5. e = IF p[1] = 0 THEN tsv[p[2]] ELSE Kept(es[p[2]], tsv)
      BY <2>2 DEF MergedEvent, p
    <2>6. QED
      BY <2>4, <2>5 DEF SetOf
  <1>3. QED
    BY <1>1, <1>2

\* An untouched measure that the analysis covers is renewed: its first event on
\* file, which is what the code looks at, is not protected.
LEMMA UntouchedRenewed ==
  ASSUME NEW es \in Seq(Event), NEW tsv, NEW mc \in Mcs, OfMeasure(tsv, mc) # {},
         \A i \in OfMeasure(es, mc) : ~Protected(es[i])
  PROVE  mc \in Renewed(es, tsv)
  <1>1. OfMeasure(es, mc) \in SUBSET Nat
    <2>1. DOMAIN es = 1..Len(es)
      BY LenProperties
    <2>2. QED
      BY <2>1 DEF OfMeasure
  <1>2. OfMeasure(es, mc) # {} =>
            \E i \in OfMeasure(es, mc) : \A j \in OfMeasure(es, mc) : i <= j
    BY <1>1, LeastNat
  <1>3. QED
    BY <1>2 DEF Renewed

\* A measure that nobody has touched is that of the analysis.
LEMMA MergeTakesOver ==
  ASSUME NEW es \in Seq(Event), NEW tsv \in Seq(Event), NEW mc \in Mcs,
         \A i \in OfMeasure(es, mc) : ~Protected(es[i])
  PROVE  TakenOver(Merged(es, tsv), tsv, mc)
  <1>1. CASE es = <<>>
    <2> DEFINE from == [i \in OfMeasure(tsv, mc) |-> i]
    <2>1. Merged(es, tsv) = tsv
      BY <1>1 DEF Merged
    <2>2. from \in Bijection(OfMeasure(tsv, mc), OfMeasure(tsv, mc))
      BY DEF Bijection, Injection, IsInjective, Surjection
    <2>3. QED
      BY <2>1, <2>2 DEF TakenOver
  <1>2. CASE es # <<>>
    <2> DEFINE S == MergedPlaces(es, tsv)
               N == Cardinality(S)
               merged == Merged(es, tsv)
    <2>1. PICK order \in Bijection(1..N, S) :
             /\ merged = [k \in 1..N |-> MergedEvent(es, tsv, order[k])]
             /\ \A i, j \in 1..N : i < j => MergedBefore(es, tsv, order[i], order[j])
      BY <1>2, MergedLists
    <2> DEFINE from == [i \in OfMeasure(merged, mc) |-> order[i][2]]
    <2> HIDE DEF N, merged
    <2>2. mc # NoMc /\ mc \in Nat
      BY NumberedMeasures
    <2>3. \A i \in OfMeasure(merged, mc) :
             i \in 1..N /\ merged[i] = MergedEvent(es, tsv, order[i]) /\ merged[i].mc = mc
      BY <2>1 DEF OfMeasure
    <2>4. ASSUME NEW i \in OfMeasure(merged, mc)
          PROVE  /\ order[i] = <<0, from[i]>> /\ from[i] \in OfMeasure(tsv, mc)
                 /\ merged[i] = tsv[from[i]]
      <3> DEFINE p == order[i]
      <3>1. p \in S /\ from[i] = p[2]
        BY <2>1, <2>3 DEF Bijection, Injection
      <3> HIDE DEF p, from
      <3>2. /\ p = <<p[1], p[2]>> /\ p[1] \in {0, 1}
            /\ p[1] = 0 => p[2] \in DOMAIN tsv
            /\ p[1] = 1 => /\ p[2] \in DOMAIN es
                           /\ Protected(es[p[2]]) \/ es[p[2]].mc = NoMc
        BY <3>1, PlacesOfMerge
      <3>3. merged[i] = IF p[1] = 0 THEN tsv[p[2]] ELSE Kept(es[p[2]], tsv)
        BY <2>3 DEF MergedEvent, p
      <3>4. p[1] # 1
        <4> SUFFICES ASSUME p[1] = 1 PROVE FALSE
          OBVIOUS
        <4>1. p[2] \in DOMAIN es /\ es[p[2]] \in Event
          BY <3>2, LenProperties, ElementOfSeq
        <4>2. es[p[2]].mc = mc
          BY <2>3, <3>3, <4>1, KeptType
        <4>3. QED
          BY <2>2, <3>2, <4>1, <4>2 DEF OfMeasure
      <3>5. p[1] = 0 /\ p[2] \in DOMAIN tsv /\ merged[i] = tsv[p[2]] /\ p = <<0, p[2]>>
        BY <3>2, <3>3, <3>4
      <3>6. QED
        BY <3>1, <3>5, <2>3 DEF OfMeasure, p
    <2>5. ASSUME NEW j \in OfMeasure(tsv, mc)
          PROVE  \E i \in OfMeasure(merged, mc) : from[i] = j
      <3>1. mc \in Renewed(es, tsv)
        BY UntouchedRenewed
      <3>2. <<0, j>> \in S
        BY <3>1 DEF MergedPlaces, OfMeasure
      <3> HIDE DEF S
      <3>3. PICK i \in 1..N : order[i] = <<0, j>>
        BY <2>1, <3>2 DEF Bijection, Surjection
      <3>4. merged[i] = tsv[j]
        BY <2>1, <3>3 DEF MergedEvent
      <3>5. i \in OfMeasure(merged, mc)
        BY <2>1, <3>4 DEF OfMeasure
      <3>6. QED
        BY <3>3, <3>5
    <2>6. from \in Bijection(OfMeasure(merged, mc), OfMeasure(tsv, mc))
      <3>1. from \in [OfMeasure(merged, mc) -> OfMeasure(tsv, mc)]
        BY <2>4
      <3>2. ASSUME NEW i \in OfMeasure(merged, mc), NEW j \in OfMeasure(merged, mc),
                   from[i] = from[j]
            PROVE  i = j
        <4>1. order[i] = order[j] /\ i \in 1..N /\ j \in 1..N
          BY <2>3, <2>4, <3>2
        <4>2. QED
          BY <4>1 DEF Bijection, Injection, IsInjective
      <3> HIDE DEF from
      <3>3. QED
        BY <3>1, <3>2, <2>5 DEF Bijection, Injection, IsInjective, Surjection
    <2>7. ASSUME NEW i \in OfMeasure(merged, mc), NEW j \in OfMeasure(merged, mc), i < j
          PROVE  from[i] < from[j] \/ InPrint(merged[i], merged[j])
      <3>1. MergedBefore(es, tsv, order[i], order[j])
        BY <2>1, <2>3, <2>7
      <3>2. /\ order[i][1] = 0 /\ order[i][2] = from[i]
            /\ order[j][1] = 0 /\ order[j][2] = from[j]
        BY <2>4
      <3>3. InScore(merged[i], merged[j]) \/ from[i] < from[j]
        BY <2>3, <3>1, <3>2 DEF MergedBefore
      <3>4. InScore(merged[i], merged[j]) => InPrint(merged[i], merged[j])
        BY <2>2, <2>3 DEF InScore
      <3>5. QED
        BY <3>3, <3>4
    <2> HIDE DEF from
    <2>8. TakenOver(merged, tsv, mc)
      BY <2>4, <2>6, <2>7 DEF TakenOver
    <2>9. QED
      BY <2>8 DEF merged
  <1>3. QED
    BY <1>1, <1>2

\* The smart merge follows the policy of ADR-004 in every reachable state, for
\* every analysis that may arrive.
THEOREM PolicyFollowed == Spec => []MergeFollowsPolicy
  <1>1. TypeOK => MergeFollowsPolicy
    <2> SUFFICES ASSUME TypeOK, NEW tsv \in Tsvs
                 PROVE  LET merged == Merged(events, tsv) IN
        /\ \A e \in SetOf(events) : Protected(e) => Kept(e, tsv) \in SetOf(merged)
        /\ \A e \in SetOf(merged) :
             \/ e \in SetOf(tsv)
             \/ \E old \in SetOf(events) :
                    e = Kept(old, tsv) /\ (Protected(old) \/ old.mc = NoMc)
        /\ \A mc \in Mcs :
             (\A i \in OfMeasure(events, mc) : ~Protected(events[i])) =>
                TakenOver(merged, tsv, mc)
      BY DEF MergeFollowsPolicy
    <2>1. events \in Seq(Event) /\ tsv \in Seq(Event)
      BY TimelineAssumption DEF TypeOK
    <2>2. QED
      BY <2>1, MergeKeepsProtected, MergeDropsStale, MergeTakesOver
  <1>2. QED
    BY <1>1, TypeCorrect, PTL

\* What an analysis may lose is what was reviewed after it had read the array:
\* a task that stores its result while the array is as it has read it keeps
\* every protected event.
THEOREM UndisturbedAnalysisKeepsReviews ==
  Spec => [][\A t \in Tasks : task[t] # Idle /\ task'[t] = Idle /\ task[t].read = events =>
                \A e \in SetOf(events) : Protected(e) =>
                    \E f \in SetOf(events') : f \in {e, Kept(e, task[t].tsv)}]_vars
  <1> DEFINE KeepsReviews ==
        \A t \in Tasks : task[t] # Idle /\ task'[t] = Idle /\ task[t].read = events =>
            \A e \in SetOf(events) : Protected(e) =>
                \E f \in SetOf(events') : f \in {e, Kept(e, task[t].tsv)}
  <1>1. TypeOK /\ [Next]_vars => [KeepsReviews]_vars
    <2> SUFFICES ASSUME TypeOK, Next, NEW t \in Tasks,
                        task[t] # Idle, task'[t] = Idle, task[t].read = events,
                        NEW e \in SetOf(events), Protected(e)
                 PROVE  \E f \in SetOf(events') : f \in {e, Kept(e, task[t].tsv)}
      OBVIOUS
    <2>1. CASE events' = events
      BY <2>1
    <2>2. ASSUME NEW c \in Clients, CommitEdit(c) PROVE FALSE
      BY <2>2 DEF CommitEdit
    <2>3. ASSUME NEW u \in Tasks, FinishAnalysis(u)
          PROVE  Kept(e, task[t].tsv) \in SetOf(events')
      <3>1. u = t
        BY <2>3 DEF FinishAnalysis, TypeOK
      <3>2. task[t].read \in Seq(Event) /\ task[t].tsv \in Seq(Event)
        BY TimelineAssumption DEF TypeOK
      <3>3. events' = Merged(events, task[t].tsv)
        BY <2>3, <3>1 DEF FinishAnalysis
      <3>4. QED
        BY <3>2, <3>3, MergeKeepsProtected
    <2>4. ASSUME NEW c \in Clients, (\E op \in Sent : Load(c, op)) \/ AbandonEdit(c)
          PROVE  events' = events
      BY <2>4 DEF Load, AbandonEdit
    <2>5. ASSUME NEW u \in Tasks,
                 (\E tsv \in Tsvs : StartAnalysis(u, tsv)) \/ FailAnalysis(u)
          PROVE  events' = events
      BY <2>5 DEF StartAnalysis, FailAnalysis
    <2>6. QED
      BY <2>1, <2>2, <2>3, <2>4, <2>5 DEF Next
  <1>2. QED
    BY <1>1, TypeCorrect, PTL DEF Spec

=============================================================================
