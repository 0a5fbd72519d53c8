---------------------------- MODULE UploadProofs ----------------------------
(***************************************************************************)
(* Proofs about what becomes of an uploaded score.  First MeiNormalizer,   *)
(* the passes that ingestion runs on every file, for any set of scores and *)
(* corrections; then CorpusIngestion, the upload itself with its objects,  *)
(* its row and its two tasks, for any number of uploads, of requests in    *)
(* flight, of workers (but for the incipits) and of retries.               *)
(***************************************************************************)
EXTENDS MeiNormalizer, CorpusIngestion, TLAPS, SequenceTheorems, NaturalsInduction,
        WellFoundedInduction, FiniteSetTheorems, FunctionTheorems

-----------------------------------------------------------------------------
(* Natural numbers.                                                         *)

\* The least of some natural numbers.
LEMMA LeastNat ==
  ASSUME NEW T \in SUBSET Nat, T # {}
  PROVE  \E n \in T : \A m \in T : n <= m
  <1>1. IsWellFoundedOn(OpToRel(<, Nat), Nat)
    BY NatLessThanWellFounded
  <1>2. \E n \in T : \A m \in T : ~(<<m, n>> \in OpToRel(<, Nat))
    BY <1>1, WFMin
  <1>3. \A m, n \in T : ~(<<m, n>> \in OpToRel(<, Nat)) => n <= m
    BY DEF OpToRel
  <1>4. QED
    BY <1>2, <1>3

\* What holds at a and goes on from each place to the next holds up to n.
LEMMA Climb ==
  ASSUME NEW a \in Nat, NEW n \in Nat, NEW T, a \in T,
         \A m \in a..n : m \in T /\ m < n => m + 1 \in T
  PROVE  a..n \subseteq T
  <1> DEFINE B == (a..n) \ T
  <1> SUFFICES ASSUME B # {} PROVE FALSE
    OBVIOUS
  <1>1. B \in SUBSET Nat
    OBVIOUS
  <1>2. PICK m \in B : \A k \in B : m <= k
    BY <1>1, LeastNat
  <1>3. m \in a..n /\ m # a /\ m - 1 \in a..n /\ m - 1 < n
    BY <1>2
  <1>4. m - 1 \in T
    BY <1>2, <1>3
  <1>5. QED
    BY <1>2, <1>3, <1>4

\* The results g of a walk from a to m + 1: those of f up to m, and x.
Longer(g, f, a, m, x) ==
    g = [k \in a..(m + 1) |-> g[k]] /\ g[m + 1] = x /\ \A k \in a..m : g[k] = f[k]

LEMMA OneMoreResult ==
  ASSUME NEW a \in Nat, NEW m \in Nat, a <= m + 1, NEW f, NEW x
  PROVE  \E g : Longer(g, f, a, m, x)
  <1> DEFINE g == [k \in a..(m + 1) |-> IF k <= m THEN f[k] ELSE x]
  <1>1. \A k \in a..m : g[k] = f[k]
    OBVIOUS
  <1>2. g[m + 1] = x
    OBVIOUS
  <1>3. Longer(g, f, a, m, x)
    BY <1>1, <1>2 DEF Longer
  <1>4. QED
    BY <1>3

-----------------------------------------------------------------------------
(* The notes of a score, and the page: everything about them but what the   *)
(* gestural accidentals are.                                                *)

IsNote(x) == x = [pitch |-> x.pitch, letter |-> x.letter, accid |-> x.accid, ges |-> x.ges]
IsEvent(e) ==
    /\ e = [dur |-> e.dur, notes |-> e.notes] /\ e.dur \in Nat
    /\ e.notes = [k \in DOMAIN e.notes |-> e.notes[k]]
    /\ \E n \in Nat : DOMAIN e.notes = 1..n
    /\ \A k \in DOMAIN e.notes : IsNote(e.notes[k])
IsLayer(layer) ==
    /\ layer = [e \in DOMAIN layer |-> layer[e]]
    /\ \E n \in Nat : DOMAIN layer = 1..n
    /\ \A e \in DOMAIN layer : IsEvent(layer[e])

\* The voices of a score, whatever the tokens of its accidentals are.
Shaped(v) ==
    /\ v = [x \in DOMAIN v |-> v[x]] /\ IsFiniteSet(DOMAIN v)
    /\ \A x \in DOMAIN v : x \in Nat \X Nat \X Nat /\ IsLayer(v[x])

\* The same places for notes, at the same time.
SameGrid(v, w) ==
    /\ DOMAIN w = DOMAIN v /\ P!Ids(w) = P!Ids(v)
    /\ \A x \in DOMAIN v : P!Durations(w[x]) = P!Durations(v[x])

\* Nothing differs but gestural accidentals.
SamePage(v, w) ==
    /\ Shaped(w) /\ SameGrid(v, w)
    /\ \A i \in P!Ids(v) : /\ P!At(w, i).pitch = P!At(v, i).pitch
                           /\ P!At(w, i).letter = P!At(v, i).letter
                           /\ P!At(w, i).accid = P!At(v, i).accid

\* MeiPitch has the finite sets by another name.
LEMMA FiniteThere == \A S : P!IsFiniteSet(S) <=> IsFiniteSet(S)
  BY DEF P!IsFiniteSet, IsFiniteSet

LEMMA CardinalityThere == ASSUME NEW S PROVE P!Cardinality(S) = Cardinality(S)
  BY DEF P!Cardinality, Cardinality, P!IsFiniteSet, IsFiniteSet

LEMMA SequenceIs ==
  ASSUME NEW S, NEW s \in Seq(S)
  PROVE  /\ s = [k \in DOMAIN s |-> s[k]] /\ Len(s) \in Nat /\ DOMAIN s = 1..Len(s)
         /\ \E n \in Nat : DOMAIN s = 1..n
         /\ \A k \in DOMAIN s : s[k] \in S
  <1>1. s \in [1..Len(s) -> S] /\ Len(s) \in Nat
    BY LenProperties
  <1>2. QED
    BY <1>1

LEMMA VoicesAreShaped == ASSUME NEW v, P!IsVoices(v) PROVE Shaped(v)
  <1>1. ASSUME NEW x \in DOMAIN v PROVE IsLayer(v[x])
    <2>1. v[x] \in Seq(P!Event)
      BY DEF P!IsVoices
    <2>2. ASSUME NEW e \in DOMAIN v[x] PROVE IsEvent(v[x][e])
      <3> DEFINE event == v[x][e]
      <3>1. event \in P!Event
        BY <2>1, SequenceIs
      <3> HIDE DEF event
      <3>2. event = [dur |-> event.dur, notes |-> event.notes]
            /\ event.dur \in Nat /\ event.notes \in Seq(P!Note)
        BY <3>1 DEF P!Event
      <3>3. \A k \in DOMAIN event.notes : event.notes[k] \in P!Note
        BY <3>2, SequenceIs
      <3>4. \A x1 \in P!Note : IsNote(x1)
        BY DEF P!Note, IsNote
      <3>5. event.notes = [k \in DOMAIN event.notes |-> event.notes[k]]
            /\ \E n \in Nat : DOMAIN event.notes = 1..n
        BY <3>2, SequenceIs
      <3>6. IsEvent(event)
        BY <3>2, <3>3, <3>4, <3>5 DEF IsEvent
      <3>7. QED
        BY <3>6 DEF event
    <2>3. v[x] = [e \in DOMAIN v[x] |-> v[x][e]] /\ \E n \in Nat : DOMAIN v[x] = 1..n
      BY <2>1, SequenceIs
    <2>4. QED
      BY <2>2, <2>3 DEF IsLayer
  <1>2. QED
    BY <1>1, FiniteThere DEF P!IsVoices, Shaped

LEMMA InIds ==
  ASSUME NEW v, NEW i
  PROVE  i \in P!Ids(v) <=> \E x \in DOMAIN v : \E e \in DOMAIN v[x] :
            \E k \in DOMAIN v[x][e].notes : i = <<x[1], x[2], x[3], e, k>>
  BY DEF P!Ids

\* An id leads to a note.
LEMMA IdIs ==
  ASSUME NEW v, Shaped(v), NEW i \in P!Ids(v)
  PROVE  /\ P!Voice(i) \in DOMAIN v
         /\ i[4] \in DOMAIN v[P!Voice(i)] /\ i[4] \in Nat \ {0}
         /\ i[5] \in DOMAIN v[P!Voice(i)][i[4]].notes /\ i[5] \in Nat \ {0}
         /\ i = <<i[1], i[2], i[3], i[4], i[5]>>
         /\ i \in Nat \X Nat \X Nat \X Nat \X Nat
         /\ IsNote(P!At(v, i))
  <1>a. PICK x \in DOMAIN v : \E e \in DOMAIN v[x] : \E k \in DOMAIN v[x][e].notes :
            i = <<x[1], x[2], x[3], e, k>>
    BY DEF P!Ids
  <1>b. PICK e \in DOMAIN v[x] : \E k \in DOMAIN v[x][e].notes :
            i = <<x[1], x[2], x[3], e, k>>
    BY <1>a
  <1>1. PICK k \in DOMAIN v[x][e].notes : i = <<x[1], x[2], x[3], e, k>>
    BY <1>b
  <1>2. x \in Nat \X Nat \X Nat /\ IsLayer(v[x])
    BY DEF Shaped
  <1>3. x = <<x[1], x[2], x[3]>> /\ x[1] \in Nat /\ x[2] \in Nat /\ x[3] \in Nat
    BY <1>2
  <1>4. P!Voice(i) = x /\ i[4] = e /\ i[5] = k
    BY <1>1, <1>3 DEF P!Voice
  <1>5. e \in Nat \ {0} /\ IsEvent(v[x][e])
    BY <1>2 DEF IsLayer
  <1>6. k \in Nat \ {0} /\ IsNote(v[x][e].notes[k])
    BY <1>5 DEF IsEvent
  <1>7. IsNote(P!At(v, i))
    BY <1>4, <1>6 DEF P!At
  <1>8. QED
    BY <1>1, <1>3, <1>4, <1>5, <1>6, <1>7

LEMMA IdOf ==
  ASSUME NEW v, Shaped(v), NEW x \in DOMAIN v, NEW e \in DOMAIN v[x], NEW k \in DOMAIN v[x][e].notes
  PROVE  <<x[1], x[2], x[3], e, k>> \in P!Ids(v)
  BY DEF P!Ids

\* A note put in the place of another.
LEMMA PutNote ==
  ASSUME NEW v, Shaped(v), NEW i \in P!Ids(v), NEW x, IsNote(x)
  PROVE  LET w == P!Put(v, i, x) IN
         /\ Shaped(w) /\ SameGrid(v, w)
         /\ P!At(w, i) = x /\ \A j \in P!Ids(v) : j # i => P!At(w, j) = P!At(v, j)
  <1> DEFINE y == P!Voice(i)
             e == i[4]
             k == i[5]
             w == P!Put(v, i, x)
             N == [h \in DOMAIN v[y][e].notes |-> IF h = k THEN x ELSE v[y][e].notes[h]]
             E == [dur |-> v[y][e].dur, notes |-> N]
             L == [h \in DOMAIN v[y] |-> IF h = e THEN E ELSE v[y][h]]
  <1>1. y \in DOMAIN v /\ e \in DOMAIN v[y] /\ k \in DOMAIN v[y][e].notes
    BY IdIs
  <1>2. IsLayer(v[y]) /\ IsEvent(v[y][e])
    BY <1>1 DEF Shaped, IsLayer
  <1>3. w = [z \in DOMAIN v |-> IF z = y THEN L ELSE v[z]]
    <2>1. [v[y][e] EXCEPT !.notes[k] = x] = E
      BY <1>2 DEF IsEvent
    <2>2. [v[y] EXCEPT ![e].notes[k] = x] = L
      BY <2>1
    <2>3. QED
      BY <2>2 DEF P!Put
  <1> HIDE DEF w, y, e, k
  <1>4. IsEvent(E)
    <2>1. DOMAIN N = DOMAIN v[y][e].notes
      OBVIOUS
    <2>2. \A h \in DOMAIN N : IsNote(N[h])
      BY <1>2 DEF IsEvent
    <2> HIDE DEF N
    <2>3. N = [h \in DOMAIN N |-> N[h]]
      BY DEF N
    <2>4. QED
      BY <1>2, <2>1, <2>2, <2>3 DEF IsEvent
  <1>5. IsLayer(L)
    BY <1>2, <1>4 DEF IsLayer
  <1>6. Shaped(w)
    BY <1>3, <1>5 DEF Shaped
  <1>7. DOMAIN w = DOMAIN v /\ w[y] = L /\ \A z \in DOMAIN v : z # y => w[z] = v[z]
    BY <1>1, <1>3
  <1>8. \A z \in DOMAIN v : P!Durations(w[z]) = P!Durations(v[z])
    BY <1>1, <1>7 DEF P!Durations
  <1>9. ASSUME NEW z \in DOMAIN v
        PROVE  /\ DOMAIN w[z] = DOMAIN v[z]
               /\ \A h \in DOMAIN v[z] : DOMAIN w[z][h].notes = DOMAIN v[z][h].notes
    BY <1>7
  <1>10. P!Ids(w) = P!Ids(v)
    <2>1. \A j : j \in P!Ids(w) <=> j \in P!Ids(v)
      BY <1>7, <1>9, InIds
    <2>2. QED
      BY <2>1
  <1>11. P!At(w, i) = x
    BY <1>1, <1>7 DEF P!At, y, e, k
  <1>12. ASSUME NEW j \in P!Ids(v), j # i PROVE P!At(w, j) = P!At(v, j)
    <2>1. /\ P!Voice(j) \in DOMAIN v /\ j[4] \in DOMAIN v[P!Voice(j)]
          /\ j[5] \in DOMAIN v[P!Voice(j)][j[4]].notes
          /\ j = <<j[1], j[2], j[3], j[4], j[5]>> /\ i = <<i[1], i[2], i[3], i[4], i[5]>>
      BY IdIs
    <2>2. CASE P!Voice(j) # y
      BY <1>7, <2>1, <2>2 DEF P!At
    <2>3. CASE P!Voice(j) = y
      <3>1. j[4] # e \/ j[5] # k
        <4>1. j[1] = i[1] /\ j[2] = i[2] /\ j[3] = i[3]
          BY <2>3 DEF P!Voice, y
        <4>2. QED
          BY <1>12, <2>1, <4>1 DEF e, k
      <3>2. P!At(w, j) = L[j[4]].notes[j[5]] /\ P!At(v, j) = v[y][j[4]].notes[j[5]]
        BY <1>7, <2>3 DEF P!At
      <3>3. QED
        BY <2>1, <2>3, <3>1, <3>2
    <2>4. QED
      BY <2>2, <2>3
  <1>13. QED
    BY <1>6, <1>7, <1>8, <1>10, <1>11, <1>12 DEF SameGrid, w

LEMMA SamePageSelf == ASSUME NEW v, Shaped(v) PROVE SamePage(v, v)
  BY DEF SamePage, SameGrid

LEMMA SamePageOn ==
  ASSUME NEW u, NEW v, NEW w, SamePage(u, v), SamePage(v, w)
  PROVE  SamePage(u, w)
  BY DEF SamePage, SameGrid

LEMMA SamePageBack == ASSUME NEW v, NEW w, Shaped(v), SamePage(v, w) PROVE SamePage(w, v)
  BY DEF SamePage, SameGrid

\* Another gestural accidental in one place.
Retuned(v, i, a) == P!Put(v, i, [P!At(v, i) EXCEPT !.ges = a])

LEMMA Retuning ==
  ASSUME NEW v, Shaped(v), NEW i \in P!Ids(v), NEW a
  PROVE  /\ SamePage(v, Retuned(v, i, a)) /\ P!At(Retuned(v, i, a), i).ges = a
         /\ \A j \in P!Ids(v) : j # i => P!At(Retuned(v, i, a), j) = P!At(v, j)
  <1> DEFINE old == P!At(v, i)
             x == [old EXCEPT !.ges = a]
             w == P!Put(v, i, x)
  <1>1. IsNote(old)
    BY IdIs
  <1>2. IsNote(x) /\ x.pitch = old.pitch /\ x.letter = old.letter /\ x.accid = old.accid /\ x.ges = a
    BY <1>1 DEF IsNote
  <1>a. Retuned(v, i, a) = w
    BY DEF Retuned
  <1> HIDE DEF x
  <1>3. /\ Shaped(w) /\ SameGrid(v, w)
        /\ P!At(w, i) = x /\ \A j \in P!Ids(v) : j # i => P!At(w, j) = P!At(v, j)
    BY <1>2, PutNote
  <1>4. SamePage(v, w)
    BY <1>2, <1>3 DEF SamePage
  <1> HIDE DEF w
  <1>5. QED
    BY <1>2, <1>3, <1>4, <1>a

-----------------------------------------------------------------------------
(* Onsets, and the order of the notes of a staff.                           *)

Ticks(t, durs, m) ==
    /\ t = [k \in 1..m |-> t[k]] /\ t[1] = 0
    /\ \A k \in 2..m : t[k] = t[k - 1] + durs[k - 1]

LEMMA TicksExist ==
  ASSUME NEW durs, NEW n \in Nat, n >= 1
  PROVE  \E t : Ticks(t, durs, n)
  <1> DEFINE T == {m \in 1..n : \E t : Ticks(t, durs, m)}
  <1>1. 1 \in T
    <2>1. Ticks([k \in 1..1 |-> 0], durs, 1)
      BY DEF Ticks
    <2>2. QED
      BY <2>1
  <1>2. ASSUME NEW m \in 1..n, m \in T, m < n PROVE m + 1 \in T
    <2>0. m \in Nat /\ m >= 1 /\ 1 \in Nat /\ 1 <= m + 1 /\ m + 1 \in 1..n
      BY <1>2
    <2>1. PICK t : Ticks(t, durs, m)
      BY <1>2
    <2>b. PICK u : Longer(u, t, 1, m, t[m] + durs[m])
      BY <2>0, OneMoreResult
    <2>2. u = [k \in 1..(m + 1) |-> u[k]] /\ u[m + 1] = t[m] + durs[m] /\ \A k \in 1..m : u[k] = t[k]
      BY <2>b DEF Longer
    <2>a. u[m] = t[m] /\ u[1] = t[1]
      BY <2>0, <2>2
    <2>3. ASSUME NEW k \in 2..(m + 1) PROVE u[k] = u[k - 1] + durs[k - 1]
      <3>1. CASE k = m + 1
        <4>1. k - 1 = m
          BY <2>0, <3>1
        <4>2. QED
          BY <2>2, <2>a, <3>1, <4>1
      <3>2. CASE k # m + 1
        <4>1. k \in 2..m /\ k \in 1..m /\ k - 1 \in 1..m
          BY <2>0, <3>2
        <4>2. t[k] = t[k - 1] + durs[k - 1]
          BY <2>1, <4>1 DEF Ticks
        <4>3. QED
          BY <2>2, <4>1, <4>2
      <3>3. QED
        BY <3>1, <3>2
    <2>4. u[1] = 0
      BY <2>1, <2>a DEF Ticks
    <2>5. Ticks(u, durs, m + 1)
      BY <2>2, <2>3, <2>4 DEF Ticks
    <2>6. QED
      BY <2>0, <2>5
  <1> HIDE DEF T
  <1>3. 1..n \subseteq T
    BY <1>1, <1>2, Climb
  <1>4. QED
    BY <1>3 DEF T

LEMMA ClockIs ==
  ASSUME NEW durs, NEW n \in Nat, n >= 1, \A k \in 1..(n - 1) : durs[k] \in Nat
  PROVE  P!Clock(durs, n) \in Nat
  <1> DEFINE t == CHOOSE t : t = [k \in 1..n |-> IF k = 1 THEN 0 ELSE t[k - 1] + durs[k - 1]]
  <1>1. \E u : u = [k \in 1..n |-> IF k = 1 THEN 0 ELSE u[k - 1] + durs[k - 1]]
    <2>1. PICK u : Ticks(u, durs, n)
      BY TicksExist
    <2>2. ASSUME NEW k \in 1..n PROVE u[k] = IF k = 1 THEN 0 ELSE u[k - 1] + durs[k - 1]
      <3>1. k = 1 \/ k \in 2..n
        OBVIOUS
      <3>2. QED
        BY <2>1, <3>1 DEF Ticks
    <2>3. u = [k \in 1..n |-> u[k]]
      BY <2>1 DEF Ticks
    <2>4. [k \in 1..n |-> u[k]] = [k \in 1..n |-> IF k = 1 THEN 0 ELSE u[k - 1] + durs[k - 1]]
      BY <2>2
    <2>5. u = [k \in 1..n |-> IF k = 1 THEN 0 ELSE u[k - 1] + durs[k - 1]]
      BY <2>3, <2>4
    <2>6. QED
      BY <2>5
  <1>2. t = [k \in 1..n |-> IF k = 1 THEN 0 ELSE t[k - 1] + durs[k - 1]]
    BY <1>1
  <1>3. P!Clock(durs, n) = t[n]
    BY DEF P!Clock
  <1> HIDE DEF t
  <1> DEFINE T == {m \in 1..n : t[m] \in Nat}
  <1>4. 1 \in T
    BY <1>2
  <1>5. ASSUME NEW m \in 1..n, m \in T, m < n PROVE m + 1 \in T
    BY <1>2, <1>5
  <1> HIDE DEF T
  <1>6. 1..n \subseteq T
    BY <1>4, <1>5, Climb
  <1>7. QED
    BY <1>3, <1>6 DEF T

LEMMA OnsetNat ==
  ASSUME NEW v, Shaped(v), NEW i \in P!Ids(v)
  PROVE  P!Onset(v, i) \in Nat
  <1> DEFINE layer == v[P!Voice(i)]
             durs == P!Durations(layer)
  <1>1. /\ P!Voice(i) \in DOMAIN v /\ i[4] \in DOMAIN layer /\ i[4] \in Nat /\ i[4] >= 1
    BY IdIs
  <1>2. IsLayer(layer)
    BY <1>1 DEF Shaped
  <1>3. ASSUME NEW k \in 1..(i[4] - 1) PROVE durs[k] \in Nat
    <2>1. PICK n \in Nat : DOMAIN layer = 1..n
      BY <1>2 DEF IsLayer
    <2>2. k \in DOMAIN layer
      BY <1>1, <2>1
    <2>3. layer[k].dur \in Nat
      BY <1>2, <2>2 DEF IsLayer, IsEvent
    <2>4. QED
      BY <2>2, <2>3 DEF P!Durations
  <1> HIDE DEF durs
  <1>4. P!Clock(durs, i[4]) \in Nat
    BY <1>1, <1>3, ClockIs
  <1>5. QED
    BY <1>4 DEF P!Onset, durs

LEMMA OnsetSame ==
  ASSUME NEW v, Shaped(v), NEW w, SameGrid(v, w), NEW i \in P!Ids(v)
  PROVE  P!Onset(w, i) = P!Onset(v, i)
  BY IdIs DEF P!Onset, SameGrid

LEMMA EarlierIs ==
  ASSUME NEW i \in Nat \X Nat \X Nat \X Nat \X Nat, NEW j \in Nat \X Nat \X Nat \X Nat \X Nat
  PROVE  P!Earlier(i, j) <=>
            \/ i[1] < j[1]
            \/ i[1] = j[1] /\ i[2] < j[2]
            \/ i[1] = j[1] /\ i[2] = j[2] /\ i[3] < j[3]
            \/ i[1] = j[1] /\ i[2] = j[2] /\ i[3] = j[3] /\ i[4] < j[4]
            \/ i[1] = j[1] /\ i[2] = j[2] /\ i[3] = j[3] /\ i[4] = j[4] /\ i[5] < j[5]
  <1>1. P!Earlier(i, j) <=> \E k \in 1..5 : i[k] < j[k] /\ \A h \in 1..k - 1 : i[h] = j[h]
    BY DEF P!Earlier
  <1> DEFINE Q(k) == i[k] < j[k] /\ \A h \in 1..k - 1 : i[h] = j[h]
  <1>2. Q(1) <=> i[1] < j[1]
    OBVIOUS
  <1>3. Q(2) <=> i[1] = j[1] /\ i[2] < j[2]
    <2>1. 1..2 - 1 = {1}
      OBVIOUS
    <2>2. QED
      BY <2>1
  <1>4. Q(3) <=> i[1] = j[1] /\ i[2] = j[2] /\ i[3] < j[3]
    <2>1. 1..3 - 1 = {1, 2}
      OBVIOUS
    <2>2. QED
      BY <2>1
  <1>5. Q(4) <=> i[1] = j[1] /\ i[2] = j[2] /\ i[3] = j[3] /\ i[4] < j[4]
    <2>1. 1..4 - 1 = {1, 2, 3}
      OBVIOUS
    <2>2. QED
      BY <2>1
  <1>6. Q(5) <=> i[1] = j[1] /\ i[2] = j[2] /\ i[3] = j[3] /\ i[4] = j[4] /\ i[5] < j[5]
    <2>1. 1..5 - 1 = {1, 2, 3, 4}
      OBVIOUS
    <2>2. QED
      BY <2>1
  <1>7. P!Earlier(i, j) <=> Q(1) \/ Q(2) \/ Q(3) \/ Q(4) \/ Q(5)
    <2>1. 1..5 = {1, 2, 3, 4, 5}
      OBVIOUS
    <2>2. QED
      BY <1>1, <2>1
  <1> HIDE DEF Q
  <1>8. QED
    BY <1>2, <1>3, <1>4, <1>5, <1>6, <1>7

LEMMA EarlierOrders ==
  ASSUME NEW i \in Nat \X Nat \X Nat \X Nat \X Nat, NEW j \in Nat \X Nat \X Nat \X Nat \X Nat,
         NEW k \in Nat \X Nat \X Nat \X Nat \X Nat
  PROVE  /\ ~P!Earlier(i, i)
         /\ P!Earlier(i, j) /\ P!Earlier(j, k) => P!Earlier(i, k)
         /\ i # j => P!Earlier(i, j) \/ P!Earlier(j, i)
  <1>1. ~P!Earlier(i, i)
    BY EarlierIs
  <1>2. P!Earlier(i, j) /\ P!Earlier(j, k) => P!Earlier(i, k)
    BY EarlierIs
  <1>3. i = <<i[1], i[2], i[3], i[4], i[5]>> /\ j = <<j[1], j[2], j[3], j[4], j[5]>>
    OBVIOUS
  <1>4. i # j => P!Earlier(i, j) \/ P!Earlier(j, i)
    BY <1>3, EarlierIs
  <1>5. QED
    BY <1>1, <1>2, <1>4

LEMMA GovernsOrders ==
  ASSUME NEW v, Shaped(v), NEW i \in P!Ids(v), NEW j \in P!Ids(v), NEW k \in P!Ids(v)
  PROVE  /\ ~P!Governs(v, i, i)
         /\ P!Governs(v, i, j) /\ P!Governs(v, j, k) => P!Governs(v, i, k)
         /\ i # j => P!Governs(v, i, j) \/ P!Governs(v, j, i)
  <1> DEFINE a == P!Onset(v, i)
             b == P!Onset(v, j)
             c == P!Onset(v, k)
             p == P!At(v, i).accid # P!None
             q == P!At(v, j).accid # P!None
             r == P!At(v, k).accid # P!None
  <1>1. a \in Nat /\ b \in Nat /\ c \in Nat
    BY OnsetNat
  <1>2. /\ i \in Nat \X Nat \X Nat \X Nat \X Nat
        /\ j \in Nat \X Nat \X Nat \X Nat \X Nat
        /\ k \in Nat \X Nat \X Nat \X Nat \X Nat
    BY IdIs
  <1>3. /\ ~P!Earlier(i, i)
        /\ P!Earlier(i, j) /\ P!Earlier(j, k) => P!Earlier(i, k)
        /\ i # j => P!Earlier(i, j) \/ P!Earlier(j, i)
    BY <1>2, EarlierOrders
  <1>4. /\ P!Governs(v, i, i) <=> a < a \/ (a = a /\ ((p /\ ~p) \/ (p = p /\ P!Earlier(i, i))))
        /\ P!Governs(v, i, j) <=> a < b \/ (a = b /\ ((p /\ ~q) \/ (p = q /\ P!Earlier(i, j))))
        /\ P!Governs(v, j, i) <=> b < a \/ (b = a /\ ((q /\ ~p) \/ (q = p /\ P!Earlier(j, i))))
        /\ P!Governs(v, j, k) <=> b < c \/ (b = c /\ ((q /\ ~r) \/ (q = r /\ P!Earlier(j, k))))
        /\ P!Governs(v, i, k) <=> a < c \/ (a = c /\ ((p /\ ~r) \/ (p = r /\ P!Earlier(i, k))))
    BY DEF P!Governs
  <1> HIDE DEF a, b, c, p, q, r
  <1>p. p \in BOOLEAN /\ q \in BOOLEAN /\ r \in BOOLEAN
    BY DEF p, q, r
  <1>5. CASE a < b \/ b < a \/ b < c \/ c < b
    <2>1. ~P!Governs(v, i, i)
      BY <1>1, <1>3, <1>4, <1>p
    <2>2. i # j => P!Governs(v, i, j) \/ P!Governs(v, j, i)
      BY <1>1, <1>3, <1>4, <1>p
    <2>3. P!Governs(v, i, j) /\ P!Governs(v, j, k) => P!Governs(v, i, k)
      <3>1. P!Governs(v, i, j) /\ P!Governs(v, j, k) => a < c
        <4>1. P!Governs(v, i, j) => a <= b
          BY <1>1, <1>4
        <4>2. P!Governs(v, j, k) => b <= c
          BY <1>1, <1>4
        <4>3. QED
          BY <1>1, <1>5, <4>1, <4>2
      <3>2. a < c => P!Governs(v, i, k)
        BY <1>4
      <3>3. QED
        BY <3>1, <3>2
    <2>4. QED
      BY <2>1, <2>2, <2>3
  <1>6. CASE a = b /\ b = c
    <2>1. ~(a < a) /\ ~(a < b) /\ ~(b < a) /\ ~(b < c) /\ ~(a < c) /\ a = c
      BY <1>1, <1>6
    <2>2. QED
      BY <1>3, <1>4, <1>6, <1>p, <2>1
  <1>7. QED
    BY <1>1, <1>5, <1>6

LEMMA GovernsSame ==
  ASSUME NEW v, Shaped(v), NEW w, SamePage(v, w), NEW i \in P!Ids(v), NEW j \in P!Ids(v)
  PROVE  P!Governs(w, i, j) <=> P!Governs(v, i, j)
  BY OnsetSame DEF P!Governs, SamePage

\* A set that is listed by a function of a finite set.
LEMMA FiniteImage ==
  ASSUME NEW f, NEW S, f \in [S -> {f[x] : x \in S}], IsFiniteSet(S)
  PROVE  IsFiniteSet({f[x] : x \in S})
  <1>1. f \in Surjection(S, {f[x] : x \in S})
    BY DEF Surjection
  <1>2. QED
    BY <1>1, FS_Surjection

LEMMA IdsFinite ==
  ASSUME NEW v, Shaped(v)
  PROVE  IsFiniteSet(P!Ids(v))
  <1> DEFINE Chord(x, e) == {<<x[1], x[2], x[3], e, k>> : k \in DOMAIN v[x][e].notes}
             Layer(x) == UNION {Chord(x, e) : e \in DOMAIN v[x]}
  <1>1. ASSUME NEW x \in DOMAIN v, NEW e \in DOMAIN v[x] PROVE IsFiniteSet(Chord(x, e))
    <2> DEFINE f == [k \in DOMAIN v[x][e].notes |-> <<x[1], x[2], x[3], e, k>>]
    <2>1. PICK n \in Nat : DOMAIN v[x][e].notes = 1..n
      BY DEF Shaped, IsLayer, IsEvent
    <2>2. IsFiniteSet(DOMAIN v[x][e].notes)
      BY <2>1, FS_Interval
    <2>3. Chord(x, e) = {f[k] : k \in DOMAIN v[x][e].notes}
      OBVIOUS
    <2>4. f \in [DOMAIN v[x][e].notes -> {f[k] : k \in DOMAIN v[x][e].notes}]
      OBVIOUS
    <2> HIDE DEF f
    <2>5. QED
      BY <2>2, <2>3, <2>4, FiniteImage
  <1> HIDE DEF Chord
  <1>2. ASSUME NEW x \in DOMAIN v PROVE IsFiniteSet(Layer(x))
    <2> DEFINE f == [e \in DOMAIN v[x] |-> Chord(x, e)]
    <2>1. PICK n \in Nat : DOMAIN v[x] = 1..n
      BY DEF Shaped, IsLayer
    <2>2. IsFiniteSet(DOMAIN v[x])
      BY <2>1, FS_Interval
    <2>3. {Chord(x, e) : e \in DOMAIN v[x]} = {f[e] : e \in DOMAIN v[x]}
      OBVIOUS
    <2>4. f \in [DOMAIN v[x] -> {f[e] : e \in DOMAIN v[x]}]
      OBVIOUS
    <2>5. \A e \in DOMAIN v[x] : IsFiniteSet(f[e])
      BY <1>1
    <2> HIDE DEF f
    <2>6. IsFiniteSet({f[e] : e \in DOMAIN v[x]})
      BY <2>2, <2>4, FiniteImage
    <2>7. QED
      BY <2>3, <2>5, <2>6, FS_UNION
  <1> DEFINE g == [x \in DOMAIN v |-> Layer(x)]
  <1>3. P!Ids(v) = UNION {g[x] : x \in DOMAIN v}
    BY DEF P!Ids, Chord
  <1>4. g \in [DOMAIN v -> {g[x] : x \in DOMAIN v}]
    OBVIOUS
  <1>5. \A x \in DOMAIN v : IsFiniteSet(g[x])
    BY <1>2
  <1> HIDE DEF g
  <1>6. IsFiniteSet({g[x] : x \in DOMAIN v})
    BY <1>4, FiniteImage DEF Shaped
  <1>7. QED
    BY <1>3, <1>5, <1>6, FS_UNION

\* A list of the notes of a staff in one bar, each once, those that govern first.
Listed(v, order, bar, staff) ==
    LET S == P!OnStaff(v, bar, staff)
        n == Len(order) IN
    /\ n \in Nat
    /\ \A k \in 1..n : order[k] \in S
    /\ \A i \in S : \E k \in 1..n : order[k] = i
    /\ \A k, h \in 1..n : P!Governs(v, order[k], order[h]) <=> k < h

\* The note with rank k - 1 stands in place k of the order of its staff.
LEMMA StaffOrderIs ==
  ASSUME NEW v, Shaped(v), NEW bar, NEW staff
  PROVE  Listed(v, P!StaffOrder(v, bar, staff), bar, staff)
  <1> DEFINE S == P!OnStaff(v, bar, staff)
             order == P!StaffOrder(v, bar, staff)
             n == Cardinality(S)
             Above(i) == {j \in S : P!Governs(v, j, i)}
             rank(i) == P!Rank(v, S, i)
  <1>1. S \subseteq P!Ids(v) /\ IsFiniteSet(S) /\ n \in Nat
    BY IdsFinite, FS_Subset, FS_CardinalityType DEF P!OnStaff
  <1>2. \A i \in S : rank(i) = Cardinality(Above(i))
    BY CardinalityThere DEF P!Rank
  <1>3. ASSUME NEW i \in S PROVE IsFiniteSet(Above(i)) /\ rank(i) \in 0..(n - 1)
    <2>1. Above(i) \in SUBSET S /\ i \in S /\ i \notin Above(i)
      BY <1>1, GovernsOrders
    <2>2. IsFiniteSet(Above(i)) /\ Cardinality(Above(i)) <= n /\ Cardinality(Above(i)) # n
      BY <1>1, <2>1, FS_Subset
    <2>3. Cardinality(Above(i)) \in Nat
      BY <2>2, FS_CardinalityType
    <2>4. QED
      BY <1>1, <1>2, <2>2, <2>3
  <1>4. ASSUME NEW i \in S, NEW j \in S, P!Governs(v, i, j) PROVE rank(i) < rank(j)
    <2>1. Above(i) \in SUBSET Above(j)
      BY <1>1, <1>4, GovernsOrders
    <2>2. i \in Above(j) /\ i \notin Above(i)
      BY <1>1, <1>4, GovernsOrders
    <2>3. Cardinality(Above(i)) <= Cardinality(Above(j)) /\ Cardinality(Above(i)) # Cardinality(Above(j))
      BY <1>3, <2>1, <2>2, FS_Subset
    <2>5. rank(i) = Cardinality(Above(i)) /\ rank(j) = Cardinality(Above(j))
      BY <1>2
    <2> HIDE DEF rank, Above, S, n
    <2>4. rank(i) \in Nat /\ rank(j) \in Nat
      BY <1>1, <1>3
    <2>6. QED
      BY <2>3, <2>4, <2>5
  <1> HIDE DEF rank, Above, S
  <1>5. \A i, j \in S : i # j => rank(i) # rank(j)
    <2>1. \A i, j \in S : i # j => P!Governs(v, i, j) \/ P!Governs(v, j, i)
      BY <1>1, GovernsOrders
    <2>2. QED
      BY <1>3, <1>4, <2>1
  <1>6. \A k \in 1..n : \E i \in S : rank(i) = k - 1
    <2> DEFINE r == [i \in S |-> rank(i) + 1]
    <2>1. r \in Injection(S, 1..n)
      <3>1. r \in [S -> 1..n]
        BY <1>1, <1>3
      <3>2. \A i, j \in S : r[i] = r[j] => i = j
        BY <1>3, <1>5
      <3>3. QED
        BY <3>1, <3>2 DEF Injection, IsInjective
    <2>2. IsFiniteSet(1..n) /\ Cardinality(1..n) = n
      BY <1>1, FS_Interval
    <2> HIDE DEF r
    <2>3. r \in Surjection(S, 1..n)
      BY <2>1, <2>2, FS_Injection
    <2>4. \A k \in 1..n : \E i \in S : r[i] = k
      BY <2>3 DEF Surjection
    <2>5. QED
      BY <1>3, <2>4 DEF r
  <1>7. order = [k \in 1..n |-> CHOOSE i \in S : rank(i) = k - 1]
    BY CardinalityThere DEF P!StaffOrder, S, rank
  <1> HIDE DEF order
  <1>8. \A k \in 1..n : order[k] \in S /\ rank(order[k]) = k - 1
    BY <1>6, <1>7
  <1>9. Len(order) = n
    BY <1>1, <1>7
  <1>10. \A i \in S : \E k \in 1..n : order[k] = i
    <2>1. ASSUME NEW i \in S PROVE \E k \in 1..n : order[k] = i
      <3>1. rank(i) + 1 \in 1..n /\ (rank(i) + 1) - 1 = rank(i)
        BY <1>1, <1>3
      <3>2. order[rank(i) + 1] = i
        BY <1>5, <1>8, <3>1
      <3>3. QED
        BY <3>1, <3>2
    <2>2. QED
      BY <2>1
  <1>11. ASSUME NEW k \in 1..n, NEW h \in 1..n PROVE P!Governs(v, order[k], order[h]) <=> k < h
    <2>1. order[k] \in S /\ order[h] \in S /\ rank(order[k]) = k - 1 /\ rank(order[h]) = h - 1
      BY <1>8
    <2>2. P!Governs(v, order[k], order[h]) => k < h
      BY <1>1, <1>4, <2>1
    <2>3. P!Governs(v, order[h], order[k]) => h < k
      BY <1>1, <1>4, <2>1
    <2>4. k < h => order[k] # order[h]
      BY <1>1, <2>1
    <2>5. order[k] # order[h] => P!Governs(v, order[k], order[h]) \/ P!Governs(v, order[h], order[k])
      BY <1>1, <2>1, GovernsOrders
    <2>6. QED
      BY <1>1, <2>2, <2>3, <2>4, <2>5
  <1>12. QED
    BY <1>1, <1>8, <1>9, <1>10, <1>11 DEF S, order, Listed

LEMMA ListedOnce ==
  ASSUME NEW v, Shaped(v), NEW bar, NEW staff, NEW order, Listed(v, order, bar, staff),
         NEW k \in 1..Len(order), NEW h \in 1..Len(order)
  PROVE  /\ order[k] \in P!Ids(v) /\ order[k][1] = bar /\ order[k][2] = staff
         /\ k # h => order[k] # order[h]
  <1>1. /\ Len(order) \in Nat /\ order[k] \in P!OnStaff(v, bar, staff) /\ order[h] \in P!OnStaff(v, bar, staff)
        /\ P!Governs(v, order[k], order[h]) <=> k < h
        /\ P!Governs(v, order[h], order[k]) <=> h < k
    BY DEF Listed
  <1>2. order[k] \in P!Ids(v) /\ order[k][1] = bar /\ order[k][2] = staff
    BY <1>1 DEF P!OnStaff
  <1>3. ~P!Governs(v, order[k], order[k])
    BY <1>2, GovernsOrders
  <1>4. k # h => k < h \/ h < k
    BY <1>1
  <1>5. QED
    BY <1>1, <1>2, <1>3, <1>4

-----------------------------------------------------------------------------
(* What the page means.                                                     *)

\* Note j prints an accidental on the line of i, in its bar and before it.
Signs(v, j, i) ==
    /\ j \in P!Ids(v) /\ j[1] = i[1] /\ j[2] = i[2]
    /\ P!At(v, j).pitch = P!At(v, i).pitch /\ P!At(v, j).accid # P!None
    /\ P!Governs(v, j, i)
LatestSign(v, j, i) == Signs(v, j, i) /\ \A k : Signs(v, k, i) => k = j \/ P!Governs(v, k, j)

Sounding(a) == IF a = P!None THEN "n" ELSE a

LEMMA MeantIs ==
  ASSUME NEW v, Shaped(v), NEW i \in P!Ids(v), NEW keys
  PROVE  /\ P!At(v, i).accid # P!None => P!Meant(v, keys, i) = P!At(v, i).accid
         /\ P!At(v, i).accid = P!None =>
              /\ \A j : LatestSign(v, j, i) => P!Meant(v, keys, i) = P!At(v, j).accid
              /\ (\A j : ~Signs(v, j, i)) => P!Meant(v, keys, i) =
                    Sounding(P!KeyAlteration(P!KeyAt(keys, i[1], i[2]), P!At(v, i).letter))
  <1> DEFINE S == {j \in P!Ids(v) :
                /\ j[1] = i[1] /\ j[2] = i[2]
                /\ P!At(v, j).pitch = P!At(v, i).pitch /\ P!At(v, j).accid # P!None
                /\ P!Onset(v, j) <= P!Onset(v, i)}
             latest == {j \in S : \A k \in S : k = j \/ ~P!Governs(v, j, k)}
             a == IF P!At(v, i).accid # P!None THEN P!At(v, i).accid
                  ELSE IF S # {} THEN P!At(v, CHOOSE j \in latest : TRUE).accid
                  ELSE P!KeyAlteration(P!KeyAt(keys, i[1], i[2]), P!At(v, i).letter)
  <1>1. P!Meant(v, keys, i) = Sounding(a)
    BY DEF P!Meant, Sounding
  <1>2. P!At(v, i).accid # P!None => P!Meant(v, keys, i) = P!At(v, i).accid
    BY <1>1 DEF Sounding
  <1>3. ASSUME P!At(v, i).accid = P!None PROVE \A j : j \in S <=> Signs(v, j, i)
    <2>1. ASSUME NEW j \in P!Ids(v), P!At(v, j).accid # P!None
          PROVE  P!Onset(v, j) <= P!Onset(v, i) <=> P!Governs(v, j, i)
      <3>1. P!Onset(v, i) \in Nat /\ P!Onset(v, j) \in Nat
        BY OnsetNat
      <3>2. P!Governs(v, j, i) <=> P!Onset(v, j) < P!Onset(v, i) \/ P!Onset(v, j) = P!Onset(v, i)
        BY <1>3, <2>1 DEF P!Governs
      <3>3. QED
        BY <3>1, <3>2
    <2>2. QED
      BY <2>1 DEF Signs
  <1> HIDE DEF S
  <1>4. ASSUME P!At(v, i).accid = P!None, NEW j, LatestSign(v, j, i)
        PROVE  P!Meant(v, keys, i) = P!At(v, j).accid
    <2>1. j \in S /\ \A k \in S : k = j \/ P!Governs(v, k, j)
      BY <1>3, <1>4 DEF LatestSign
    <2>2. S \subseteq P!Ids(v)
      BY DEF S
    <2>3. \A k \in S : k # j => P!Governs(v, k, j) /\ ~P!Governs(v, j, k)
      BY <2>1, <2>2, GovernsOrders
    <2>4. latest = {j}
      BY <2>1, <2>3
    <2>5. (CHOOSE k \in latest : TRUE) = j
      BY <2>4
    <2>6. P!At(v, j).accid # P!None
      BY <1>4 DEF LatestSign, Signs
    <2>7. a = P!At(v, j).accid
      BY <1>4, <2>1, <2>5
    <2>8. QED
      BY <1>1, <2>6, <2>7 DEF Sounding
  <1>5. ASSUME P!At(v, i).accid = P!None, \A j : ~Signs(v, j, i)
        PROVE  P!Meant(v, keys, i) =
                    Sounding(P!KeyAlteration(P!KeyAt(keys, i[1], i[2]), P!At(v, i).letter))
    <2>1. S = {}
      BY <1>3, <1>5
    <2>2. QED
      BY <1>1, <1>5, <2>1
  <1>6. QED
    BY <1>2, <1>4, <1>5

LEMMA LatestSignExists ==
  ASSUME NEW v, Shaped(v), NEW i \in P!Ids(v), NEW j, Signs(v, j, i)
  PROVE  \E k : LatestSign(v, k, i)
  <1> DEFINE order == P!StaffOrder(v, i[1], i[2])
             n == Len(order)
             T == {n - k : k \in {h \in 1..n : Signs(v, order[h], i)}}
  <1>1. Listed(v, order, i[1], i[2])
    BY StaffOrderIs
  <1> HIDE DEF order
  <1>2. \A k : Signs(v, k, i) => \E h \in 1..n : order[h] = k
    BY <1>1 DEF Listed, Signs, P!OnStaff
  <1>3. n \in Nat
    BY <1>1 DEF Listed
  <1>4. T \in SUBSET Nat /\ T # {}
    BY <1>2, <1>3
  <1>5. PICK t \in T : \A m \in T : t <= m
    BY <1>4, LeastNat
  <1>6. PICK g \in 1..n : Signs(v, order[g], i) /\ t = n - g
    BY <1>5
  <1>7. ASSUME NEW k, Signs(v, k, i) PROVE k = order[g] \/ P!Governs(v, k, order[g])
    <2>1. PICK h \in 1..n : order[h] = k
      BY <1>2, <1>7
    <2>2. n - h \in T
      BY <1>7, <2>1
    <2> HIDE DEF T
    <2>a. n - g <= n - h
      BY <1>5, <1>6, <2>2
    <2>3. h <= g
      BY <1>3, <2>a
    <2>4. h = g \/ P!Governs(v, order[h], order[g])
      BY <1>1, <1>3, <2>3 DEF Listed
    <2>5. QED
      BY <2>1, <2>4
  <1>8. QED
    BY <1>6, <1>7 DEF LatestSign

LEMMA SignsSame ==
  ASSUME NEW v, Shaped(v), NEW w, SamePage(v, w), NEW i \in P!Ids(v), NEW j
  PROVE  Signs(w, j, i) <=> Signs(v, j, i)
  BY GovernsSame DEF Signs, SamePage, SameGrid

\* The meaning is on the page.
LEMMA MeantSame ==
  ASSUME NEW v, Shaped(v), NEW w, SamePage(v, w), NEW i \in P!Ids(v), NEW keys
  PROVE  P!Meant(w, keys, i) = P!Meant(v, keys, i)
  <1>1. /\ Shaped(w) /\ P!Ids(w) = P!Ids(v)
        /\ \A j \in P!Ids(v) : P!At(w, j).accid = P!At(v, j).accid /\ P!At(w, j).letter = P!At(v, j).letter
    BY DEF SamePage, SameGrid
  <1>2. CASE P!At(v, i).accid # P!None
    BY <1>1, <1>2, MeantIs
  <1>3. CASE P!At(v, i).accid = P!None /\ \E j : Signs(v, j, i)
    <2>1. PICK j : LatestSign(v, j, i)
      BY <1>3, LatestSignExists
    <2>2. \A k : Signs(w, k, i) <=> Signs(v, k, i)
      BY SignsSame
    <2>3. \A k : Signs(v, k, i) => k \in P!Ids(v)
      BY DEF Signs
    <2>4. j \in P!Ids(v)
      BY <2>1 DEF LatestSign, Signs
    <2>5. LatestSign(w, j, i)
      BY <2>1, <2>2, <2>3, <2>4, GovernsSame DEF LatestSign
    <2>6. P!Meant(w, keys, i) = P!At(w, j).accid
      BY <1>1, <1>3, <2>5, MeantIs
    <2>7. P!Meant(v, keys, i) = P!At(v, j).accid
      BY <1>3, <2>1, MeantIs
    <2>8. QED
      BY <1>1, <2>4, <2>6, <2>7
  <1>4. CASE P!At(v, i).accid = P!None /\ \A j : ~Signs(v, j, i)
    <2>1. \A j : ~Signs(w, j, i)
      BY <1>4, SignsSame
    <2>2. QED
      BY <1>1, <1>4, <2>1, MeantIs
  <1>5. QED
    BY <1>2, <1>3, <1>4

-----------------------------------------------------------------------------
(* Pass 9 on one staff: the walk over its notes.                            *)
\* walk is the walk of pass 9 over the first n notes of order.
Walks(f, v, order, key, targets, n) ==
    /\ f = [k \in 0..n |-> f[k]] /\ f[0] = [running |-> <<>>, voices |-> v]
    /\ \A k \in 1..n : f[k] = P!ResolveNote(f[k - 1], order[k], key, targets)

LEMMA WalksExists ==
  ASSUME NEW v, NEW order, NEW key, NEW targets, NEW n \in Nat
  PROVE  \E f : Walks(f, v, order, key, targets, n)
  <1> DEFINE T == {m \in 0..n : \E f : Walks(f, v, order, key, targets, m)}
  <1>1. 0 \in T
    <2>1. Walks([k \in 0..0 |-> [running |-> <<>>, voices |-> v]], v, order, key, targets, 0)
      BY DEF Walks
    <2>2. QED
      BY <2>1
  <1>2. ASSUME NEW m \in 0..n, m \in T, m < n PROVE m + 1 \in T
    <2>1. m \in Nat /\ 0 <= m + 1 /\ m + 1 \in 0..n
      BY <1>2
    <2>2. PICK f : Walks(f, v, order, key, targets, m)
      BY <1>2
    <2> DEFINE x == P!ResolveNote(f[m], order[(m + 1)], key, targets)
    <2>3. PICK g : Longer(g, f, 0, m, x)
      BY <2>1, OneMoreResult
    <2>4. g = [k \in 0..(m + 1) |-> g[k]] /\ g[m + 1] = x /\ \A k \in 0..m : g[k] = f[k]
      BY <2>3 DEF Longer
    <2>a. g[m] = f[m] /\ g[0] = f[0]
      <3>1. m \in 0..m /\ 0 \in 0..m
        BY <2>1
      <3>2. QED
        BY <2>4, <3>1
    <2>5. g[0] = [running |-> <<>>, voices |-> v]
      BY <2>2, <2>a DEF Walks
    <2>6. ASSUME NEW k \in 1..(m + 1) PROVE g[k] = P!ResolveNote(g[k - 1], order[k], key, targets)
      <3>1. CASE k = m + 1
        <4>1. k - 1 = m
          BY <2>1, <3>1
        <4>2. QED
          BY <2>4, <2>a, <3>1, <4>1
      <3>2. CASE k # m + 1
        <4>1. k \in 1..m /\ k \in 0..m /\ k - 1 \in 0..m
          BY <2>1, <3>2
        <4>2. f[k] = P!ResolveNote(f[k - 1], order[k], key, targets)
          BY <2>2, <4>1 DEF Walks
        <4>3. QED
          BY <2>4, <4>1, <4>2
      <3>3. QED
        BY <3>1, <3>2
    <2> HIDE DEF x
    <2>7. Walks(g, v, order, key, targets, m + 1)
      BY <2>4, <2>5, <2>6 DEF Walks
    <2>8. QED
      BY <2>1, <2>7
  <1> HIDE DEF T
  <1>3. 0..n \subseteq T
    BY <1>1, <1>2, Climb
  <1>4. QED
    BY <1>3 DEF T

LEMMA WalksChosen ==
  ASSUME NEW v, NEW order, NEW key, NEW targets, NEW n \in Nat
  PROVE  LET f == CHOOSE f : f = [k \in 0..n |-> IF k = 0 THEN [running |-> <<>>, voices |-> v] ELSE P!ResolveNote(f[k - 1], order[k], key, targets)]
         IN  Walks(f, v, order, key, targets, n)
  <1> DEFINE f == CHOOSE f : f = [k \in 0..n |-> IF k = 0 THEN [running |-> <<>>, voices |-> v] ELSE P!ResolveNote(f[k - 1], order[k], key, targets)]
  <1>1. \E g : g = [k \in 0..n |-> IF k = 0 THEN [running |-> <<>>, voices |-> v] ELSE P!ResolveNote(g[k - 1], order[k], key, targets)]
    <2>1. PICK g : Walks(g, v, order, key, targets, n)
      BY WalksExists
    <2>2. ASSUME NEW k \in 0..n PROVE g[k] = IF k = 0 THEN [running |-> <<>>, voices |-> v] ELSE P!ResolveNote(g[k - 1], order[k], key, targets)
      <3>1. k = 0 \/ k \in 1..n
        OBVIOUS
      <3>2. QED
        BY <2>1, <3>1 DEF Walks
    <2>3. g = [k \in 0..n |-> g[k]]
      BY <2>1 DEF Walks
    <2>4. QED
      BY <2>2, <2>3
  <1>2. f = [k \in 0..n |-> IF k = 0 THEN [running |-> <<>>, voices |-> v] ELSE P!ResolveNote(f[k - 1], order[k], key, targets)]
    BY <1>1
  <1> HIDE DEF f
  <1>3. f = [k \in 0..n |-> f[k]]
    BY <1>2
  <1>4. f[0] = [running |-> <<>>, voices |-> v] /\ \A k \in 1..n : f[k] = P!ResolveNote(f[k - 1], order[k], key, targets)
    BY <1>2
  <1>5. Walks(f, v, order, key, targets, n)
    BY <1>3, <1>4 DEF Walks
  <1>6. QED
    BY <1>5 DEF f

\* Place h of the list prints an accidental on line p; it is the last of the
\* first k that does.
Sign(v, order, h, p) == P!At(v, order[h]).accid # P!None /\ P!At(v, order[h]).pitch = p
LastSign(v, order, k, p, h) ==
    h \in 1..k /\ Sign(v, order, h, p) /\ \A g \in 1..k : Sign(v, order, g, p) => g <= h

\* a is the accidental in force on line p after k notes, under signature ks.
InForceIs(v, order, k, p, ks, a) ==
    \/ \E h : LastSign(v, order, k, p, h) /\ a = P!At(v, order[h]).accid
    \/ (\A h \in 1..k : ~Sign(v, order, h, p)) /\ a = ks

\* In w, the note in place h is as the walk leaves it.
Settled(v, w, order, h, key, targets) ==
    LET i == order[h]
        note == P!At(v, i)
        ks == P!KeyAlteration(key, note.letter)
        ges == P!At(w, i).ges IN
    /\ note.accid # P!None => ges \in {P!None, note.accid}
    /\ note.accid = P!None /\ i \notin targets =>
          \E a : InForceIs(v, order, h - 1, note.pitch, ks, a) /\ ges = P!Target(a, ks)

\* The walk after k notes of the voices v.
WalkInv(v, acc, order, k, key, targets) ==
    /\ acc = [running |-> acc.running, voices |-> acc.voices]
    /\ SamePage(v, acc.voices)
    /\ \A i \in P!Ids(v) : (\A h \in 1..k : order[h] # i) => P!At(acc.voices, i) = P!At(v, i)
    /\ \A p : \/ /\ p \in DOMAIN acc.running
                 /\ \E h : LastSign(v, order, k, p, h) /\ acc.running[p] = P!At(v, order[h]).accid
              \/ p \notin DOMAIN acc.running /\ \A h \in 1..k : ~Sign(v, order, h, p)
    /\ \A h \in 1..k : Settled(v, acc.voices, order, h, key, targets)

LEMMA WalkBegins ==
  ASSUME NEW v, Shaped(v), NEW order, NEW key, NEW targets
  PROVE  WalkInv(v, [running |-> <<>>, voices |-> v], order, 0, key, targets)
  <1> DEFINE acc == [running |-> <<>>, voices |-> v]
  <1>1. acc.voices = v /\ DOMAIN acc.running = {} /\ acc = [running |-> acc.running, voices |-> acc.voices]
    OBVIOUS
  <1> HIDE DEF acc
  <1>2. SamePage(v, v) /\ \A h : h \notin 1..0
    BY SamePageSelf
  <1>3. QED
    BY <1>1, <1>2 DEF WalkInv, acc

LEMMA OneFurther ==
  ASSUME NEW v, NEW order, NEW k \in Nat, NEW p
  PROVE  /\ Sign(v, order, k + 1, p) => LastSign(v, order, k + 1, p, k + 1)
         /\ ~Sign(v, order, k + 1, p) =>
              /\ \A h : LastSign(v, order, k, p, h) => LastSign(v, order, k + 1, p, h)
              /\ (\A h \in 1..k : ~Sign(v, order, h, p)) => \A h \in 1..(k + 1) : ~Sign(v, order, h, p)
  <1>1. \A g : g \in 1..(k + 1) <=> g \in 1..k \/ g = k + 1
    OBVIOUS
  <1>2. k + 1 \in 1..(k + 1) /\ \A g \in 1..(k + 1) : g <= k + 1
    OBVIOUS
  <1>3. Sign(v, order, k + 1, p) => LastSign(v, order, k + 1, p, k + 1)
    BY <1>2 DEF LastSign
  <1>4. QED
    BY <1>1, <1>3 DEF LastSign

\* One note of the walk.
LEMMA WalkGoesOn ==
  ASSUME NEW v, Shaped(v), NEW bar, NEW staff, NEW order, Listed(v, order, bar, staff),
         NEW key, NEW targets, NEW k \in Nat, k + 1 \in 1..Len(order),
         NEW acc, WalkInv(v, acc, order, k, key, targets)
  PROVE  WalkInv(v, P!ResolveNote(acc, order[k + 1], key, targets), order, k + 1, key, targets)
  <1> DEFINE i == order[k + 1]
             old == P!At(v, i)
             note == P!At(acc.voices, i)
             ks == P!KeyAlteration(key, note.letter)
             expected == IF note.pitch \in DOMAIN acc.running THEN acc.running[note.pitch] ELSE ks
             new == P!ResolveNote(acc, i, key, targets)
             w == new.voices
  <1>1. /\ SamePage(v, acc.voices) /\ acc = [running |-> acc.running, voices |-> acc.voices]
        /\ Len(order) \in Nat
    BY DEF WalkInv, Listed
  <1>2. \A h \in 1..k : h \in 1..Len(order) /\ h # k + 1
    BY <1>1
  <1>3. i \in P!Ids(v) /\ \A h \in 1..k : order[h] \in P!Ids(v) /\ order[h] # i
    BY <1>2, ListedOnce
  <1>4. Shaped(acc.voices) /\ P!Ids(acc.voices) = P!Ids(v)
    BY <1>1 DEF SamePage, SameGrid
  <1>5. note.pitch = old.pitch /\ note.letter = old.letter /\ note.accid = old.accid
    BY <1>1, <1>3 DEF SamePage
  <1>6. P!At(acc.voices, i) = P!At(v, i)
    BY <1>3 DEF WalkInv
  <1>7. \A g : g \in 1..(k + 1) <=> g \in 1..k \/ g = k + 1
    OBVIOUS
  \* What each branch comes to.
  <1>8. CASE old.accid # P!None
    <2>1. new = [running |-> P!Override([x \in {note.pitch} |-> note.accid], acc.running),
                 voices |-> IF note.ges # note.accid
                     THEN P!Put(acc.voices, i, [note EXCEPT !.ges = P!None]) ELSE acc.voices]
      BY <1>5, <1>8 DEF P!ResolveNote
    <2>2. /\ SamePage(acc.voices, w) /\ P!At(w, i).ges \in {P!None, old.accid}
          /\ \A j \in P!Ids(v) : j # i => P!At(w, j) = P!At(acc.voices, j)
      <3>1. CASE note.ges # note.accid
        <4>1. w = Retuned(acc.voices, i, P!None)
          BY <2>1, <3>1 DEF Retuned
        <4> HIDE DEF new
        <4>2. QED
          BY <1>3, <1>4, <4>1, Retuning
      <3>2. CASE note.ges = note.accid
        <4>1. w = acc.voices
          BY <2>1, <3>2
        <4>2. QED
          BY <1>4, <1>5, <3>2, <4>1, SamePageSelf
      <3>3. QED
        BY <3>1, <3>2
    <2>3. new.running = P!Override([x \in {old.pitch} |-> old.accid], acc.running)
      BY <1>5, <2>1
    <2>4. new = [running |-> new.running, voices |-> new.voices]
      BY <2>1
    <2> HIDE DEF new
    <2>5. SamePage(v, w)
      BY <1>1, <2>2, SamePageOn
    <2>6. ASSUME NEW j \in P!Ids(v), \A h \in 1..(k + 1) : order[h] # j PROVE P!At(w, j) = P!At(v, j)
      BY <1>7, <2>2, <2>6 DEF WalkInv
    <2>7. ASSUME NEW p
          PROVE  \/ /\ p \in DOMAIN new.running
                    /\ \E h : LastSign(v, order, k + 1, p, h) /\ new.running[p] = P!At(v, order[h]).accid
                 \/ p \notin DOMAIN new.running /\ \A h \in 1..(k + 1) : ~Sign(v, order, h, p)
      <3>1. CASE p = old.pitch
        <4>1. Sign(v, order, k + 1, p)
          BY <1>8, <3>1 DEF Sign
        <4>2. LastSign(v, order, k + 1, p, k + 1)
          BY <4>1, OneFurther
        <4>3. p \in DOMAIN new.running /\ new.running[p] = old.accid
          BY <2>3, <3>1 DEF P!Override
        <4>4. QED
          BY <4>2, <4>3
      <3>2. CASE p # old.pitch
        <4>1. ~Sign(v, order, k + 1, p)
          BY <3>2 DEF Sign
        <4>2. /\ p \in DOMAIN new.running <=> p \in DOMAIN acc.running
              /\ p \in DOMAIN acc.running => new.running[p] = acc.running[p]
          BY <2>3, <3>2 DEF P!Override
        <4>3. \/ /\ p \in DOMAIN acc.running
                 /\ \E h : LastSign(v, order, k, p, h) /\ acc.running[p] = P!At(v, order[h]).accid
              \/ p \notin DOMAIN acc.running /\ \A h \in 1..k : ~Sign(v, order, h, p)
          BY DEF WalkInv
        <4>4. QED
          BY <4>1, <4>2, <4>3, OneFurther
      <3>3. QED
        BY <3>1, <3>2
    <2>8. ASSUME NEW h \in 1..(k + 1) PROVE Settled(v, w, order, h, key, targets)
      <3>1. CASE h = k + 1
        BY <1>8, <2>2, <3>1 DEF Settled
      <3>2. CASE h \in 1..k
        <4>1. P!At(w, order[h]) = P!At(acc.voices, order[h])
          BY <1>3, <2>2, <3>2
        <4>2. Settled(v, acc.voices, order, h, key, targets)
          BY <3>2 DEF WalkInv
        <4>3. QED
          BY <4>1, <4>2 DEF Settled
      <3>3. QED
        BY <1>7, <3>1, <3>2
    <2>9. WalkInv(v, new, order, k + 1, key, targets)
      BY <2>4, <2>5, <2>6, <2>7, <2>8 DEF WalkInv
    <2>10. QED
      BY <2>9 DEF new
  <1>9. CASE old.accid = P!None
    <2>1. new = IF i \in targets THEN acc
                ELSE [acc EXCEPT !.voices = P!Put(@, i, [note EXCEPT !.ges = P!Target(expected, ks)])]
      BY <1>5, <1>9 DEF P!ResolveNote
    <2>2. /\ new = [running |-> new.running, voices |-> new.voices] /\ new.running = acc.running
          /\ i \in targets => w = acc.voices
          /\ i \notin targets => w = Retuned(acc.voices, i, P!Target(expected, ks))
      BY <1>1, <2>1 DEF Retuned
    <2> HIDE DEF new
    <2>3. /\ SamePage(acc.voices, w)
          /\ \A j \in P!Ids(v) : j # i => P!At(w, j) = P!At(acc.voices, j)
          /\ i \notin targets => P!At(w, i).ges = P!Target(expected, ks)
      <3>1. CASE i \in targets
        BY <1>4, <2>2, <3>1, SamePageSelf
      <3>2. CASE i \notin targets
        BY <1>3, <1>4, <2>2, <3>2, Retuning
      <3>3. QED
        BY <3>1, <3>2
    <2>5. SamePage(v, w)
      BY <1>1, <2>3, SamePageOn
    <2>6. ASSUME NEW j \in P!Ids(v), \A h \in 1..(k + 1) : order[h] # j PROVE P!At(w, j) = P!At(v, j)
      BY <1>7, <2>3, <2>6 DEF WalkInv
    <2>a. \A p : \/ /\ p \in DOMAIN acc.running
                    /\ \E h : LastSign(v, order, k, p, h) /\ acc.running[p] = P!At(v, order[h]).accid
                 \/ p \notin DOMAIN acc.running /\ \A h \in 1..k : ~Sign(v, order, h, p)
      BY DEF WalkInv
    <2>7. ASSUME NEW p
          PROVE  \/ /\ p \in DOMAIN new.running
                    /\ \E h : LastSign(v, order, k + 1, p, h) /\ new.running[p] = P!At(v, order[h]).accid
                 \/ p \notin DOMAIN new.running /\ \A h \in 1..(k + 1) : ~Sign(v, order, h, p)
      <3>1. ~Sign(v, order, k + 1, p)
        BY <1>9 DEF Sign
      <3>2. QED
        BY <2>2, <2>a, <3>1, OneFurther
    <2>8. ASSUME NEW h \in 1..(k + 1) PROVE Settled(v, w, order, h, key, targets)
      <3>1. CASE h = k + 1
        <4>1. ASSUME i \notin targets
              PROVE  InForceIs(v, order, k, old.pitch, ks, expected) /\ P!At(w, i).ges = P!Target(expected, ks)
          <5>1. InForceIs(v, order, k, old.pitch, ks, expected)
            BY <1>5, <2>a DEF InForceIs
          <5>2. QED
            BY <2>3, <4>1, <5>1
        <4>2. (k + 1) - 1 = k /\ ks = P!KeyAlteration(key, old.letter)
          BY <1>5
        <4> HIDE DEF expected, ks
        <4>3. QED
          BY <1>9, <3>1, <4>1, <4>2 DEF Settled
      <3>2. CASE h \in 1..k
        <4>1. P!At(w, order[h]) = P!At(acc.voices, order[h])
          BY <1>3, <2>3, <3>2
        <4>2. Settled(v, acc.voices, order, h, key, targets)
          BY <3>2 DEF WalkInv
        <4>3. QED
          BY <4>1, <4>2 DEF Settled
      <3>3. QED
        BY <1>7, <3>1, <3>2
    <2>9. WalkInv(v, new, order, k + 1, key, targets)
      BY <2>2, <2>5, <2>6, <2>7, <2>8 DEF WalkInv
    <2>10. QED
      BY <2>9 DEF new
  <1>10. QED
    BY <1>8, <1>9


LEMMA WalkHolds ==
  ASSUME NEW v, Shaped(v), NEW bar, NEW staff, NEW order, Listed(v, order, bar, staff),
         NEW key, NEW targets, NEW walk, Walks(walk, v, order, key, targets, Len(order))
  PROVE  WalkInv(v, walk[Len(order)], order, Len(order), key, targets)
  <1> DEFINE n == Len(order)
             T == {k \in 0..n : WalkInv(v, walk[k], order, k, key, targets)}
  <1>1. n \in Nat
    BY DEF Listed
  <1>2. 0 \in T
    <2>1. walk[0] = [running |-> <<>>, voices |-> v]
      BY DEF Walks
    <2>2. WalkInv(v, walk[0], order, 0, key, targets)
      BY <2>1, WalkBegins
    <2>3. QED
      BY <1>1, <2>2
  <1>3. ASSUME NEW k \in 0..n, k \in T, k < n PROVE k + 1 \in T
    <2>1. k \in Nat /\ k + 1 \in 1..n /\ k + 1 \in 0..n /\ (k + 1) - 1 = k
      BY <1>1, <1>3
    <2>2. WalkInv(v, walk[k], order, k, key, targets)
      BY <1>3
    <2>3. walk[k + 1] = P!ResolveNote(walk[k], order[k + 1], key, targets)
      BY <2>1 DEF Walks
    <2>4. WalkInv(v, walk[k + 1], order, k + 1, key, targets)
      BY <2>1, <2>2, <2>3, WalkGoesOn
    <2>5. QED
      BY <2>1, <2>4
  <1> HIDE DEF T
  <1>4. 0..n \subseteq T
    BY <1>1, <1>2, <1>3, Climb
  <1>5. n \in T
    BY <1>1, <1>4
  <1>6. QED
    BY <1>5 DEF T

LEMMA TargetSounds ==
  ASSUME NEW note, NEW a, NEW ks, note.accid = P!None, note.ges = P!Target(a, ks)
  PROVE  P!Played(note) = Sounding(a)
  BY DEF P!Target, P!Played, Sounding, P!None

\* A note the walk has settled plays what the page means.
LEMMA SettledPlays ==
  ASSUME NEW v, Shaped(v), NEW w, SamePage(v, w), NEW bar, NEW staff, NEW order,
         Listed(v, order, bar, staff), NEW keys, NEW targets, NEW h \in 1..Len(order),
         Settled(v, w, order, h, P!KeyAt(keys, bar, staff), targets),
         P!At(v, order[h]).accid # P!None \/ order[h] \notin targets
  PROVE  P!Played(P!At(w, order[h])) = P!Meant(v, keys, order[h])
  <1> DEFINE i == order[h]
             note == P!At(v, i)
             new == P!At(w, i)
             ks == P!KeyAlteration(P!KeyAt(keys, bar, staff), note.letter)
  <1>1. i \in P!Ids(v) /\ i[1] = bar /\ i[2] = staff
    BY ListedOnce
  <1>2. new.accid = note.accid /\ Len(order) \in Nat
    BY <1>1 DEF SamePage, Listed
  <1>3. CASE note.accid # P!None
    <2>1. new.ges \in {P!None, note.accid}
      BY <1>3 DEF Settled
    <2>2. P!Played(new) = note.accid
      BY <1>2, <1>3, <2>1 DEF P!Played
    <2>3. QED
      BY <1>1, <1>3, <2>2, MeantIs
  <1>4. CASE note.accid = P!None
    <2>1. PICK a : InForceIs(v, order, h - 1, note.pitch, ks, a) /\ new.ges = P!Target(a, ks)
      BY <1>4 DEF Settled
    <2>2. P!Played(new) = Sounding(a)
      BY <1>2, <1>4, <2>1, TargetSounds
    <2>3. ASSUME NEW j, Signs(v, j, i)
          PROVE  \E g \in 1..(h - 1) : order[g] = j /\ Sign(v, order, g, note.pitch)
      <3>1. j \in P!OnStaff(v, bar, staff)
        BY <1>1, <2>3 DEF Signs, P!OnStaff
      <3>2. PICK g \in 1..Len(order) : order[g] = j
        BY <3>1 DEF Listed
      <3>3. P!Governs(v, order[g], order[h])
        BY <2>3, <3>2 DEF Signs
      <3>4. g < h
        BY <3>3 DEF Listed
      <3>5. Sign(v, order, g, note.pitch)
        BY <2>3, <3>2 DEF Signs, Sign
      <3>6. QED
        BY <1>2, <3>2, <3>4, <3>5
    <2>4. CASE \E g : LastSign(v, order, h - 1, note.pitch, g) /\ a = P!At(v, order[g]).accid
      <3>1. PICK g : LastSign(v, order, h - 1, note.pitch, g) /\ a = P!At(v, order[g]).accid
        BY <2>4
      <3>2. /\ g \in 1..(h - 1) /\ Sign(v, order, g, note.pitch)
            /\ \A f \in 1..(h - 1) : Sign(v, order, f, note.pitch) => f <= g
        BY <3>1 DEF LastSign
      <3>3. g \in 1..Len(order) /\ g < h
        BY <1>2, <3>2
      <3>4. order[g] \in P!Ids(v) /\ order[g][1] = bar /\ order[g][2] = staff
        BY <3>3, ListedOnce
      <3>5. P!Governs(v, order[g], i)
        BY <3>3 DEF Listed
      <3>6. Signs(v, order[g], i)
        BY <1>1, <3>2, <3>4, <3>5 DEF Signs, Sign
      <3>7. ASSUME NEW j, Signs(v, j, i) PROVE j = order[g] \/ P!Governs(v, j, order[g])
        <4>1. PICK f \in 1..(h - 1) : order[f] = j /\ Sign(v, order, f, note.pitch)
          BY <2>3, <3>7
        <4>2. f <= g /\ f \in 1..Len(order)
          BY <1>2, <3>2, <4>1
        <4>3. f = g \/ f < g
          BY <3>3, <4>2
        <4>4. QED
          BY <3>3, <4>1, <4>2, <4>3 DEF Listed
      <3>8. LatestSign(v, order[g], i)
        BY <3>6, <3>7 DEF LatestSign
      <3>9. P!Meant(v, keys, i) = a
        BY <1>1, <1>4, <3>1, <3>8, MeantIs
      <3>10. Sounding(a) = a
        BY <3>1, <3>2 DEF Sounding, Sign
      <3>11. QED
        BY <2>2, <3>9, <3>10
    <2>5. CASE (\A g \in 1..(h - 1) : ~Sign(v, order, g, note.pitch)) /\ a = ks
      <3>1. \A j : ~Signs(v, j, i)
        BY <2>3, <2>5
      <3>2. P!Meant(v, keys, i) = Sounding(ks)
        BY <1>1, <1>4, <3>1, MeantIs
      <3>3. QED
        BY <2>2, <2>5, <3>2
    <2>6. QED
      BY <2>1, <2>4, <2>5 DEF InForceIs
  <1>5. QED
    BY <1>3, <1>4

LEMMA StaffResolved ==
  ASSUME NEW v, Shaped(v), NEW bar, NEW staff, NEW keys, NEW targets
  PROVE  LET w == P!ResolveStaff(v, bar, staff, keys, targets) IN
         /\ SamePage(v, w)
         /\ \A i \in P!Ids(v) : i \notin P!OnStaff(v, bar, staff) => P!At(w, i) = P!At(v, i)
         /\ \A i \in P!OnStaff(v, bar, staff) : P!At(v, i).accid # P!None \/ i \notin targets
               => P!Played(P!At(w, i)) = P!Meant(v, keys, i)
  <1> DEFINE w == P!ResolveStaff(v, bar, staff, keys, targets)
             order == P!StaffOrder(v, bar, staff)
             key == P!KeyAt(keys, bar, staff)
             n == Len(order)
             walk == CHOOSE walk : walk = [k \in 0..n |->
                        IF k = 0 THEN [running |-> <<>>, voices |-> v]
                        ELSE P!ResolveNote(walk[k - 1], order[k], key, targets)]
  <1>1. Listed(v, order, bar, staff)
    BY StaffOrderIs
  <1>2. n \in Nat
    BY <1>1 DEF Listed
  <1>3. w = walk[n].voices
    BY DEF P!ResolveStaff
  <1> HIDE DEF order, key, w
  <1>4. Walks(walk, v, order, key, targets, n)
    BY <1>2, WalksChosen
  <1> HIDE DEF walk
  <1>5. WalkInv(v, walk[n], order, n, key, targets)
    BY <1>1, <1>4, WalkHolds
  <1>6. SamePage(v, w)
    BY <1>3, <1>5 DEF WalkInv
  <1>7. ASSUME NEW i \in P!Ids(v), i \notin P!OnStaff(v, bar, staff) PROVE P!At(w, i) = P!At(v, i)
    <2>1. \A h \in 1..n : order[h] # i
      BY <1>1, <1>7 DEF Listed
    <2>2. QED
      BY <1>3, <1>5, <2>1 DEF WalkInv
  <1>8. ASSUME NEW i \in P!OnStaff(v, bar, staff), P!At(v, i).accid # P!None \/ i \notin targets
        PROVE  P!Played(P!At(w, i)) = P!Meant(v, keys, i)
    <2>1. PICK h \in 1..n : order[h] = i
      BY <1>1 DEF Listed
    <2>2. Settled(v, w, order, h, key, targets)
      BY <1>3, <1>5 DEF WalkInv
    <2>3. QED
      BY <1>1, <1>6, <1>8, <2>1, <2>2, SettledPlays DEF key
  <1>9. QED
    BY <1>6, <1>7, <1>8 DEF w

-----------------------------------------------------------------------------
(* Pass 9 on the whole score: staff after staff, bar after bar.             *)
\* f lists the voices after each of the first n staves in parts.
Parts(f, v, parts, keys, targets, n) ==
    /\ f = [k \in 0..n |-> f[k]] /\ f[0] = v
    /\ \A k \in 1..n : f[k] = P!ResolveStaff(f[k - 1], parts[k][1], parts[k][2], keys, targets)

LEMMA PartsExists ==
  ASSUME NEW v, NEW parts, NEW keys, NEW targets, NEW n \in Nat
  PROVE  \E f : Parts(f, v, parts, keys, targets, n)
  <1> DEFINE T == {m \in 0..n : \E f : Parts(f, v, parts, keys, targets, m)}
  <1>1. 0 \in T
    <2>1. Parts([k \in 0..0 |-> v], v, parts, keys, targets, 0)
      BY DEF Parts
    <2>2. QED
      BY <2>1
  <1>2. ASSUME NEW m \in 0..n, m \in T, m < n PROVE m + 1 \in T
    <2>1. m \in Nat /\ 0 <= m + 1 /\ m + 1 \in 0..n
      BY <1>2
    <2>2. PICK f : Parts(f, v, parts, keys, targets, m)
      BY <1>2
    <2> DEFINE x == P!ResolveStaff(f[m], parts[(m + 1)][1], parts[(m + 1)][2], keys, targets)
    <2>3. PICK g : Longer(g, f, 0, m, x)
      BY <2>1, OneMoreResult
    <2>4. g = [k \in 0..(m + 1) |-> g[k]] /\ g[m + 1] = x /\ \A k \in 0..m : g[k] = f[k]
      BY <2>3 DEF Longer
    <2>a. g[m] = f[m] /\ g[0] = f[0]
      <3>1. m \in 0..m /\ 0 \in 0..m
        BY <2>1
      <3>2. QED
        BY <2>4, <3>1
    <2>5. g[0] = v
      BY <2>2, <2>a DEF Parts
    <2>6. ASSUME NEW k \in 1..(m + 1) PROVE g[k] = P!ResolveStaff(g[k - 1], parts[k][1], parts[k][2], keys, targets)
      <3>1. CASE k = m + 1
        <4>1. k - 1 = m
          BY <2>1, <3>1
        <4>2. QED
          BY <2>4, <2>a, <3>1, <4>1
      <3>2. CASE k # m + 1
        <4>1. k \in 1..m /\ k \in 0..m /\ k - 1 \in 0..m
          BY <2>1, <3>2
        <4>2. f[k] = P!ResolveStaff(f[k - 1], parts[k][1], parts[k][2], keys, targets)
          BY <2>2, <4>1 DEF Parts
        <4>3. QED
          BY <2>4, <4>1, <4>2
      <3>3. QED
        BY <3>1, <3>2
    <2> HIDE DEF x
    <2>7. Parts(g, v, parts, keys, targets, m + 1)
      BY <2>4, <2>5, <2>6 DEF Parts
    <2>8. QED
      BY <2>1, <2>7
  <1> HIDE DEF T
  <1>3. 0..n \subseteq T
    BY <1>1, <1>2, Climb
  <1>4. QED
    BY <1>3 DEF T

LEMMA PartsChosen ==
  ASSUME NEW v, NEW parts, NEW keys, NEW targets, NEW n \in Nat
  PROVE  LET f == CHOOSE f : f = [k \in 0..n |-> IF k = 0 THEN v ELSE P!ResolveStaff(f[k - 1], parts[k][1], parts[k][2], keys, targets)]
         IN  Parts(f, v, parts, keys, targets, n)
  <1> DEFINE f == CHOOSE f : f = [k \in 0..n |-> IF k = 0 THEN v ELSE P!ResolveStaff(f[k - 1], parts[k][1], parts[k][2], keys, targets)]
  <1>1. \E g : g = [k \in 0..n |-> IF k = 0 THEN v ELSE P!ResolveStaff(g[k - 1], parts[k][1], parts[k][2], keys, targets)]
    <2>1. PICK g : Parts(g, v, parts, keys, targets, n)
      BY PartsExists
    <2>2. ASSUME NEW k \in 0..n PROVE g[k] = IF k = 0 THEN v ELSE P!ResolveStaff(g[k - 1], parts[k][1], parts[k][2], keys, targets)
      <3>1. k = 0 \/ k \in 1..n
        OBVIOUS
      <3>2. QED
        BY <2>1, <3>1 DEF Parts
    <2>3. g = [k \in 0..n |-> g[k]]
      BY <2>1 DEF Parts
    <2>4. QED
      BY <2>2, <2>3
  <1>2. f = [k \in 0..n |-> IF k = 0 THEN v ELSE P!ResolveStaff(f[k - 1], parts[k][1], parts[k][2], keys, targets)]
    BY <1>1
  <1> HIDE DEF f
  <1>3. f = [k \in 0..n |-> f[k]]
    BY <1>2
  <1>4. f[0] = v /\ \A k \in 1..n : f[k] = P!ResolveStaff(f[k - 1], parts[k][1], parts[k][2], keys, targets)
    BY <1>2
  <1>5. Parts(f, v, parts, keys, targets, n)
    BY <1>3, <1>4 DEF Parts
  <1>6. QED
    BY <1>5 DEF f

\* The voices w after the first k parts.
PartsInv(v, w, parts, k, keys, targets) ==
    /\ SamePage(v, w)
    /\ \A i \in P!Ids(v) :
          (\E h \in 1..k : parts[h] = <<i[1], i[2]>>) /\ (P!At(v, i).accid # P!None \/ i \notin targets)
             => P!Played(P!At(w, i)) = P!Meant(v, keys, i)

LEMMA PartResolved ==
  ASSUME NEW v, Shaped(v), NEW w, NEW parts, NEW k \in Nat, NEW keys, NEW targets,
         PartsInv(v, w, parts, k, keys, targets)
  PROVE  PartsInv(v, P!ResolveStaff(w, parts[k + 1][1], parts[k + 1][2], keys, targets),
                  parts, k + 1, keys, targets)
  <1> DEFINE b == parts[k + 1][1]
             s == parts[k + 1][2]
             new == P!ResolveStaff(w, b, s, keys, targets)
  <1>1. SamePage(v, w) /\ Shaped(w) /\ P!Ids(w) = P!Ids(v) /\ \A i \in P!Ids(v) : P!At(w, i).accid = P!At(v, i).accid
    BY DEF PartsInv, SamePage, SameGrid
  <1>2. /\ SamePage(w, new)
        /\ \A i \in P!Ids(w) : i \notin P!OnStaff(w, b, s) => P!At(new, i) = P!At(w, i)
        /\ \A i \in P!OnStaff(w, b, s) : P!At(w, i).accid # P!None \/ i \notin targets
               => P!Played(P!At(new, i)) = P!Meant(w, keys, i)
    BY <1>1, StaffResolved
  <1> HIDE DEF new
  <1>3. SamePage(v, new)
    BY <1>1, <1>2, SamePageOn
  <1>4. ASSUME NEW i \in P!Ids(v), NEW h \in 1..(k + 1), parts[h] = <<i[1], i[2]>>,
               P!At(v, i).accid # P!None \/ i \notin targets
        PROVE  P!Played(P!At(new, i)) = P!Meant(v, keys, i)
    <2>1. CASE i \in P!OnStaff(w, b, s)
      <3>1. P!Played(P!At(new, i)) = P!Meant(w, keys, i)
        BY <1>1, <1>2, <1>4, <2>1
      <3>2. QED
        BY <1>1, <3>1, MeantSame
    <2>2. CASE i \notin P!OnStaff(w, b, s)
      <3>1. P!At(new, i) = P!At(w, i)
        BY <1>1, <1>2, <2>2
      <3>2. h # k + 1
        BY <1>1, <1>4, <2>2 DEF P!OnStaff
      <3>3. h \in 1..k
        BY <3>2
      <3>4. QED
        BY <1>4, <3>1, <3>3 DEF PartsInv
    <2>3. QED
      BY <2>1, <2>2
  <1>5. PartsInv(v, new, parts, k + 1, keys, targets)
    BY <1>3, <1>4 DEF PartsInv
  <1>6. QED
    BY <1>5 DEF new

\* The list of a finite set has all its members.
LEMMA SetListed ==
  ASSUME NEW S, IsFiniteSet(S)
  PROVE  /\ Len(P!SetToSeq(S)) \in Nat
         /\ \A x \in S : \E k \in 1..Len(P!SetToSeq(S)) : P!SetToSeq(S)[k] = x
  <1> DEFINE n == Cardinality(S)
             list == P!SetToSeq(S)
  <1>1. n \in Nat /\ ExistsBijection(1..n, S)
    BY FS_CardinalityType
  <1>2. P!Cardinality(S) = n
    BY CardinalityThere
  <1>3. \E f \in [1..n -> S] : P!IsInjective(f)
    BY <1>1 DEF ExistsBijection, Bijection, Injection, IsInjective, P!IsInjective
  <1>4. list \in [1..n -> S] /\ P!IsInjective(list)
    BY <1>2, <1>3 DEF P!SetToSeq
  <1> HIDE DEF list
  <1>5. list \in Injection(1..n, S)
    BY <1>4 DEF Injection, IsInjective, P!IsInjective
  <1>6. IsFiniteSet(1..n) /\ Cardinality(1..n) = n
    BY <1>1, FS_Interval
  <1>7. list \in Surjection(1..n, S)
    BY <1>5, <1>6, FS_Injection
  <1>8. Len(list) = n
    BY <1>1, <1>4
  <1>9. QED
    BY <1>1, <1>7, <1>8 DEF Surjection, list

\* What the property says of a score.
AsPrinted(v, ties, keys) ==
    \A i \in P!Ids(v) :
        \/ P!Played(P!At(v, i)) = P!Meant(v, keys, i)
        \/ \E k \in DOMAIN ties : ties[k].end = i /\ P!At(v, i).accid = P!None

LEMMA AccidentalsResolved ==
  ASSUME NEW v, Shaped(v), NEW ties, NEW keys
  PROVE  LET w == P!ResolveAccidentals(v, ties, keys)
         IN  SamePage(v, w) /\ AsPrinted(w, ties, keys)
  <1> DEFINE w == P!ResolveAccidentals(v, ties, keys)
             targets == P!TieTargets(v, ties)
             places == {<<x[1], x[2]>> : x \in DOMAIN v}
             parts == P!SetToSeq(places)
             n == Len(parts)
             done == CHOOSE done : done = [k \in 0..n |-> IF k = 0 THEN v
                        ELSE P!ResolveStaff(done[k - 1], parts[k][1], parts[k][2], keys, targets)]
  <1>1. w = done[n]
    BY DEF P!ResolveAccidentals
  <1>2. IsFiniteSet(places)
    <2> DEFINE f == [x \in DOMAIN v |-> <<x[1], x[2]>>]
    <2>1. places = {f[x] : x \in DOMAIN v} /\ f \in [DOMAIN v -> {f[x] : x \in DOMAIN v}]
      OBVIOUS
    <2>2. IsFiniteSet(DOMAIN v)
      BY DEF Shaped
    <2> HIDE DEF f, places
    <2>3. QED
      BY <2>1, <2>2, FiniteImage
  <1>3. n \in Nat /\ \A x \in places : \E k \in 1..n : parts[k] = x
    <2> HIDE DEF places
    <2>1. QED
      BY <1>2, SetListed
  <1> HIDE DEF parts, w, targets
  <1>4. Parts(done, v, parts, keys, targets, n)
    BY <1>3, PartsChosen
  <1> HIDE DEF done
  <1> DEFINE T == {k \in 0..n : PartsInv(v, done[k], parts, k, keys, targets)}
  <1>5. 0 \in T
    <2>1. done[0] = v
      BY <1>4 DEF Parts
    <2>2. SamePage(v, v) /\ \A h : h \notin 1..0
      BY SamePageSelf
    <2>3. PartsInv(v, done[0], parts, 0, keys, targets)
      BY <2>1, <2>2 DEF PartsInv
    <2>4. QED
      BY <1>3, <2>3
  <1>6. ASSUME NEW k \in 0..n, k \in T, k < n PROVE k + 1 \in T
    <2>1. k \in Nat /\ k + 1 \in 1..n /\ k + 1 \in 0..n /\ (k + 1) - 1 = k
      BY <1>3, <1>6
    <2>2. PartsInv(v, done[k], parts, k, keys, targets)
      BY <1>6
    <2>3. done[k + 1] = P!ResolveStaff(done[k], parts[k + 1][1], parts[k + 1][2], keys, targets)
      BY <1>4, <2>1 DEF Parts
    <2>4. PartsInv(v, done[k + 1], parts, k + 1, keys, targets)
      BY <2>1, <2>2, <2>3, PartResolved
    <2>5. QED
      BY <2>1, <2>4
  <1> HIDE DEF T
  <1>7. 0..n \subseteq T
    BY <1>3, <1>5, <1>6, Climb
  <1>8. n \in T
    BY <1>3, <1>7
  <1>9. PartsInv(v, w, parts, n, keys, targets)
    BY <1>1, <1>8 DEF T
  <1>10. SamePage(v, w)
    BY <1>9 DEF PartsInv
  <1>11. ASSUME NEW i \in P!Ids(v) PROVE \E k \in 1..n : parts[k] = <<i[1], i[2]>>
    <2>1. P!Voice(i) \in DOMAIN v
      BY IdIs
    <2>2. <<i[1], i[2]>> \in places
      BY <2>1 DEF P!Voice
    <2> HIDE DEF places
    <2>3. QED
      BY <1>3, <2>2
  <1>12. ASSUME NEW i \in targets PROVE \E k \in DOMAIN ties : ties[k].end = i
    BY DEF targets, P!TieTargets
  <1>13. AsPrinted(w, ties, keys)
    <2>1. ASSUME NEW i \in P!Ids(v), P!At(v, i).accid # P!None \/ i \notin targets
          PROVE  P!Played(P!At(w, i)) = P!Meant(w, keys, i)
      <3>1. P!Played(P!At(w, i)) = P!Meant(v, keys, i)
        BY <1>9, <1>11, <2>1 DEF PartsInv
      <3>2. QED
        BY <1>10, <3>1, MeantSame
    <2>2. P!Ids(w) = P!Ids(v) /\ \A i \in P!Ids(v) : P!At(w, i).accid = P!At(v, i).accid
      BY <1>10 DEF SamePage, SameGrid
    <2>3. QED
      BY <1>12, <2>1, <2>2 DEF AsPrinted
  <1>14. QED
    BY <1>10, <1>13 DEF w


-----------------------------------------------------------------------------
(* Pass 8: the continuations of ties.                                       *)

IsSeq(s) == \E S : s \in Seq(S)

LEMMA AppendIsSeq ==
  ASSUME NEW s, IsSeq(s), NEW x
  PROVE  IsSeq(Append(s, x)) /\ Len(s) \in Nat
  <1>1. PICK S : s \in Seq(S)
    BY DEF IsSeq
  <1>2. s \in Seq(S \cup {x})
    BY <1>1
  <1>3. Append(s, x) \in Seq(S \cup {x})
    BY <1>2
  <1>4. QED
    BY <1>1, <1>3 DEF IsSeq

LEMMA ContinuationIs ==
  ASSUME NEW v, Shaped(v), NEW i, P!Continuations(v, i) # {}
  PROVE  P!Continuation(v, i) \in P!Ids(v)
  <1> DEFINE S == P!Continuations(v, i)
             Places == {j[4] : j \in S}
  <1>1. S \subseteq P!Ids(v) /\ \A j \in S : P!Voice(j) = <<i[1] + 1, i[2], i[3]>>
    BY DEF P!Continuations
  <1> HIDE DEF S
  <1>2. \A j \in S : /\ j \in Nat \X Nat \X Nat \X Nat \X Nat
                     /\ j = <<j[1], j[2], j[3], j[4], j[5]>>
    BY <1>1, IdIs
  <1>3. Places \in SUBSET Nat /\ Places # {}
    BY <1>2 DEF S
  <1>4. PICK e \in Places : \A m \in Places : e <= m
    BY <1>3, LeastNat
  <1> DEFINE Chord == {j[5] : j \in {h \in S : h[4] = e}}
  <1>5. Chord \in SUBSET Nat /\ Chord # {}
    BY <1>2, <1>4
  <1>6. PICK c \in Chord : \A m \in Chord : c <= m
    BY <1>5, LeastNat
  <1>7. PICK j \in S : j[4] = e /\ j[5] = c
    BY <1>6
  <1>8. ASSUME NEW k \in S PROVE k = j \/ P!Earlier(j, k)
    <2>1. k[1] = j[1] /\ k[2] = j[2] /\ k[3] = j[3]
      BY <1>1, <1>7 DEF P!Voice
    <2>2. e <= k[4] /\ (k[4] = e => c <= k[5])
      BY <1>4, <1>6
    <2>3. j[4] < k[4] \/ (j[4] = k[4] /\ (j[5] < k[5] \/ j[5] = k[5]))
      BY <1>2, <1>7, <2>2
    <2>4. QED
      BY <1>2, <1>7, <2>1, <2>3, EarlierIs
  <1>9. P!Continuation(v, i) \in S
    BY <1>8 DEF P!Continuation, S
  <1>10. QED
    BY <1>1, <1>9

\* f lists voices and ties after each of the first n ties.
Ties(f, v, ties, n) ==
    /\ f = [k \in 0..n |-> f[k]] /\ f[0] = [voices |-> v, ties |-> <<>>]
    /\ \A k \in 1..n : f[k] = P!CompleteTie(f[k - 1], ties[k])

LEMMA TiesExists ==
  ASSUME NEW v, NEW ties, NEW n \in Nat
  PROVE  \E f : Ties(f, v, ties, n)
  <1> DEFINE T == {m \in 0..n : \E f : Ties(f, v, ties, m)}
  <1>1. 0 \in T
    <2>1. Ties([k \in 0..0 |-> [voices |-> v, ties |-> <<>>]], v, ties, 0)
      BY DEF Ties
    <2>2. QED
      BY <2>1
  <1>2. ASSUME NEW m \in 0..n, m \in T, m < n PROVE m + 1 \in T
    <2>1. m \in Nat /\ 0 <= m + 1 /\ m + 1 \in 0..n
      BY <1>2
    <2>2. PICK f : Ties(f, v, ties, m)
      BY <1>2
    <2> DEFINE x == P!CompleteTie(f[m], ties[(m + 1)])
    <2>3. PICK g : Longer(g, f, 0, m, x)
      BY <2>1, OneMoreResult
    <2>4. g = [k \in 0..(m + 1) |-> g[k]] /\ g[m + 1] = x /\ \A k \in 0..m : g[k] = f[k]
      BY <2>3 DEF Longer
    <2>a. g[m] = f[m] /\ g[0] = f[0]
      <3>1. m \in 0..m /\ 0 \in 0..m
        BY <2>1
      <3>2. QED
        BY <2>4, <3>1
    <2>5. g[0] = [voices |-> v, ties |-> <<>>]
      BY <2>2, <2>a DEF Ties
    <2>6. ASSUME NEW k \in 1..(m + 1) PROVE g[k] = P!CompleteTie(g[k - 1], ties[k])
      <3>1. CASE k = m + 1
        <4>1. k - 1 = m
          BY <2>1, <3>1
        <4>2. QED
          BY <2>4, <2>a, <3>1, <4>1
      <3>2. CASE k # m + 1
        <4>1. k \in 1..m /\ k \in 0..m /\ k - 1 \in 0..m
          BY <2>1, <3>2
        <4>2. f[k] = P!CompleteTie(f[k - 1], ties[k])
          BY <2>2, <4>1 DEF Ties
        <4>3. QED
          BY <2>4, <4>1, <4>2
      <3>3. QED
        BY <3>1, <3>2
    <2> HIDE DEF x
    <2>7. Ties(g, v, ties, m + 1)
      BY <2>4, <2>5, <2>6 DEF Ties
    <2>8. QED
      BY <2>1, <2>7
  <1> HIDE DEF T
  <1>3. 0..n \subseteq T
    BY <1>1, <1>2, Climb
  <1>4. QED
    BY <1>3 DEF T

LEMMA TiesChosen ==
  ASSUME NEW v, NEW ties, NEW n \in Nat
  PROVE  LET f == CHOOSE f : f = [k \in 0..n |-> IF k = 0 THEN [voices |-> v, ties |-> <<>>] ELSE P!CompleteTie(f[k - 1], ties[k])]
         IN  Ties(f, v, ties, n)
  <1> DEFINE f == CHOOSE f : f = [k \in 0..n |-> IF k = 0 THEN [voices |-> v, ties |-> <<>>] ELSE P!CompleteTie(f[k - 1], ties[k])]
  <1>1. \E g : g = [k \in 0..n |-> IF k = 0 THEN [voices |-> v, ties |-> <<>>] ELSE P!CompleteTie(g[k - 1], ties[k])]
    <2>1. PICK g : Ties(g, v, ties, n)
      BY TiesExists
    <2>2. ASSUME NEW k \in 0..n PROVE g[k] = IF k = 0 THEN [voices |-> v, ties |-> <<>>] ELSE P!CompleteTie(g[k - 1], ties[k])
      <3>1. k = 0 \/ k \in 1..n
        OBVIOUS
      <3>2. QED
        BY <2>1, <3>1 DEF Ties
    <2>3. g = [k \in 0..n |-> g[k]]
      BY <2>1 DEF Ties
    <2>4. QED
      BY <2>2, <2>3
  <1>2. f = [k \in 0..n |-> IF k = 0 THEN [voices |-> v, ties |-> <<>>] ELSE P!CompleteTie(f[k - 1], ties[k])]
    BY <1>1
  <1> HIDE DEF f
  <1>3. f = [k \in 0..n |-> f[k]]
    BY <1>2
  <1>4. f[0] = [voices |-> v, ties |-> <<>>] /\ \A k \in 1..n : f[k] = P!CompleteTie(f[k - 1], ties[k])
    BY <1>2
  <1>5. Ties(f, v, ties, n)
    BY <1>3, <1>4 DEF Ties
  <1>6. QED
    BY <1>5 DEF f

TiesInv(v, acc) ==
    /\ acc = [voices |-> acc.voices, ties |-> acc.ties]
    /\ SamePage(v, acc.voices) /\ IsSeq(acc.ties)

LEMMA TieCompleted ==
  ASSUME NEW v, Shaped(v), NEW acc, TiesInv(v, acc), NEW t
  PROVE  TiesInv(v, P!CompleteTie(acc, t))
  <1>1. /\ acc = [voices |-> acc.voices, ties |-> acc.ties]
        /\ SamePage(v, acc.voices) /\ IsSeq(acc.ties) /\ Shaped(acc.voices)
    BY DEF TiesInv, SamePage
  <1> DEFINE new == P!CompleteTie(acc, t)
             none == t.end # P!NoEnd \/ P!Continuations(acc.voices, t.start) = {}
  <1>2. CASE none
    <2>1. new = [acc EXCEPT !.ties = Append(@, t)]
      BY <1>2 DEF P!CompleteTie
    <2>2. new = [voices |-> acc.voices, ties |-> Append(acc.ties, t)]
      BY <1>1, <2>1
    <2> HIDE DEF new
    <2>3. TiesInv(v, new)
      BY <1>1, <2>2, AppendIsSeq DEF TiesInv
    <2>4. QED
      BY <2>3 DEF new
  <1>3. CASE ~none
    <2> DEFINE j == P!Continuation(acc.voices, t.start)
               note == P!At(acc.voices, j)
               alt == P!Alteration(P!At(acc.voices, t.start))
               more == [t EXCEPT !.end = j]
    <2>1. new = [voices |-> IF note.accid = P!None /\ note.ges = P!None
                     THEN Retuned(acc.voices, j, alt) ELSE acc.voices,
                 ties |-> Append(acc.ties, more)]
      BY <1>3 DEF P!CompleteTie, Retuned
    <2>2. j \in P!Ids(acc.voices)
      BY <1>1, <1>3, ContinuationIs
    <2> HIDE DEF new, j, alt, more
    <2>3. SamePage(acc.voices, Retuned(acc.voices, j, alt)) /\ SamePage(acc.voices, acc.voices)
      BY <1>1, <2>2, Retuning, SamePageSelf
    <2>4. SamePage(v, Retuned(acc.voices, j, alt))
      BY <1>1, <2>3, SamePageOn
    <2>5. new = [voices |-> new.voices, ties |-> new.ties] /\ new.ties = Append(acc.ties, more)
          /\ new.voices \in {Retuned(acc.voices, j, alt), acc.voices}
      BY <2>1
    <2>6. TiesInv(v, new)
      BY <1>1, <2>4, <2>5, AppendIsSeq DEF TiesInv
    <2>7. QED
      BY <2>6 DEF new
  <1>4. QED
    BY <1>2, <1>3

LEMMA TiesCompleted ==
  ASSUME NEW v, Shaped(v), NEW ties, IsSeq(ties)
  PROVE  SamePage(v, P!CompleteTies(v, ties).voices) /\ IsSeq(P!CompleteTies(v, ties).ties)
  <1> DEFINE n == Len(ties)
             done == CHOOSE done : done = [k \in 0..n |-> IF k = 0 THEN [voices |-> v, ties |-> <<>>]
                        ELSE P!CompleteTie(done[k - 1], ties[k])]
             T == {k \in 0..n : TiesInv(v, done[k])}
  <1>1. P!CompleteTies(v, ties) = done[n]
    BY DEF P!CompleteTies
  <1>2. n \in Nat
    BY AppendIsSeq
  <1>3. Ties(done, v, ties, n)
    BY <1>2, TiesChosen
  <1> HIDE DEF done
  <1>4. 0 \in T
    <2>1. done[0] = [voices |-> v, ties |-> <<>>]
      BY <1>3 DEF Ties
    <2>2. <<>> \in Seq({})
      OBVIOUS
    <2>3. IsSeq(<<>>)
      BY <2>2 DEF IsSeq
    <2>4. TiesInv(v, done[0])
      BY <2>1, <2>3, SamePageSelf DEF TiesInv
    <2>5. QED
      BY <1>2, <2>4
  <1>5. ASSUME NEW k \in 0..n, k \in T, k < n PROVE k + 1 \in T
    <2>1. k \in Nat /\ k + 1 \in 1..n /\ k + 1 \in 0..n /\ (k + 1) - 1 = k
      BY <1>2, <1>5
    <2>2. TiesInv(v, done[k])
      BY <1>5
    <2>3. done[k + 1] = P!CompleteTie(done[k], ties[k + 1])
      BY <1>3, <2>1 DEF Ties
    <2>4. TiesInv(v, done[k + 1])
      BY <2>2, <2>3, TieCompleted
    <2>5. QED
      BY <2>1, <2>4
  <1> HIDE DEF T
  <1>6. 0..n \subseteq T
    BY <1>2, <1>4, <1>5, Climb
  <1>7. n \in T
    BY <1>2, <1>6
  <1>8. QED
    BY <1>1, <1>7 DEF T, TiesInv

-----------------------------------------------------------------------------
(* Passes 1 to 7: the bars and their barlines.                              *)

IsBar(m) == m = [n |-> m.n, short |-> m.short, left |-> m.left, right |-> m.right,
                 ending |-> m.ending, meterDef |-> m.meterDef, meterSig |-> m.meterSig,
                 badJoin |-> m.badJoin]
Barred(ms) == IsSeq(ms) /\ \A i \in DOMAIN ms : IsBar(ms[i])

\* The same number of bars, between the same barlines.
SameBars(ms, ns) ==
    /\ Barred(ns) /\ DOMAIN ns = DOMAIN ms
    /\ \A i \in DOMAIN ms : ns[i].left = ms[i].left /\ ns[i].right = ms[i].right

LEMMA SeqIs ==
  ASSUME NEW s, IsSeq(s)
  PROVE  /\ Len(s) \in Nat /\ DOMAIN s = 1..Len(s) /\ s = [k \in DOMAIN s |-> s[k]]
  BY SequenceIs DEF IsSeq

\* A function on an initial segment of the positions is a sequence.
LEMMA FunctionIsSeq ==
  ASSUME NEW s, NEW n \in Nat, s = [k \in 1..n |-> s[k]]
  PROVE  IsSeq(s)
  <1>1. s \in [1..n -> {s[k] : k \in 1..n}]
    OBVIOUS
  <1>2. s \in Seq({s[k] : k \in 1..n})
    BY <1>1
  <1>3. QED
    BY <1>2 DEF IsSeq

\* Bars rewritten one by one, but for their barlines.
LEMMA BarsRewritten ==
  ASSUME NEW ms, Barred(ms), NEW ns, ns = [i \in DOMAIN ms |-> ns[i]],
         \A i \in DOMAIN ms : IsBar(ns[i]) /\ ns[i].left = ms[i].left /\ ns[i].right = ms[i].right
  PROVE  SameBars(ms, ns)
  <1>1. Len(ms) \in Nat /\ DOMAIN ms = 1..Len(ms)
    BY SeqIs DEF Barred
  <1>2. IsSeq(ns)
    BY <1>1, FunctionIsSeq
  <1>3. QED
    BY <1>2 DEF SameBars, Barred

LEMMA SameBarsSelf == ASSUME NEW ms, Barred(ms) PROVE SameBars(ms, ms)
  BY DEF SameBars

LEMMA SameBarsOn ==
  ASSUME NEW a, NEW b, NEW c, SameBars(a, b), SameBars(b, c)
  PROVE  SameBars(a, c)
  BY DEF SameBars

\* Another value of @metcon in one bar.
LEMMA ShortBar ==
  ASSUME NEW ms, Barred(ms), NEW c
  PROVE  SameBars(ms, [ms EXCEPT ![c].short = TRUE])
  <1> DEFINE ns == [ms EXCEPT ![c].short = TRUE]
  <1>1. ms = [i \in DOMAIN ms |-> ms[i]] /\ \A i \in DOMAIN ms : IsBar(ms[i])
    BY SeqIs DEF Barred
  <1>2. ns = [i \in DOMAIN ms |-> IF i = c THEN [ms[i] EXCEPT !.short = TRUE] ELSE ms[i]]
    BY <1>1
  <1> HIDE DEF ns
  <1>3. ns = [i \in DOMAIN ms |-> ns[i]]
    BY <1>2
  <1>4. ASSUME NEW i \in DOMAIN ms
        PROVE  IsBar(ns[i]) /\ ns[i].left = ms[i].left /\ ns[i].right = ms[i].right
    <2>1. ns[i] = ms[i] \/ ns[i] = [ms[i] EXCEPT !.short = TRUE]
      BY <1>2
    <2>2. IsBar(ms[i])
      BY <1>1
    <2>3. QED
      BY <2>1, <2>2 DEF IsBar
  <1>5. SameBars(ms, ns)
    BY <1>3, <1>4, BarsRewritten
  <1>6. QED
    BY <1>5 DEF ns

LEMMA PickupKeepsBars ==
  ASSUME NEW ms, Barred(ms)
  PROVE  SameBars(ms, M!PickupBar(ms))
  <1> DEFINE new == M!PickupBar(ms)
             ns == [i \in DOMAIN ms |->
            IF i = 1 THEN [ms[1] EXCEPT !.n = M!Number(0)]
            ELSE IF i \in M!Bare(ms) /\ (\E j \in M!Bare(ms) : j < i) /\ ms[i].n.kind = "int"
            THEN [ms[i] EXCEPT !.n.num = @ - 1]
            ELSE ms[i]]
  <1>1. new \in {ms, [ms EXCEPT ![1].short = TRUE], ns}
    BY DEF M!PickupBar
  <1>2. SameBars(ms, ms) /\ SameBars(ms, [ms EXCEPT ![1].short = TRUE])
    BY ShortBar, SameBarsSelf
  <1>3. SameBars(ms, ns)
    <2>1. ns = [i \in DOMAIN ms |-> ns[i]]
      OBVIOUS
    <2>2. ASSUME NEW i \in DOMAIN ms
          PROVE  IsBar(ns[i]) /\ ns[i].left = ms[i].left /\ ns[i].right = ms[i].right
      <3>1. IsBar(ms[i])
        BY DEF Barred
      <3>2. CASE i = 1
        <4>1. ns[i] = [ms[i] EXCEPT !.n = M!Number(0)]
          BY <3>2
        <4>2. QED
          BY <3>1, <4>1 DEF IsBar
      <3>3. CASE i # 1
        <4>1. ns[i] = ms[i] \/ \E x : ns[i] = [ms[i] EXCEPT !.n = x]
          <5>1. [ms[i] EXCEPT !.n.num = @ - 1] = [ms[i] EXCEPT !.n = [ms[i].n EXCEPT !.num = @ - 1]]
            BY <3>1 DEF IsBar
          <5>2. QED
            BY <3>3, <5>1
        <4> HIDE DEF ns
        <4>2. QED
          BY <3>1, <4>1 DEF IsBar
      <3>4. QED
        BY <3>2, <3>3
    <2> HIDE DEF ns
    <2>3. QED
      BY <2>1, <2>2, BarsRewritten
  <1> HIDE DEF ns, new
  <1>4. SameBars(ms, new)
    BY <1>1, <1>2, <1>3
  <1>5. QED
    BY <1>4 DEF new

LEMMA MetersKeepBars ==
  ASSUME NEW ms, Barred(ms)
  PROVE  SameBars(ms, M!MeterChanges(ms))
  <1> DEFINE ns == M!MeterChanges(ms)
  <1>1. \A i \in DOMAIN ms : IsBar(ms[i])
    BY DEF Barred
  <1>2. ns = [i \in DOMAIN ms |-> [ms[i] EXCEPT !.meterSig = @ \/ ms[i].meterDef]]
    BY DEF M!MeterChanges
  <1> HIDE DEF ns
  <1>3. \A i \in DOMAIN ms : IsBar(ns[i]) /\ ns[i].left = ms[i].left /\ ns[i].right = ms[i].right
    BY <1>1, <1>2 DEF IsBar
  <1>4. ns = [i \in DOMAIN ms |-> ns[i]]
    BY <1>2
  <1>5. SameBars(ms, ns)
    BY <1>3, <1>4, BarsRewritten
  <1>6. QED
    BY <1>5 DEF ns

LEMMA EndingsKeepBars ==
  ASSUME NEW ms, Barred(ms)
  PROVE  SameBars(ms, M!EndingBars(ms))
  <1> DEFINE ns == M!EndingBars(ms)
  <1>1. \A i \in DOMAIN ms : IsBar(ms[i])
    BY DEF Barred
  <1>2. ns = [i \in DOMAIN ms |-> IF ms[i].ending # 0 /\ ms[i].n.kind = "suffixed"
                THEN [ms[i] EXCEPT !.n.kind = "int"] ELSE ms[i]]
    BY DEF M!EndingBars
  <1> HIDE DEF ns
  <1>3. ASSUME NEW i \in DOMAIN ms
        PROVE  IsBar(ns[i]) /\ ns[i].left = ms[i].left /\ ns[i].right = ms[i].right
    <2>1. ns[i] = ms[i] \/ ns[i] = [ms[i] EXCEPT !.n = [ms[i].n EXCEPT !.kind = "int"]]
      BY <1>1, <1>2 DEF IsBar
    <2>2. IsBar(ms[i])
      BY <1>1
    <2>3. QED
      BY <2>1, <2>2 DEF IsBar
  <1>4. ns = [i \in DOMAIN ms |-> ns[i]]
    BY <1>2
  <1>5. SameBars(ms, ns)
    BY <1>3, <1>4, BarsRewritten
  <1>6. QED
    BY <1>5 DEF ns


\* f lists the open and the closed sections after each of the first n bars.
Sections(f, ms, n) ==
    /\ f = [k \in 0..n |-> f[k]] /\ f[0] = [open |-> <<>>, pairs |-> <<>>]
    /\ \A k \in 1..n : f[k] = M!SectionsAfter(f[k - 1], ms[k], k)

LEMMA SectionsExists ==
  ASSUME NEW ms, NEW n \in Nat
  PROVE  \E f : Sections(f, ms, n)
  <1> DEFINE T == {m \in 0..n : \E f : Sections(f, ms, m)}
  <1>1. 0 \in T
    <2>1. Sections([k \in 0..0 |-> [open |-> <<>>, pairs |-> <<>>]], ms, 0)
      BY DEF Sections
    <2>2. QED
      BY <2>1
  <1>2. ASSUME NEW m \in 0..n, m \in T, m < n PROVE m + 1 \in T
    <2>1. m \in Nat /\ 0 <= m + 1 /\ m + 1 \in 0..n
      BY <1>2
    <2>2. PICK f : Sections(f, ms, m)
      BY <1>2
    <2> DEFINE x == M!SectionsAfter(f[m], ms[(m + 1)], (m + 1))
    <2>3. PICK g : Longer(g, f, 0, m, x)
      BY <2>1, OneMoreResult
    <2>4. g = [k \in 0..(m + 1) |-> g[k]] /\ g[m + 1] = x /\ \A k \in 0..m : g[k] = f[k]
      BY <2>3 DEF Longer
    <2>a. g[m] = f[m] /\ g[0] = f[0]
      <3>1. m \in 0..m /\ 0 \in 0..m
        BY <2>1
      <3>2. QED
        BY <2>4, <3>1
    <2>5. g[0] = [open |-> <<>>, pairs |-> <<>>]
      BY <2>2, <2>a DEF Sections
    <2>6. ASSUME NEW k \in 1..(m + 1) PROVE g[k] = M!SectionsAfter(g[k - 1], ms[k], k)
      <3>1. CASE k = m + 1
        <4>1. k - 1 = m
          BY <2>1, <3>1
        <4>2. QED
          BY <2>4, <2>a, <3>1, <4>1
      <3>2. CASE k # m + 1
        <4>1. k \in 1..m /\ k \in 0..m /\ k - 1 \in 0..m
          BY <2>1, <3>2
        <4>2. f[k] = M!SectionsAfter(f[k - 1], ms[k], k)
          BY <2>2, <4>1 DEF Sections
        <4>3. QED
          BY <2>4, <4>1, <4>2
      <3>3. QED
        BY <3>1, <3>2
    <2> HIDE DEF x
    <2>7. Sections(g, ms, m + 1)
      BY <2>4, <2>5, <2>6 DEF Sections
    <2>8. QED
      BY <2>1, <2>7
  <1> HIDE DEF T
  <1>3. 0..n \subseteq T
    BY <1>1, <1>2, Climb
  <1>4. QED
    BY <1>3 DEF T

LEMMA SectionsChosen ==
  ASSUME NEW ms, NEW n \in Nat
  PROVE  LET f == CHOOSE f : f = [k \in 0..n |-> IF k = 0 THEN [open |-> <<>>, pairs |-> <<>>] ELSE M!SectionsAfter(f[k - 1], ms[k], k)]
         IN  Sections(f, ms, n)
  <1> DEFINE f == CHOOSE f : f = [k \in 0..n |-> IF k = 0 THEN [open |-> <<>>, pairs |-> <<>>] ELSE M!SectionsAfter(f[k - 1], ms[k], k)]
  <1>1. \E g : g = [k \in 0..n |-> IF k = 0 THEN [open |-> <<>>, pairs |-> <<>>] ELSE M!SectionsAfter(g[k - 1], ms[k], k)]
    <2>1. PICK g : Sections(g, ms, n)
      BY SectionsExists
    <2>2. ASSUME NEW k \in 0..n PROVE g[k] = IF k = 0 THEN [open |-> <<>>, pairs |-> <<>>] ELSE M!SectionsAfter(g[k - 1], ms[k], k)
      <3>1. k = 0 \/ k \in 1..n
        OBVIOUS
      <3>2. QED
        BY <2>1, <3>1 DEF Sections
    <2>3. g = [k \in 0..n |-> g[k]]
      BY <2>1 DEF Sections
    <2>4. QED
      BY <2>2, <2>3
  <1>2. f = [k \in 0..n |-> IF k = 0 THEN [open |-> <<>>, pairs |-> <<>>] ELSE M!SectionsAfter(f[k - 1], ms[k], k)]
    BY <1>1
  <1> HIDE DEF f
  <1>3. f = [k \in 0..n |-> f[k]]
    BY <1>2
  <1>4. f[0] = [open |-> <<>>, pairs |-> <<>>] /\ \A k \in 1..n : f[k] = M!SectionsAfter(f[k - 1], ms[k], k)
    BY <1>2
  <1>5. Sections(f, ms, n)
    BY <1>3, <1>4 DEF Sections
  <1>6. QED
    BY <1>5 DEF f

LEMMA SectionsAreListed ==
  ASSUME NEW ms, Barred(ms)
  PROVE  Len(M!RepeatSections(ms)) \in Nat
  <1> DEFINE n == Len(ms)
             walk == CHOOSE walk : walk = [k \in 0..n |-> IF k = 0 THEN [open |-> <<>>, pairs |-> <<>>]
                        ELSE M!SectionsAfter(walk[k - 1], ms[k], k)]
             Holds(acc) == acc = [open |-> acc.open, pairs |-> acc.pairs] /\ IsSeq(acc.pairs)
             T == {k \in 0..n : Holds(walk[k])}
  <1>1. M!RepeatSections(ms) = walk[n].pairs
    BY DEF M!RepeatSections
  <1>2. n \in Nat
    BY SeqIs DEF Barred
  <1>3. Sections(walk, ms, n)
    BY <1>2, SectionsChosen
  <1> HIDE DEF walk
  <1>4. 0 \in T
    <2>1. walk[0] = [open |-> <<>>, pairs |-> <<>>]
      BY <1>3 DEF Sections
    <2>2. <<>> \in Seq({})
      OBVIOUS
    <2>3. IsSeq(<<>>)
      BY <2>2 DEF IsSeq
    <2>4. Holds(walk[0])
      BY <2>1, <2>3
    <2>5. QED
      BY <1>2, <2>4
  <1>5. ASSUME NEW k \in 0..n, k \in T, k < n PROVE k + 1 \in T
    <2>1. k \in Nat /\ k + 1 \in 1..n /\ k + 1 \in 0..n /\ (k + 1) - 1 = k
      BY <1>2, <1>5
    <2> DEFINE acc == walk[k]
               m == ms[k + 1]
               open == IF M!Opens(m) THEN Append(acc.open, k + 1) ELSE acc.open
               left == M!Popped(open)
               pair == <<IF open = <<>> THEN 0 ELSE M!Last(open), k + 1>>
               new == walk[k + 1]
    <2>2. acc = [open |-> acc.open, pairs |-> acc.pairs] /\ IsSeq(acc.pairs)
      BY <1>5
    <2>3. new = M!SectionsAfter(acc, m, k + 1)
      BY <1>3, <2>1 DEF Sections
    <2>4. new = IF ~M!Closes(m) THEN [acc EXCEPT !.open = open]
                ELSE [open |-> IF m.right = "rptboth" THEN Append(left, k + 1) ELSE left,
                      pairs |-> Append(acc.pairs, pair)]
      BY <2>3 DEF M!SectionsAfter
    <2>5. IsSeq(Append(acc.pairs, pair))
      BY <2>2, AppendIsSeq
    <2> HIDE DEF acc, m, open, left, pair, new
    <2>6. Holds(new)
      BY <2>2, <2>4, <2>5
    <2>7. QED
      BY <2>1, <2>6 DEF new
  <1> HIDE DEF T
  <1>6. 0..n \subseteq T
    BY <1>2, <1>4, <1>5, Climb
  <1>7. n \in T
    BY <1>2, <1>6
  <1>8. QED
    BY <1>1, <1>7, AppendIsSeq DEF T

\* f lists the bars after each of the first n closes.
Splits(f, ms, pairs, n) ==
    /\ f = [k \in 0..n |-> f[k]] /\ f[0] = ms
    /\ \A k \in 1..n : f[k] = M!SplitAt(f[k - 1], pairs[k])

LEMMA SplitsExists ==
  ASSUME NEW ms, NEW pairs, NEW n \in Nat
  PROVE  \E f : Splits(f, ms, pairs, n)
  <1> DEFINE T == {m \in 0..n : \E f : Splits(f, ms, pairs, m)}
  <1>1. 0 \in T
    <2>1. Splits([k \in 0..0 |-> ms], ms, pairs, 0)
      BY DEF Splits
    <2>2. QED
      BY <2>1
  <1>2. ASSUME NEW m \in 0..n, m \in T, m < n PROVE m + 1 \in T
    <2>1. m \in Nat /\ 0 <= m + 1 /\ m + 1 \in 0..n
      BY <1>2
    <2>2. PICK f : Splits(f, ms, pairs, m)
      BY <1>2
    <2> DEFINE x == M!SplitAt(f[m], pairs[(m + 1)])
    <2>3. PICK g : Longer(g, f, 0, m, x)
      BY <2>1, OneMoreResult
    <2>4. g = [k \in 0..(m + 1) |-> g[k]] /\ g[m + 1] = x /\ \A k \in 0..m : g[k] = f[k]
      BY <2>3 DEF Longer
    <2>a. g[m] = f[m] /\ g[0] = f[0]
      <3>1. m \in 0..m /\ 0 \in 0..m
        BY <2>1
      <3>2. QED
        BY <2>4, <3>1
    <2>5. g[0] = ms
      BY <2>2, <2>a DEF Splits
    <2>6. ASSUME NEW k \in 1..(m + 1) PROVE g[k] = M!SplitAt(g[k - 1], pairs[k])
      <3>1. CASE k = m + 1
        <4>1. k - 1 = m
          BY <2>1, <3>1
        <4>2. QED
          BY <2>4, <2>a, <3>1, <4>1
      <3>2. CASE k # m + 1
        <4>1. k \in 1..m /\ k \in 0..m /\ k - 1 \in 0..m
          BY <2>1, <3>2
        <4>2. f[k] = M!SplitAt(f[k - 1], pairs[k])
          BY <2>2, <4>1 DEF Splits
        <4>3. QED
          BY <2>4, <4>1, <4>2
      <3>3. QED
        BY <3>1, <3>2
    <2> HIDE DEF x
    <2>7. Splits(g, ms, pairs, m + 1)
      BY <2>4, <2>5, <2>6 DEF Splits
    <2>8. QED
      BY <2>1, <2>7
  <1> HIDE DEF T
  <1>3. 0..n \subseteq T
    BY <1>1, <1>2, Climb
  <1>4. QED
    BY <1>3 DEF T

LEMMA SplitsChosen ==
  ASSUME NEW ms, NEW pairs, NEW n \in Nat
  PROVE  LET f == CHOOSE f : f = [k \in 0..n |-> IF k = 0 THEN ms ELSE M!SplitAt(f[k - 1], pairs[k])]
         IN  Splits(f, ms, pairs, n)
  <1> DEFINE f == CHOOSE f : f = [k \in 0..n |-> IF k = 0 THEN ms ELSE M!SplitAt(f[k - 1], pairs[k])]
  <1>1. \E g : g = [k \in 0..n |-> IF k = 0 THEN ms ELSE M!SplitAt(g[k - 1], pairs[k])]
    <2>1. PICK g : Splits(g, ms, pairs, n)
      BY SplitsExists
    <2>2. ASSUME NEW k \in 0..n PROVE g[k] = IF k = 0 THEN ms ELSE M!SplitAt(g[k - 1], pairs[k])
      <3>1. k = 0 \/ k \in 1..n
        OBVIOUS
      <3>2. QED
        BY <2>1, <3>1 DEF Splits
    <2>3. g = [k \in 0..n |-> g[k]]
      BY <2>1 DEF Splits
    <2>4. QED
      BY <2>2, <2>3
  <1>2. f = [k \in 0..n |-> IF k = 0 THEN ms ELSE M!SplitAt(f[k - 1], pairs[k])]
    BY <1>1
  <1> HIDE DEF f
  <1>3. f = [k \in 0..n |-> f[k]]
    BY <1>2
  <1>4. f[0] = ms /\ \A k \in 1..n : f[k] = M!SplitAt(f[k - 1], pairs[k])
    BY <1>2
  <1>5. Splits(f, ms, pairs, n)
    BY <1>3, <1>4 DEF Splits
  <1>6. QED
    BY <1>5 DEF f

LEMMA SplitsKeepBars ==
  ASSUME NEW ms, Barred(ms)
  PROVE  SameBars(ms, M!SplitMeasures(ms))
  <1> DEFINE pairs == M!RepeatSections(ms)
             n == Len(pairs)
             done == CHOOSE done : done = [k \in 0..n |-> IF k = 0 THEN ms
                        ELSE M!SplitAt(done[k - 1], pairs[k])]
             T == {k \in 0..n : SameBars(ms, done[k])}
  <1>1. M!SplitMeasures(ms) = done[n]
    BY DEF M!SplitMeasures, M!SplitUpTo
  <1>2. n \in Nat
    BY SectionsAreListed
  <1> HIDE DEF pairs
  <1>3. Splits(done, ms, pairs, n)
    BY <1>2, SplitsChosen
  <1> HIDE DEF done
  <1>4. 0 \in T
    BY <1>2, <1>3, SameBarsSelf DEF Splits
  <1>5. ASSUME NEW k \in 0..n, k \in T, k < n PROVE k + 1 \in T
    <2>1. k \in Nat /\ k + 1 \in 1..n /\ k + 1 \in 0..n /\ (k + 1) - 1 = k
      BY <1>2, <1>5
    <2>2. SameBars(ms, done[k]) /\ Barred(done[k])
      BY <1>5 DEF SameBars
    <2>3. done[k + 1] = M!SplitAt(done[k], pairs[k + 1])
      BY <1>3, <2>1 DEF Splits
    <2> DEFINE c == M!Complement(done[k], pairs[k + 1])
    <2>4. done[k + 1] \in {[done[k] EXCEPT ![c].short = TRUE], done[k]}
      BY <2>3 DEF M!SplitAt
    <2> HIDE DEF c
    <2>5. SameBars(done[k], [done[k] EXCEPT ![c].short = TRUE]) /\ SameBars(done[k], done[k])
      BY <2>2, ShortBar, SameBarsSelf
    <2>6. SameBars(ms, done[k + 1])
      BY <2>2, <2>4, <2>5, SameBarsOn
    <2>7. QED
      BY <2>1, <2>6
  <1> HIDE DEF T
  <1>6. 0..n \subseteq T
    BY <1>2, <1>4, <1>5, Climb
  <1>7. n \in T
    BY <1>2, <1>6
  <1>8. QED
    BY <1>1, <1>7 DEF T

-----------------------------------------------------------------------------
(* Pass 0: corrections.                                                     *)

Whole(s) ==
    /\ s = [measures |-> s.measures, endings |-> s.endings, voices |-> s.voices, ties |-> s.ties,
            keys |-> s.keys, corrections |-> s.corrections, staff |-> s.staff, header |-> s.header]
    /\ Barred(s.measures) /\ Shaped(s.voices) /\ IsSeq(s.ties)
    /\ s.corrections \in Seq(Correction)

\* What no pass after the overlay changes.
SameText(s, t) ==
    /\ SameBars(s.measures, t.measures) /\ SamePage(s.voices, t.voices)
    /\ t.corrections = s.corrections

LEMMA ScoresAreWhole == ASSUME NEW s, IsScore(s) PROVE Whole(s)
  <1>1. s = [measures |-> s.measures, endings |-> s.endings, voices |-> s.voices, ties |-> s.ties,
             keys |-> s.keys, corrections |-> s.corrections, staff |-> s.staff, header |-> s.header]
    BY DEF IsScore
  <1>2. Barred(s.measures)
    <2>1. s.measures \in Seq(M!Measure)
      BY DEF IsScore
    <2>2. \A i \in DOMAIN s.measures : s.measures[i] \in M!Measure
      BY <2>1, SequenceIs
    <2>3. \A m \in M!Measure : IsBar(m)
      BY DEF M!Measure, IsBar
    <2>4. QED
      BY <2>1, <2>2, <2>3 DEF Barred, IsSeq
  <1>3. Shaped(s.voices) /\ IsSeq(s.ties) /\ s.corrections \in Seq(Correction)
    BY VoicesAreShaped DEF IsScore, IsSeq
  <1>4. QED
    BY <1>1, <1>2, <1>3 DEF Whole

\* A printed correction finds on the same text what it found before.
LEMMA SameObjection ==
  ASSUME NEW s, NEW t, SameText(s, t), NEW c, c.field # "ges"
  PROVE  Objection(t, c) = Objection(s, c)
  <1>1. /\ DOMAIN t.measures = DOMAIN s.measures /\ P!Ids(t.voices) = P!Ids(s.voices)
        /\ \A i \in DOMAIN s.measures : t.measures[i].left = s.measures[i].left
                                        /\ t.measures[i].right = s.measures[i].right
        /\ \A i \in P!Ids(s.voices) : P!At(t.voices, i).accid = P!At(s.voices, i).accid
    BY DEF SameText, SameBars, SamePage, SameGrid
  <1>2. Resolves(t, c) <=> Resolves(s, c)
    BY <1>1 DEF Resolves
  <1>3. CASE c.field \in Fields /\ Fits(c) /\ Resolves(s, c)
    <2>1. ValueAt(t, c) = ValueAt(s, c)
      <3>1. CASE c.field = "accid"
        BY <1>1, <1>3, <3>1 DEF ValueAt, Resolves, Fits
      <3>2. CASE c.field = "repeat-start"
        BY <1>1, <1>3, <3>2 DEF ValueAt, Resolves, Fits
      <3>3. CASE c.field = "repeat-end"
        BY <1>1, <1>3, <3>3 DEF ValueAt, Resolves, Fits
      <3>4. QED
        BY <1>3, <3>1, <3>2, <3>3 DEF Fields
    <2>2. QED
      BY <1>2, <2>1 DEF Objection
  <1>4. CASE ~(c.field \in Fields /\ Fits(c) /\ Resolves(s, c))
    BY <1>2, <1>4 DEF Objection
  <1>5. QED
    BY <1>3, <1>4

\* A gestural correction leaves the text.
LEMMA GesturalCorrection ==
  ASSUME NEW s, Whole(s), NEW c, c.field = "ges"
  PROVE  Whole(Correct(s, c)) /\ SameText(s, Correct(s, c))
  <1>1. CASE Objection(s, c) = "none"
    <2>1. c.note \in P!Ids(s.voices)
      BY <1>1 DEF Objection, Fits, Resolves
    <2>2. Correct(s, c) = [s EXCEPT !.voices = Retuned(s.voices, c.note, c.corrected)]
      BY <1>1 DEF Correct, Corrected, Retuned
    <2> DEFINE w == Retuned(s.voices, c.note, c.corrected)
               t == [s EXCEPT !.voices = w]
    <2>3. SamePage(s.voices, w) /\ Shaped(w)
      BY <2>1, Retuning DEF Whole, SamePage
    <2> HIDE DEF w
    <2>4. /\ t = [measures |-> s.measures, endings |-> s.endings, voices |-> w, ties |-> s.ties,
            keys |-> s.keys, corrections |-> s.corrections, staff |-> s.staff, header |-> s.header]
      BY DEF Whole
    <2> HIDE DEF t
    <2>5. Whole(t) /\ SameText(s, t)
      BY <2>3, <2>4, SameBarsSelf DEF Whole, SameText
    <2>6. QED
      BY <2>2, <2>5 DEF t, w
  <1>2. CASE Objection(s, c) # "none"
    <2>1. Correct(s, c) = s
      BY <1>2 DEF Correct
    <2>2. QED
      BY <2>1, SameBarsSelf, SamePageSelf DEF Whole, SameText
  <1>3. QED
    BY <1>1, <1>2

WithLeft(ms, m, x) == [ms EXCEPT ![m].left = x]
WithRight(ms, m, x) == [ms EXCEPT ![m].right = x]

LEMMA BarlineCorrected ==
  ASSUME NEW ms, Barred(ms), NEW m \in DOMAIN ms, NEW x
  PROVE  /\ Barred(WithLeft(ms, m, x)) /\ DOMAIN WithLeft(ms, m, x) = DOMAIN ms
         /\ WithLeft(ms, m, x)[m].left = x /\ WithLeft(ms, m, x)[m].right = ms[m].right
         /\ \A i \in DOMAIN ms : i # m => WithLeft(ms, m, x)[i] = ms[i]
         /\ Barred(WithRight(ms, m, x)) /\ DOMAIN WithRight(ms, m, x) = DOMAIN ms
         /\ WithRight(ms, m, x)[m].right = x /\ WithRight(ms, m, x)[m].left = ms[m].left
         /\ \A i \in DOMAIN ms : i # m => WithRight(ms, m, x)[i] = ms[i]
  <1>1. /\ ms = [i \in DOMAIN ms |-> ms[i]] /\ \A i \in DOMAIN ms : IsBar(ms[i])
        /\ Len(ms) \in Nat /\ DOMAIN ms = 1..Len(ms)
    BY SeqIs DEF Barred
  <1> DEFINE a == [ms[m] EXCEPT !.left = x]
             b == [ms[m] EXCEPT !.right = x]
             ls == [i \in DOMAIN ms |-> IF i = m THEN a ELSE ms[i]]
             rs == [i \in DOMAIN ms |-> IF i = m THEN b ELSE ms[i]]
  <1>2. IsBar(ms[m])
    BY <1>1
  <1>3. IsBar(a) /\ a.left = x /\ a.right = ms[m].right
    BY <1>2 DEF IsBar
  <1>4. IsBar(b) /\ b.right = x /\ b.left = ms[m].left
    BY <1>2 DEF IsBar
  <1>5. WithLeft(ms, m, x) = ls /\ WithRight(ms, m, x) = rs
    BY <1>1 DEF WithLeft, WithRight
  <1> HIDE DEF a, b
  <1>6. IsSeq(ls) /\ IsSeq(rs)
    BY <1>1, FunctionIsSeq
  <1>7. Barred(ls) /\ Barred(rs)
    BY <1>1, <1>3, <1>4, <1>6 DEF Barred
  <1>8. QED
    BY <1>3, <1>4, <1>5, <1>7


\* A correction of what is printed puts its value, and changes nothing that
\* another target is corrected in.
LEMMA PrintedCorrection ==
  ASSUME NEW s, Whole(s), NEW c, Objection(s, c) = "none", c.field # "ges"
  PROVE  LET t == Corrected(s, c) IN
         /\ Whole(t) /\ t.corrections = s.corrections
         /\ \A d : Resolves(t, d) <=> Resolves(s, d)
         /\ ValueAt(t, c) = c.corrected
         /\ \A d : d.field # "ges" /\ d.field \in Fields /\ Fits(d) /\ Resolves(s, d) /\ ~SameTarget(d, c)
              => ValueAt(t, d) = ValueAt(s, d)
  <1> DEFINE t == Corrected(s, c)
  <1>1. c.field \in Fields /\ Fits(c) /\ Resolves(s, c)
    BY DEF Objection
  <1>2. CASE c.field = "accid"
    <2> DEFINE i == c.note
               old == P!At(s.voices, i)
               x == [old EXCEPT !.accid = c.corrected]
               w == P!Put(s.voices, i, x)
    <2>1. i \in P!Ids(s.voices)
      BY <1>1, <1>2 DEF Fits, Resolves
    <2>2. IsNote(old)
      BY <2>1, IdIs DEF Whole
    <2>3. IsNote(x) /\ x.accid = c.corrected
      BY <2>2 DEF IsNote
    <2>4. t = [s EXCEPT !.voices = w]
      BY <1>2 DEF Corrected
    <2> HIDE DEF x
    <2>5. /\ Shaped(w) /\ SameGrid(s.voices, w) /\ P!At(w, i) = x
          /\ \A j \in P!Ids(s.voices) : j # i => P!At(w, j) = P!At(s.voices, j)
      BY <2>1, <2>3, PutNote DEF Whole
    <2> HIDE DEF w, t
    <2>6. t = [measures |-> s.measures, endings |-> s.endings, voices |-> w, ties |-> s.ties,
               keys |-> s.keys, corrections |-> s.corrections, staff |-> s.staff, header |-> s.header]
      BY <2>4 DEF Whole
    <2>7. Whole(t) /\ t.corrections = s.corrections
      BY <2>5, <2>6 DEF Whole
    <2>8. t.measures = s.measures /\ t.voices = w /\ P!Ids(w) = P!Ids(s.voices)
      BY <2>5, <2>6 DEF SameGrid
    <2>9. \A d : Resolves(t, d) <=> Resolves(s, d)
      BY <2>8 DEF Resolves
    <2>10. ValueAt(t, c) = c.corrected
      BY <1>2, <2>3, <2>5, <2>8 DEF ValueAt
    <2>11. ASSUME NEW d, d.field # "ges", d.field \in Fields, Fits(d), Resolves(s, d), ~SameTarget(d, c)
           PROVE  ValueAt(t, d) = ValueAt(s, d)
      <3>1. CASE d.field = "accid"
        <4>1. d.note # i /\ d.note \in P!Ids(s.voices)
          BY <1>2, <2>11, <3>1 DEF SameTarget, Fits, Resolves
        <4>2. QED
          BY <2>5, <2>8, <3>1, <4>1 DEF ValueAt
      <3>2. CASE d.field = "repeat-start"
        BY <2>8, <3>2 DEF ValueAt
      <3>3. CASE d.field = "repeat-end"
        BY <2>8, <3>3 DEF ValueAt
      <3>4. QED
        BY <2>11, <3>1, <3>2, <3>3 DEF Fields
    <2>12. QED
      BY <2>7, <2>9, <2>10, <2>11 DEF t
  <1>3. CASE c.field = "repeat-start" \/ c.field = "repeat-end"
    <2> DEFINE m == c.mc
               ls == WithLeft(s.measures, m, c.corrected)
               rs == WithRight(s.measures, m, c.corrected)
               ms == IF c.field = "repeat-start" THEN ls ELSE rs
    <2>1. m \in DOMAIN s.measures /\ Barred(s.measures)
      BY <1>1, <1>3 DEF Fits, Resolves, Whole
    <2>2. t = [s EXCEPT !.measures = ms]
      <3>1. CASE c.field = "repeat-start"
        BY <3>1 DEF Corrected, WithLeft
      <3>2. CASE c.field = "repeat-end"
        BY <3>2 DEF Corrected, WithRight
      <3>3. QED
        BY <1>3, <3>1, <3>2
    <2>3. /\ Barred(ls) /\ DOMAIN ls = DOMAIN s.measures /\ ls[m].left = c.corrected
          /\ ls[m].right = s.measures[m].right
          /\ \A i \in DOMAIN s.measures : i # m => ls[i] = s.measures[i]
      BY <2>1, BarlineCorrected
    <2>4. /\ Barred(rs) /\ DOMAIN rs = DOMAIN s.measures /\ rs[m].right = c.corrected
          /\ rs[m].left = s.measures[m].left
          /\ \A i \in DOMAIN s.measures : i # m => rs[i] = s.measures[i]
      BY <2>1, BarlineCorrected
    <2> HIDE DEF ls, rs, t
    <2>5. Barred(ms) /\ DOMAIN ms = DOMAIN s.measures
      BY <2>3, <2>4
    <2>6. c.field = "repeat-start" => ms = ls
      OBVIOUS
    <2>7. c.field = "repeat-end" => ms = rs
      OBVIOUS
    <2> HIDE DEF ms
    <2>8. t = [measures |-> ms, endings |-> s.endings, voices |-> s.voices, ties |-> s.ties,
               keys |-> s.keys, corrections |-> s.corrections, staff |-> s.staff, header |-> s.header]
      BY <2>2 DEF Whole
    <2>9. Whole(t) /\ t.corrections = s.corrections
      BY <2>5, <2>8 DEF Whole
    <2>10. t.measures = ms /\ t.voices = s.voices
      BY <2>8
    <2>11. \A d : Resolves(t, d) <=> Resolves(s, d)
      BY <2>5, <2>10 DEF Resolves
    <2>12. ValueAt(t, c) = c.corrected
      <3>1. CASE c.field = "repeat-start"
        BY <2>3, <2>6, <2>10, <3>1 DEF ValueAt
      <3>2. CASE c.field = "repeat-end"
        BY <2>4, <2>7, <2>10, <3>2 DEF ValueAt
      <3>3. QED
        BY <1>3, <3>1, <3>2
    <2>13. ASSUME NEW d, d.field # "ges", d.field \in Fields, Fits(d), Resolves(s, d), ~SameTarget(d, c)
           PROVE  ValueAt(t, d) = ValueAt(s, d)
      <3>1. CASE d.field = "accid"
        BY <2>10, <3>1 DEF ValueAt
      <3>2. CASE d.field \in {"repeat-start", "repeat-end"}
        <4>1. d.mc \in DOMAIN s.measures /\ (d.field = c.field => d.mc # m)
          BY <2>13, <3>2 DEF Fits, Resolves, SameTarget
        <4>2. CASE d.field = "repeat-start"
          <5>1. ms[d.mc].left = s.measures[d.mc].left
            BY <1>3, <2>3, <2>4, <2>6, <2>7, <4>1, <4>2
          <5>2. QED
            BY <2>10, <4>2, <5>1 DEF ValueAt
        <4>3. CASE d.field = "repeat-end"
          <5>1. ms[d.mc].right = s.measures[d.mc].right
            BY <1>3, <2>3, <2>4, <2>6, <2>7, <4>1, <4>3
          <5>2. QED
            BY <2>10, <4>3, <5>1 DEF ValueAt
        <4>4. QED
          BY <3>2, <4>2, <4>3
      <3>3. QED
        BY <2>13, <3>1, <3>2 DEF Fields
    <2>14. QED
      BY <2>9, <2>11, <2>12, <2>13 DEF t
  <1>4. QED
    BY <1>1, <1>2, <1>3 DEF Fields

\* Every printed correction finds a reason to stay away.
Quiet(s) == \A k \in DOMAIN s.corrections :
    s.corrections[k].field # "ges" => Objection(s, s.corrections[k]) # "none"

\* One correction: it is not made twice, and those that it does not take back
\* stay made.
LEMMA CorrectionMade ==
  ASSUME NEW s, Whole(s), NEW c
  PROVE  LET t == Correct(s, c) IN
         /\ Whole(t) /\ t.corrections = s.corrections
         /\ c.field # "ges" => Objection(t, c) # "none"
         /\ \A d : d.field # "ges" /\ Objection(s, d) # "none"
                   /\ (SameTarget(d, c) => c.corrected # d.expected)
               => Objection(t, d) # "none"
         /\ Quiet(s) /\ (c.field # "ges" => Objection(s, c) # "none") => Quiet(t)
  <1> DEFINE t == Correct(s, c)
  <1>1. CASE c.field = "ges"
    <2>1. Whole(t) /\ SameText(s, t)
      BY <1>1, GesturalCorrection
    <2> HIDE DEF t
    <2>2. \A d : d.field # "ges" => Objection(t, d) = Objection(s, d)
      BY <2>1, SameObjection
    <2>3. t.corrections = s.corrections
      BY <2>1 DEF SameText
    <2>4. Quiet(s) => Quiet(t)
      BY <2>2, <2>3 DEF Quiet
    <2>5. QED
      BY <1>1, <2>1, <2>2, <2>3, <2>4 DEF t
  <1>2. CASE Objection(s, c) # "none"
    <2>1. t = s
      BY <1>2 DEF Correct
    <2>2. QED
      BY <1>2, <2>1
  <1>3. CASE c.field # "ges" /\ Objection(s, c) = "none"
    <2>1. t = Corrected(s, c)
      BY <1>3 DEF Correct
    <2>2. /\ Whole(t) /\ t.corrections = s.corrections
          /\ \A d : Resolves(t, d) <=> Resolves(s, d)
          /\ ValueAt(t, c) = c.corrected
          /\ \A d : d.field # "ges" /\ d.field \in Fields /\ Fits(d) /\ Resolves(s, d) /\ ~SameTarget(d, c)
               => ValueAt(t, d) = ValueAt(s, d)
      BY <1>3, <2>1, PrintedCorrection
    <2> HIDE DEF t
    <2>3. Objection(t, c) # "none"
      BY <2>2 DEF Objection
    <2>4. ASSUME NEW d, d.field # "ges", Objection(s, d) # "none",
                 SameTarget(d, c) => c.corrected # d.expected
          PROVE  Objection(t, d) # "none"
      <3>1. CASE ~(d.field \in Fields /\ Fits(d) /\ Resolves(s, d))
        BY <2>2, <3>1 DEF Objection
      <3>2. CASE d.field \in Fields /\ Fits(d) /\ Resolves(s, d) /\ ~SameTarget(d, c)
        <4>1. ValueAt(t, d) = ValueAt(s, d)
          BY <2>2, <2>4, <3>2
        <4>2. Objection(t, d) = Objection(s, d)
          BY <2>2, <4>1 DEF Objection
        <4>3. QED
          BY <2>4, <4>2
      <3>3. CASE d.field \in Fields /\ Fits(d) /\ Resolves(s, d) /\ SameTarget(d, c)
        <4>1. d.field = c.field /\ IF d.field \in {"accid", "ges"} THEN d.note = c.note ELSE d.mc = c.mc
          BY <3>3 DEF SameTarget
        <4>2. ValueAt(t, d) = ValueAt(t, c)
          <5>1. CASE d.field = "accid"
            BY <4>1, <5>1 DEF ValueAt
          <5>2. CASE d.field = "repeat-start"
            BY <4>1, <5>2 DEF ValueAt
          <5>3. CASE d.field = "repeat-end"
            BY <4>1, <5>3 DEF ValueAt
          <5>4. QED
            BY <2>4, <3>3, <5>1, <5>2, <5>3 DEF Fields
        <4>3. ValueAt(t, d) # d.expected
          BY <2>2, <2>4, <3>3, <4>2
        <4>4. QED
          BY <4>3 DEF Objection
      <3>4. QED
        BY <3>1, <3>2, <3>3
    <2>5. QED
      BY <1>3, <2>2, <2>3, <2>4 DEF t
  <1>4. QED
    BY <1>1, <1>2, <1>3

\* f lists the score after each of the first n corrections.
Overlays(f, s, cs, n) ==
    /\ f = [k \in 0..n |-> f[k]] /\ f[0] = s
    /\ \A k \in 1..n : f[k] = Correct(f[k - 1], cs[k])

LEMMA OverlaysExists ==
  ASSUME NEW s, NEW cs, NEW n \in Nat
  PROVE  \E f : Overlays(f, s, cs, n)
  <1> DEFINE T == {m \in 0..n : \E f : Overlays(f, s, cs, m)}
  <1>1. 0 \in T
    <2>1. Overlays([k \in 0..0 |-> s], s, cs, 0)
      BY DEF Overlays
    <2>2. QED
      BY <2>1
  <1>2. ASSUME NEW m \in 0..n, m \in T, m < n PROVE m + 1 \in T
    <2>1. m \in Nat /\ 0 <= m + 1 /\ m + 1 \in 0..n
      BY <1>2
    <2>2. PICK f : Overlays(f, s, cs, m)
      BY <1>2
    <2> DEFINE x == Correct(f[m], cs[(m + 1)])
    <2>3. PICK g : Longer(g, f, 0, m, x)
      BY <2>1, OneMoreResult
    <2>4. g = [k \in 0..(m + 1) |-> g[k]] /\ g[m + 1] = x /\ \A k \in 0..m : g[k] = f[k]
      BY <2>3 DEF Longer
    <2>a. g[m] = f[m] /\ g[0] = f[0]
      <3>1. m \in 0..m /\ 0 \in 0..m
        BY <2>1
      <3>2. QED
        BY <2>4, <3>1
    <2>5. g[0] = s
      BY <2>2, <2>a DEF Overlays
    <2>6. ASSUME NEW k \in 1..(m + 1) PROVE g[k] = Correct(g[k - 1], cs[k])
      <3>1. CASE k = m + 1
        <4>1. k - 1 = m
          BY <2>1, <3>1
        <4>2. QED
          BY <2>4, <2>a, <3>1, <4>1
      <3>2. CASE k # m + 1
        <4>1. k \in 1..m /\ k \in 0..m /\ k - 1 \in 0..m
          BY <2>1, <3>2
        <4>2. f[k] = Correct(f[k - 1], cs[k])
          BY <2>2, <4>1 DEF Overlays
        <4>3. QED
          BY <2>4, <4>1, <4>2
      <3>3. QED
        BY <3>1, <3>2
    <2> HIDE DEF x
    <2>7. Overlays(g, s, cs, m + 1)
      BY <2>4, <2>5, <2>6 DEF Overlays
    <2>8. QED
      BY <2>1, <2>7
  <1> HIDE DEF T
  <1>3. 0..n \subseteq T
    BY <1>1, <1>2, Climb
  <1>4. QED
    BY <1>3 DEF T

LEMMA OverlaysChosen ==
  ASSUME NEW s, NEW cs, NEW n \in Nat
  PROVE  LET f == CHOOSE f : f = [k \in 0..n |-> IF k = 0 THEN s ELSE Correct(f[k - 1], cs[k])]
         IN  Overlays(f, s, cs, n)
  <1> DEFINE f == CHOOSE f : f = [k \in 0..n |-> IF k = 0 THEN s ELSE Correct(f[k - 1], cs[k])]
  <1>1. \E g : g = [k \in 0..n |-> IF k = 0 THEN s ELSE Correct(g[k - 1], cs[k])]
    <2>1. PICK g : Overlays(g, s, cs, n)
      BY OverlaysExists
    <2>2. ASSUME NEW k \in 0..n PROVE g[k] = IF k = 0 THEN s ELSE Correct(g[k - 1], cs[k])
      <3>1. k = 0 \/ k \in 1..n
        OBVIOUS
      <3>2. QED
        BY <2>1, <3>1 DEF Overlays
    <2>3. g = [k \in 0..n |-> g[k]]
      BY <2>1 DEF Overlays
    <2>4. QED
      BY <2>2, <2>3
  <1>2. f = [k \in 0..n |-> IF k = 0 THEN s ELSE Correct(f[k - 1], cs[k])]
    BY <1>1
  <1> HIDE DEF f
  <1>3. f = [k \in 0..n |-> f[k]]
    BY <1>2
  <1>4. f[0] = s /\ \A k \in 1..n : f[k] = Correct(f[k - 1], cs[k])
    BY <1>2
  <1>5. Overlays(f, s, cs, n)
    BY <1>3, <1>4 DEF Overlays
  <1>6. QED
    BY <1>5 DEF f

\* No correction of the list restores what an earlier one expects.
Unreversed(cs) == \A k \in DOMAIN cs : \A h \in 1..k - 1 :
    SameTarget(cs[h], cs[k]) => cs[k].corrected # cs[h].expected

\* The score t after the first k corrections.
OverlayInv(s, t, k) ==
    LET cs == s.corrections IN
    /\ Whole(t) /\ t.corrections = cs
    /\ Unreversed(cs) => \A h \in 1..k : cs[h].field # "ges" => Objection(t, cs[h]) # "none"
    /\ Quiet(s) => Quiet(t)

LEMMA OverlayHolds ==
  ASSUME NEW s, Whole(s), NEW m \in 0..Len(s.corrections)
  PROVE  OverlayInv(s, CorrectedUpTo(s, m), m)
  <1> DEFINE cs == s.corrections
             done == CHOOSE done : done = [k \in 0..m |-> IF k = 0 THEN s ELSE Correct(done[k - 1], cs[k])]
             T == {k \in 0..m : OverlayInv(s, done[k], k)}
  <1>1. CorrectedUpTo(s, m) = done[m]
    BY DEF CorrectedUpTo
  <1>2. Len(cs) \in Nat /\ DOMAIN cs = 1..Len(cs) /\ m \in Nat
    BY SequenceIs DEF Whole
  <1>3. Overlays(done, s, cs, m)
    BY <1>2, OverlaysChosen
  <1> HIDE DEF done
  <1>4. 0 \in T
    <2>1. done[0] = s
      BY <1>3 DEF Overlays
    <2>2. \A h : h \notin 1..0
      OBVIOUS
    <2>3. OverlayInv(s, done[0], 0)
      BY <2>1, <2>2 DEF OverlayInv
    <2>4. QED
      BY <1>2, <2>3
  <1>5. ASSUME NEW k \in 0..m, k \in T, k < m PROVE k + 1 \in T
    <2>1. k \in Nat /\ k + 1 \in 1..m /\ k + 1 \in 0..m /\ (k + 1) - 1 = k /\ k + 1 \in DOMAIN cs
      BY <1>2, <1>5
    <2> DEFINE t == done[k]
               c == cs[k + 1]
               new == done[k + 1]
    <2>2. OverlayInv(s, t, k)
      BY <1>5
    <2>3. new = Correct(t, c)
      BY <1>3, <2>1 DEF Overlays
    <2>4. Whole(t) /\ t.corrections = cs
      BY <2>2 DEF OverlayInv
    <2> HIDE DEF t, c, new
    <2>5. /\ Whole(new) /\ new.corrections = cs
          /\ c.field # "ges" => Objection(new, c) # "none"
          /\ \A d : d.field # "ges" /\ Objection(t, d) # "none"
                    /\ (SameTarget(d, c) => c.corrected # d.expected)
                => Objection(new, d) # "none"
          /\ Quiet(t) /\ (c.field # "ges" => Objection(t, c) # "none") => Quiet(new)
      BY <2>3, <2>4, CorrectionMade
    <2>6. ASSUME Unreversed(cs), NEW h \in 1..(k + 1), cs[h].field # "ges"
          PROVE  Objection(new, cs[h]) # "none"
      <3>1. CASE h = k + 1
        BY <2>5, <2>6, <3>1 DEF c
      <3>2. CASE h # k + 1
        <4>1. h \in 1..k /\ h \in 1..(k + 1) - 1
          BY <2>1, <3>2
        <4>2. SameTarget(cs[h], c) => c.corrected # cs[h].expected
          BY <2>1, <2>6, <4>1 DEF Unreversed, c
        <4>3. Objection(t, cs[h]) # "none"
          BY <2>2, <2>6, <4>1 DEF OverlayInv
        <4>4. QED
          BY <2>5, <2>6, <4>2, <4>3
      <3>3. QED
        BY <3>1, <3>2
    <2>7. ASSUME Quiet(s) PROVE Quiet(new)
      <3>1. Quiet(t)
        BY <2>2, <2>7 DEF OverlayInv
      <3>2. c.field # "ges" => Objection(t, c) # "none"
        BY <2>1, <2>4, <3>1 DEF Quiet, c
      <3>3. QED
        BY <2>5, <3>1, <3>2
    <2>8. OverlayInv(s, new, k + 1)
      BY <2>5, <2>6, <2>7 DEF OverlayInv
    <2>9. QED
      BY <2>1, <2>8 DEF new
  <1> HIDE DEF T
  <1>6. 0..m \subseteq T
    BY <1>2, <1>4, <1>5, Climb
  <1>7. m \in T
    BY <1>2, <1>6
  <1>8. QED
    BY <1>1, <1>7 DEF T


-----------------------------------------------------------------------------
(* The pipeline.                                                            *)

WholeInv ==
    /\ Whole(tree) /\ tree.corrections = source.corrections /\ source \in Scores
    /\ pass \in 0..Written /\ round \in Nat \ {0}

Passes == \/ NormalizePickupBar \/ PropagateMeterChanges \/ NormalizeEndingNs
          \/ CheckRepeatBarlines \/ CheckMeasureN \/ NormalizeEndingMeasureNs
          \/ NormalizeSplitMeasures \/ CompleteCrossBarlineTies \/ ResolveGesturalAccidentals
          \/ ReconcileClefGroups \/ NormalizeStaffPresentation

LEMMA SameTextSelf == ASSUME NEW s, Whole(s) PROVE SameText(s, s)
  BY SameBarsSelf, SamePageSelf DEF Whole, SameText

\* The bars of a score rewritten, or its voices and ties.
LEMMA BarsReplaced ==
  ASSUME NEW s, Whole(s), NEW ms, SameBars(s.measures, ms)
  PROVE  Whole([s EXCEPT !.measures = ms]) /\ SameText(s, [s EXCEPT !.measures = ms])
  <1> DEFINE t == [s EXCEPT !.measures = ms]
  <1>1. t = [measures |-> ms, endings |-> s.endings, voices |-> s.voices, ties |-> s.ties,
             keys |-> s.keys, corrections |-> s.corrections, staff |-> s.staff, header |-> s.header]
    BY DEF Whole
  <1> HIDE DEF t
  <1>2. Whole(t) /\ SameText(s, t)
    BY <1>1, SamePageSelf DEF Whole, SameText, SameBars
  <1>3. QED
    BY <1>2 DEF t

Revoiced(s, vs, ts) == [s EXCEPT !.voices = vs, !.ties = ts]

LEMMA VoicesReplaced ==
  ASSUME NEW s, Whole(s), NEW vs, SamePage(s.voices, vs), NEW ts, IsSeq(ts)
  PROVE  /\ Whole(Revoiced(s, vs, ts)) /\ SameText(s, Revoiced(s, vs, ts))
         /\ Revoiced(s, vs, ts).voices = vs /\ Revoiced(s, vs, ts).ties = ts
         /\ Revoiced(s, vs, ts).keys = s.keys
  <1> DEFINE u == [s EXCEPT !.voices = vs]
             t == Revoiced(s, vs, ts)
  <1>1. u = [measures |-> s.measures, endings |-> s.endings, voices |-> vs, ties |-> s.ties,
             keys |-> s.keys, corrections |-> s.corrections, staff |-> s.staff, header |-> s.header]
    BY DEF Whole
  <1>2. t = [u EXCEPT !.ties = ts]
    BY DEF Revoiced
  <1> HIDE DEF t, u
  <1>3. t = [measures |-> s.measures, endings |-> s.endings, voices |-> vs, ties |-> ts,
             keys |-> s.keys, corrections |-> s.corrections, staff |-> s.staff, header |-> s.header]
    BY <1>1, <1>2
  <1>4. Whole(t) /\ SameText(s, t) /\ t.voices = vs /\ t.ties = ts /\ t.keys = s.keys
    BY <1>3, SameBarsSelf DEF Whole, SameText, SamePage
  <1>5. QED
    BY <1>4 DEF t

\* Endings, clefs and layout are not part of the text.
LEMMA OtherReplaced ==
  ASSUME NEW s, Whole(s), NEW x
  PROVE  \A t \in {[s EXCEPT !.endings = x], [s EXCEPT !.staff = x], [s EXCEPT !.header = x]} :
         /\ Whole(t) /\ SameText(s, t) /\ t.voices = s.voices /\ t.ties = s.ties /\ t.keys = s.keys
  <1> SUFFICES ASSUME NEW t \in {[s EXCEPT !.endings = x], [s EXCEPT !.staff = x], [s EXCEPT !.header = x]}
               PROVE  /\ Whole(t) /\ SameText(s, t)
                      /\ t.voices = s.voices /\ t.ties = s.ties /\ t.keys = s.keys
    OBVIOUS
  <1>1. /\ t = [measures |-> t.measures, endings |-> t.endings, voices |-> t.voices, ties |-> t.ties,
                keys |-> t.keys, corrections |-> t.corrections, staff |-> t.staff, header |-> t.header]
        /\ t.measures = s.measures /\ t.voices = s.voices /\ t.ties = s.ties
        /\ t.keys = s.keys /\ t.corrections = s.corrections
    BY DEF Whole
  <1>2. Whole(t) /\ SameText(s, t)
    BY <1>1, SameBarsSelf, SamePageSelf DEF Whole, SameText
  <1>3. QED
    BY <1>1, <1>2

LEMMA PassesKeepText ==
  ASSUME Whole(tree), Passes
  PROVE  Whole(tree') /\ SameText(tree, tree')
  <1>1. Barred(tree.measures) /\ Shaped(tree.voices) /\ IsSeq(tree.ties)
    BY DEF Whole
  <1>2. CASE NormalizePickupBar
    BY <1>1, <1>2, PickupKeepsBars, BarsReplaced DEF NormalizePickupBar
  <1>3. CASE PropagateMeterChanges
    BY <1>1, <1>3, MetersKeepBars, BarsReplaced DEF PropagateMeterChanges
  <1>4. CASE NormalizeEndingNs
    BY <1>4, OtherReplaced DEF NormalizeEndingNs
  <1>5. CASE CheckRepeatBarlines \/ CheckMeasureN
    BY <1>5, SameTextSelf DEF CheckRepeatBarlines, CheckMeasureN
  <1>6. CASE NormalizeEndingMeasureNs
    BY <1>1, <1>6, EndingsKeepBars, BarsReplaced DEF NormalizeEndingMeasureNs
  <1>7. CASE NormalizeSplitMeasures
    BY <1>1, <1>7, SplitsKeepBars, BarsReplaced DEF NormalizeSplitMeasures
  <1>8. CASE CompleteCrossBarlineTies
    <2> DEFINE done == P!CompleteTies(tree.voices, tree.ties)
    <2>1. SamePage(tree.voices, done.voices) /\ IsSeq(done.ties)
      BY <1>1, TiesCompleted
    <2>2. tree' = Revoiced(tree, done.voices, done.ties)
      BY <1>8 DEF CompleteCrossBarlineTies, Revoiced
    <2> HIDE DEF done
    <2>3. QED
      BY <2>1, <2>2, VoicesReplaced
  <1>9. CASE ResolveGesturalAccidentals
    <2> DEFINE w == P!ResolveAccidentals(tree.voices, tree.ties, tree.keys)
    <2>1. SamePage(tree.voices, w)
      BY <1>1, AccidentalsResolved
    <2>a. tree' = [tree EXCEPT !.voices = w]
      BY <1>9 DEF ResolveGesturalAccidentals
    <2>2. tree' = Revoiced(tree, w, tree.ties)
      <3> HIDE DEF w
      <3>1. Revoiced(tree, w, tree.ties) = [[tree EXCEPT !.voices = w] EXCEPT !.ties = tree.ties]
        BY DEF Revoiced
      <3>2. [[tree EXCEPT !.voices = w] EXCEPT !.ties = tree.ties] = [tree EXCEPT !.voices = w]
        BY DEF Whole
      <3>3. QED
        BY <2>a, <3>1, <3>2
    <2> HIDE DEF w
    <2>3. QED
      BY <1>1, <2>1, <2>2, VoicesReplaced
  <1>10. CASE ReconcileClefGroups
    BY <1>10, OtherReplaced DEF ReconcileClefGroups
  <1>11. CASE NormalizeStaffPresentation
    <2>1. tree' = tree \/ \E x : tree' = [tree EXCEPT !.header = x]
      BY <1>11 DEF NormalizeStaffPresentation
    <2>2. CASE \E x : tree' = [tree EXCEPT !.header = x]
      <3>1. PICK x : tree' = [tree EXCEPT !.header = x]
        BY <2>2
      <3>2. QED
        BY <3>1, OtherReplaced
    <2>3. QED
      BY <2>1, <2>2, SameTextSelf
  <1>12. QED
    BY <1>2, <1>3, <1>4, <1>5, <1>6, <1>7, <1>8, <1>9, <1>10, <1>11 DEF Passes

LEMMA PassesCount ==
  ASSUME Passes, pass \in 0..Written
  PROVE  pass \in 1..11 /\ pass' = pass + 1 /\ UNCHANGED <<source, before, round>>
  BY DEF Passes, NormalizePickupBar, PropagateMeterChanges, NormalizeEndingNs, CheckRepeatBarlines,
         CheckMeasureN, NormalizeEndingMeasureNs, NormalizeSplitMeasures, CompleteCrossBarlineTies,
         ResolveGesturalAccidentals, ReconcileClefGroups, NormalizeStaffPresentation, Goes

LEMMA StepsAre == NormalizerNext <=> ApplyCorrections \/ Passes \/ NormalizeAgain
  BY DEF NormalizerNext, Passes

LEMMA OverlayStep ==
  ASSUME Whole(tree), ApplyCorrections
  PROVE  /\ Whole(tree') /\ tree'.corrections = tree.corrections
         /\ Unreversed(tree.corrections) => Quiet(tree')
         /\ Quiet(tree) => Quiet(tree')
         /\ pass = 0 /\ pass' = 1 /\ UNCHANGED <<source, before, round>>
  <1> DEFINE n == Len(tree.corrections)
  <1>1. n \in Nat /\ DOMAIN tree.corrections = 1..n
    BY SequenceIs DEF Whole
  <1>2. n \in 0..n
    BY <1>1
  <1>3. OverlayInv(tree, CorrectedUpTo(tree, n), n)
    BY <1>2, OverlayHolds
  <1>4. tree' = CorrectedUpTo(tree, n)
    BY DEF ApplyCorrections
  <1>5. Unreversed(tree.corrections) => Quiet(tree')
    BY <1>1, <1>3, <1>4 DEF OverlayInv, Quiet
  <1>6. pass = 0 /\ pass' = 1 /\ UNCHANGED <<source, before, round>>
    BY DEF ApplyCorrections, Goes
  <1>7. QED
    BY <1>3, <1>4, <1>5, <1>6 DEF OverlayInv

LEMMA WholeInitially == NormalizerInit => WholeInv
  <1>1. ASSUME NormalizerInit PROVE WholeInv
    <2>1. IsScore(source)
      BY <1>1, NormalizerAssumption DEF NormalizerInit
    <2>2. Whole(tree)
      BY <1>1, <2>1, ScoresAreWhole DEF NormalizerInit
    <2>3. QED
      BY <1>1, <2>2 DEF NormalizerInit, WholeInv, Written
  <1>2. QED
    BY <1>1

LEMMA WholeStep == WholeInv /\ [NormalizerNext]_normalizerVars => WholeInv'
  <1> SUFFICES ASSUME WholeInv, [NormalizerNext]_normalizerVars PROVE WholeInv'
    OBVIOUS
  <1>1. Whole(tree) /\ pass \in 0..Written
    BY DEF WholeInv
  <1>2. CASE ApplyCorrections
    BY <1>1, <1>2, OverlayStep DEF WholeInv, Written
  <1>3. CASE Passes
    <2>1. Whole(tree') /\ tree'.corrections = tree.corrections
      BY <1>1, <1>3, PassesKeepText DEF SameText
    <2>2. pass \in 1..11 /\ pass' = pass + 1 /\ UNCHANGED <<source, before, round>>
      BY <1>1, <1>3, PassesCount
    <2>3. QED
      BY <2>1, <2>2 DEF WholeInv, Written
  <1>4. CASE NormalizeAgain
    BY <1>4 DEF WholeInv, NormalizeAgain, Written
  <1>5. CASE UNCHANGED normalizerVars
    BY <1>5 DEF WholeInv, normalizerVars
  <1>6. QED
    BY <1>2, <1>3, <1>4, <1>5, StepsAre

LEMMA AlwaysWhole == NormalizerSpec => []WholeInv
  BY WholeInitially, WholeStep, PTL DEF NormalizerSpec

LEMMA TextIsPrint == ASSUME NEW s, NEW t, SameText(s, t) PROVE Printed(t) = Printed(s)
  <1>1. /\ P!Ids(t.voices) = P!Ids(s.voices) /\ DOMAIN t.measures = DOMAIN s.measures
        /\ \A k \in DOMAIN s.measures : /\ t.measures[k].left = s.measures[k].left
                                        /\ t.measures[k].right = s.measures[k].right
        /\ \A i \in P!Ids(s.voices) : LET a == P!At(t.voices, i)
                                          b == P!At(s.voices, i)
                                      IN a.pitch = b.pitch /\ a.letter = b.letter /\ a.accid = b.accid
    BY DEF SameText, SameBars, SamePage, SameGrid
  <1>2. QED
    BY <1>1 DEF Printed

\* The overlay of corrections alone changes the notes, the bars, the printed
\* accidentals and the repeat barlines: whatever the score, whatever corrections
\* it comes with, in whatever round (normalize_mei and its passes).
THEOREM OnlyCorrectionsChangeThePrint == NormalizerSpec => PrintIsKept
  <1>1. WholeInv /\ [NormalizerNext]_normalizerVars
          => [pass # 0 => Printed(tree') = Printed(tree)]_normalizerVars
    <2> SUFFICES ASSUME WholeInv, [NormalizerNext]_normalizerVars, pass # 0, normalizerVars' # normalizerVars
                 PROVE  Printed(tree') = Printed(tree)
      OBVIOUS
    <2>1. Whole(tree)
      BY DEF WholeInv
    <2>2. CASE ApplyCorrections
      BY <2>2 DEF ApplyCorrections, Goes
    <2>3. CASE Passes
      BY <2>1, <2>3, PassesKeepText, TextIsPrint
    <2>4. CASE NormalizeAgain
      BY <2>4 DEF NormalizeAgain
    <2>5. QED
      BY <2>2, <2>3, <2>4, StepsAre
  <1>2. QED
    BY <1>1, AlwaysWhole, PTL DEF NormalizerSpec, PrintIsKept

-----------------------------------------------------------------------------
(* What a note plays.                                                       *)

PlayInv == pass >= 10 => AsPrinted(tree.voices, tree.ties, tree.keys)

LEMMA PlayStep == WholeInv /\ PlayInv /\ [NormalizerNext]_normalizerVars => PlayInv'
  <1> SUFFICES ASSUME WholeInv, PlayInv, [NormalizerNext]_normalizerVars PROVE PlayInv'
    OBVIOUS
  <1>1. Whole(tree) /\ pass \in 0..Written
    BY DEF WholeInv
  <1>2. CASE ApplyCorrections
    BY <1>2 DEF ApplyCorrections, Goes, PlayInv
  <1>3. CASE ResolveGesturalAccidentals
    <2> DEFINE w == P!ResolveAccidentals(tree.voices, tree.ties, tree.keys)
    <2>1. SamePage(tree.voices, w) /\ AsPrinted(w, tree.ties, tree.keys) /\ IsSeq(tree.ties)
      BY <1>1, AccidentalsResolved DEF Whole
    <2>a. tree' = [tree EXCEPT !.voices = w]
      BY <1>3 DEF ResolveGesturalAccidentals
    <2>2. tree' = Revoiced(tree, w, tree.ties)
      <3> HIDE DEF w
      <3>1. Revoiced(tree, w, tree.ties) = [[tree EXCEPT !.voices = w] EXCEPT !.ties = tree.ties]
        BY DEF Revoiced
      <3>2. [[tree EXCEPT !.voices = w] EXCEPT !.ties = tree.ties] = [tree EXCEPT !.voices = w]
        BY <1>1 DEF Whole
      <3>3. QED
        BY <2>a, <3>1, <3>2
    <2> HIDE DEF w
    <2>3. tree'.voices = w /\ tree'.ties = tree.ties /\ tree'.keys = tree.keys
      BY <1>1, <2>1, <2>2, VoicesReplaced
    <2>4. QED
      BY <2>1, <2>3 DEF PlayInv
  <1>4. CASE ReconcileClefGroups
    <2>1. tree'.voices = tree.voices /\ tree'.ties = tree.ties /\ tree'.keys = tree.keys
      BY <1>1, <1>4, OtherReplaced DEF ReconcileClefGroups
    <2>2. pass >= 10
      BY <1>4 DEF ReconcileClefGroups, Goes
    <2>3. QED
      BY <2>1, <2>2 DEF PlayInv
  <1>5. CASE NormalizeStaffPresentation
    <2>1. tree' = tree \/ \E x : tree' = [tree EXCEPT !.header = x]
      BY <1>5 DEF NormalizeStaffPresentation
    <2>2. tree'.voices = tree.voices /\ tree'.ties = tree.ties /\ tree'.keys = tree.keys
      <3>1. CASE \E x : tree' = [tree EXCEPT !.header = x]
        <4>1. PICK x : tree' = [tree EXCEPT !.header = x]
          BY <3>1
        <4>2. QED
          BY <1>1, <4>1, OtherReplaced
      <3>2. QED
        BY <2>1, <3>1
    <2>3. pass >= 10
      BY <1>5 DEF NormalizeStaffPresentation, Goes
    <2>4. QED
      BY <2>2, <2>3 DEF PlayInv
  <1>6. CASE \/ NormalizePickupBar \/ PropagateMeterChanges \/ NormalizeEndingNs
             \/ CheckRepeatBarlines \/ CheckMeasureN \/ NormalizeEndingMeasureNs
             \/ NormalizeSplitMeasures \/ CompleteCrossBarlineTies
    <2>1. pass' \in 1..9
      BY <1>6 DEF NormalizePickupBar, PropagateMeterChanges, NormalizeEndingNs, CheckRepeatBarlines,
                  CheckMeasureN, NormalizeEndingMeasureNs, NormalizeSplitMeasures,
                  CompleteCrossBarlineTies, Goes
    <2>2. QED
      BY <2>1 DEF PlayInv
  <1>7. CASE NormalizeAgain
    BY <1>7 DEF NormalizeAgain, PlayInv
  <1>8. CASE UNCHANGED normalizerVars
    BY <1>8 DEF PlayInv, normalizerVars
  <1>9. QED
    BY <1>2, <1>3, <1>4, <1>5, <1>6, <1>7, <1>8 DEF NormalizerNext

\* In every file that comes out of the pipeline, every note plays what the page
\* says, or is tied to from before the barline: for any number of bars, staves,
\* layers and voices, any mixture of accidentals, key changes and ties, and any
\* gestural accidentals in the source.
THEOREM NotesPlayAsPrinted == NormalizerSpec => []PlaysAsPrinted
  <1>1. NormalizerInit => PlayInv
    BY DEF NormalizerInit, PlayInv
  <1>2. PlayInv => PlaysAsPrinted
    BY DEF PlayInv, PlaysAsPrinted, AsPrinted, Done, Written
  <1>3. QED
    BY <1>1, <1>2, PlayStep, AlwaysWhole, PTL DEF NormalizerSpec

-----------------------------------------------------------------------------
(* What becomes of a correction.                                            *)

Codes == {"CORRECTION_UNKNOWN_FIELD", "CORRECTION_TARGET_MISMATCH",
          "CORRECTION_TARGET_MISSING", "CORRECTION_SUPERSEDED", "CORRECTION_PRESTATE_MISMATCH"}
Reported(cs, S) == \A k \in DOMAIN cs :
    cs[k].field # "ges" => \E issue \in S : issue.at = k /\ issue.code \in Codes

\* From the first overlay on every printed correction objects, and from the
\* second one on the round has flagged it.
MadeInv ==
    /\ pass >= 1 \/ round >= 2 => Quiet(tree)
    /\ pass >= 1 /\ round >= 2 => Reported(tree.corrections, issues)

LEMMA Flagged ==
  ASSUME Whole(tree), Quiet(tree), ApplyCorrections
  PROVE  Reported(tree.corrections, issues')
  <1> DEFINE n == Len(tree.corrections)
             flags == {issue \in {M!Issue(Objection(CorrectedUpTo(tree, k - 1), tree.corrections[k]), k) :
                           k \in DOMAIN tree.corrections} : issue.code # "none"}
  <1>1. n \in Nat /\ DOMAIN tree.corrections = 1..n
    BY SequenceIs DEF Whole
  <1>2. issues' = issues \cup flags
    BY DEF ApplyCorrections, Flag
  <1>3. ASSUME NEW k \in DOMAIN tree.corrections, tree.corrections[k].field # "ges"
        PROVE  \E issue \in issues' : issue.at = k /\ issue.code \in Codes
    <2> DEFINE t == CorrectedUpTo(tree, k - 1)
               c == tree.corrections[k]
               flag == M!Issue(Objection(t, c), k)
    <2>1. k - 1 \in 0..n
      BY <1>1
    <2>2. OverlayInv(tree, t, k - 1)
      BY <2>1, OverlayHolds
    <2>3. t.corrections = tree.corrections /\ Quiet(t)
      BY <2>2 DEF OverlayInv
    <2>4. Objection(t, c) # "none"
      BY <1>3, <2>3 DEF Quiet
    <2>5. Objection(t, c) \in Codes
      BY <2>4 DEF Objection, Codes
    <2>6. flag.at = k /\ flag.code = Objection(t, c)
      BY DEF M!Issue
    <2>7. flag \in flags
      BY <2>4, <2>6
    <2> HIDE DEF flag, flags
    <2>8. QED
      BY <1>2, <2>5, <2>6, <2>7
  <1>4. QED
    BY <1>3 DEF Reported

LEMMA MadeStep ==
  ASSUME NoReversal
  PROVE  WholeInv /\ MadeInv /\ [NormalizerNext]_normalizerVars => MadeInv'
  <1> SUFFICES ASSUME WholeInv, MadeInv, [NormalizerNext]_normalizerVars PROVE MadeInv'
    OBVIOUS
  <1>1. Whole(tree) /\ pass \in 0..Written /\ round \in Nat \ {0}
    BY DEF WholeInv
  <1>2. CASE ApplyCorrections
    <2>1. Unreversed(tree.corrections)
      BY DEF WholeInv, NoReversal, Unreversed
    <2>2. Quiet(tree') /\ tree'.corrections = tree.corrections /\ round' = round
      BY <1>1, <1>2, <2>1, OverlayStep
    <2>3. round >= 2 => Reported(tree.corrections, issues')
      BY <1>1, <1>2, Flagged DEF MadeInv
    <2>4. QED
      BY <2>2, <2>3 DEF MadeInv
  <1>3. CASE Passes
    <2>1. Whole(tree') /\ SameText(tree, tree') /\ tree'.corrections = tree.corrections
      BY <1>1, <1>3, PassesKeepText DEF SameText
    <2>2. pass \in 1..11 /\ pass' = pass + 1 /\ round' = round
      BY <1>1, <1>3, PassesCount
    <2>3. issues \subseteq issues'
      BY <1>3 DEF Passes, NormalizePickupBar, PropagateMeterChanges, NormalizeEndingNs,
         CheckRepeatBarlines, CheckMeasureN, NormalizeEndingMeasureNs, NormalizeSplitMeasures,
         CompleteCrossBarlineTies, ResolveGesturalAccidentals, ReconcileClefGroups,
         NormalizeStaffPresentation, Flag
    <2>4. Quiet(tree)
      BY <2>2 DEF MadeInv
    <2>5. \A c : c.field # "ges" => Objection(tree', c) = Objection(tree, c)
      BY <2>1, SameObjection
    <2>6. Quiet(tree')
      BY <2>1, <2>4, <2>5 DEF Quiet
    <2>7. Reported(tree.corrections, issues) => Reported(tree.corrections, issues')
      BY <2>3 DEF Reported
    <2>8. QED
      BY <2>1, <2>2, <2>6, <2>7 DEF MadeInv
  <1>4. CASE NormalizeAgain
    <2>1. pass >= 1 /\ pass' = 0 /\ tree' = tree
      BY <1>4 DEF NormalizeAgain, Written
    <2>2. QED
      BY <2>1 DEF MadeInv
  <1>5. CASE UNCHANGED normalizerVars
    BY <1>5 DEF MadeInv, normalizerVars
  <1>6. QED
    BY <1>2, <1>3, <1>4, <1>5, StepsAre

\* A printed correction is made at most once: in every file that went through
\* the pipeline again, each of them was left alone with a reason, provided that
\* none of a list restores what an earlier one of the same attribute expects
\* (such a pair would be made over again in every round).
THEOREM CorrectionsAreMadeOnce ==
  ASSUME NoReversal
  PROVE  NormalizerSpec => []CorrectionsSettle
  <1>1. NormalizerInit => MadeInv
    BY DEF NormalizerInit, MadeInv
  <1>2. MadeInv => CorrectionsSettle
    BY DEF MadeInv, CorrectionsSettle, Reported, Codes, Done, Written
  <1>3. WholeInv /\ MadeInv /\ [NormalizerNext]_normalizerVars => MadeInv'
    BY MadeStep
  <1>4. QED
    BY <1>1, <1>2, <1>3, AlwaysWhole, PTL DEF NormalizerSpec

-----------------------------------------------------------------------------
(* The upload.                                                              *)

-----------------------------------------------------------------------------
(* Shapes.                                                                 *)

LEMMA UploadShape ==
    ASSUME TypeOK, NEW u \in Uploaders, up[u] # Idle
    PROVE  /\ up[u].upload \in Uploads
           /\ up[u].at \in {"locked", "half", "stored", "owes", "owesIncipit"}
  BY DEF TypeOK, Upload

\* An upload goes on with what it has.
LEMMA Advanced ==
    ASSUME TypeOK, NEW u \in Uploaders, up[u].at # "idle", NEW x,
           up' = [up EXCEPT ![u].at = x]
    PROVE  /\ up'[u].at = x /\ up'[u].upload = up[u].upload
           /\ \A v \in Uploaders : v # u => up'[v] = up[v]
  <1>1. up \in [Uploaders -> Upload] /\ up[u] \in Upload \ {Idle}
    BY DEF TypeOK, Idle
  <1>2. up'[u] = [up[u] EXCEPT !.at = x] /\ \A v \in Uploaders : v # u => up'[v] = up[v]
    BY <1>1
  <1>3. [up[u] EXCEPT !.at = x].at = x /\ [up[u] EXCEPT !.at = x].upload = up[u].upload
    BY <1>1 DEF Upload
  <1>4. QED
    BY <1>2, <1>3

LEMMA JobShape ==
    ASSUME TypeOK, NEW w \in Workers, work[w] # Idle
    PROVE  /\ work[w].task \in Task
           /\ work[w].at \in {"row", "score", "svg"}
           /\ work[w].at \in {"row", "score"} => work[w].key \in Keys
           /\ work[w].at = "score" => work[w].score \in Uploads
           /\ work[w].at = "svg" => work[w].task.kind = "incipit"
  BY DEF TypeOK, Job

LEMMA RowShape ==
    ASSUME TypeOK, row # NoRow
    PROVE  /\ row \in Row
           /\ row.upload \in Uploads /\ row.key \in Keys
           /\ row.pending \in BOOLEAN /\ row.incipit \in BOOLEAN
  BY DEF TypeOK, Row

LEMMA RowIsThere == \A r \in Row : r # NoRow
  BY IngestionAssumption DEF Row, NoRow

LEMMA Tasks ==
    /\ FirstTry \in Task
    /\ \A tsv \in WithHarmonies \cup {None} : [kind |-> "analysis", tsv |-> tsv] \in Task
    /\ \A t \in Task : t.kind = "incipit" /\ t.tries < MaxRetries =>
         [t EXCEPT !.tries = @ + 1] \in Task /\ [t EXCEPT !.tries = @ + 1].kind = "incipit"
    /\ \A t \in Task : /\ t.kind \in {"analysis", "incipit"}
                       /\ t.kind = "analysis" => t.tsv \in WithHarmonies \cup {None}
  BY IngestionAssumption DEF FirstTry, Task

LEMMA Idles == Idle \in Upload /\ Idle \in Job
  BY DEF Upload, Job

-----------------------------------------------------------------------------
(* Type correctness.                                                       *)

\* Inductive: what is in the runner follows a committed row, and tasks without
\* harmonies are never in hand.
Dispatched ==
    \/ queue # <<>>
    \/ \E w \in Workers : work[w] # Idle
    \/ \E u \in Uploaders : up[u].at \in {"owes", "owesIncipit"}

TypeInv ==
    /\ TypeOK
    /\ Dispatched => row # NoRow
    /\ row # NoRow \/ (\E u \in Uploaders : up[u].at = "stored") => score # None
    /\ \A w \in Workers :
         work[w] # Idle /\ work[w].task.kind = "analysis" => work[w].task.tsv \in WithHarmonies

LEMMA TypeInit == Init => TypeInv
  <1> SUFFICES ASSUME Init PROVE TypeInv
    OBVIOUS
  <1>1. up \in [Uploaders -> Upload] /\ work \in [Workers -> Job] /\ queue \in Seq(Task)
    BY Idles DEF Init
  <1>2. TypeOK
    BY <1>1 DEF Init, TypeOK
  <1>3. ~Dispatched /\ \A u \in Uploaders : up[u].at # "stored"
    BY DEF Init, Dispatched, Idle
  <1>4. QED
    BY <1>2, <1>3 DEF Init, TypeInv

LEMMA TypeUploadStep ==
    ASSUME TypeInv, NEW u \in Uploaders, UploadStep(u)
    PROVE  TypeInv'
  <1>0. /\ TypeOK
        /\ up[u] # Idle => /\ up[u].upload \in Uploads
                           /\ up[u].at \in {"locked", "half", "stored", "owes", "owesIncipit"}
    BY UploadShape DEF TypeInv
  <1>1. ASSUME NEW c \in Uploads, BeginUpload(u, c)
        PROVE  TypeInv'
    <2>1. up' \in [Uploaders -> Upload]
      BY <1>0, <1>1 DEF BeginUpload, TypeOK, Upload
    <2>2. \A v \in Uploaders : up'[v].at \in {"owes", "owesIncipit", "stored"} => up'[v] = up[v]
      BY <1>0, <1>1 DEF BeginUpload, TypeOK
    <2>3. QED
      BY <1>0, <1>1, <2>1, <2>2 DEF BeginUpload, TypeInv, TypeOK, Dispatched
  <1>2. CASE StoreOriginal(u)
    <2>1. up[u] # Idle /\ up' \in [Uploaders -> Upload]
      BY <1>0, <1>2 DEF StoreOriginal, TypeOK, Upload, Idle
    <2>2. \A v \in Uploaders : up'[v].at \in {"owes", "owesIncipit", "stored"} => up'[v] = up[v]
      BY <1>0, <1>2, <2>1 DEF StoreOriginal, TypeOK
    <2>3. QED
      BY <1>0, <1>2, <2>1, <2>2 DEF StoreOriginal, TypeInv, TypeOK, Dispatched
  <1>3. CASE StoreScore(u)
    <2>1. up[u] # Idle /\ up' \in [Uploaders -> Upload]
      BY <1>0, <1>3 DEF StoreScore, TypeOK, Upload, Idle
    <2>2. \A v \in Uploaders : up'[v].at \in {"owes", "owesIncipit"} => up'[v] = up[v]
      BY <1>0, <1>3, <2>1 DEF StoreScore, TypeOK
    <2>3. score' \in Uploads /\ score' # None
      BY <1>0, <1>3, <2>1, IngestionAssumption DEF StoreScore
    <2>4. QED
      BY <1>0, <1>3, <2>1, <2>2, <2>3 DEF StoreScore, TypeInv, TypeOK, Dispatched
  <1>4. CASE Commit(u)
    <2>1. up[u] # Idle /\ up' \in [Uploaders -> Upload]
      BY <1>0, <1>4 DEF Commit, TypeOK, Upload, Idle
    <2>2. row' \in Row
      BY <1>0, <1>4, <2>1, RowShape DEF Commit, Row, Keys
    <2>3. score' # None
      BY <1>4 DEF Commit, TypeInv
    <2>4. QED
      BY <1>0, <1>4, <2>1, <2>2, <2>3, RowIsThere DEF Commit, TypeInv, TypeOK, Dispatched
  <1>5. CASE DispatchAnalysis(u)
    <2>1. up[u] # Idle /\ up' \in [Uploaders -> Upload] /\ row # NoRow
      BY <1>0, <1>5 DEF DispatchAnalysis, TypeInv, TypeOK, Upload, Idle, Dispatched
    <2>2. queue' \in Seq(Task)
      BY <1>0, <1>5, Tasks DEF DispatchAnalysis, TypeOK
    <2>3. lost' \in SUBSET {"analysis", "incipit"}
      BY <1>0, <1>5 DEF DispatchAnalysis, TypeOK
    <2>4. QED
      BY <1>0, <1>5, <2>1, <2>2, <2>3 DEF DispatchAnalysis, TypeInv, TypeOK
  <1>6. CASE DispatchIncipit(u)
    <2>1. up' \in [Uploaders -> Upload] /\ row # NoRow
      BY <1>0, <1>6, Idles DEF DispatchIncipit, TypeInv, TypeOK, Dispatched
    <2>2. queue' \in Seq(Task)
      BY <1>0, <1>6, Tasks DEF DispatchIncipit, TypeOK
    <2>3. QED
      BY <1>0, <1>6, <2>1, <2>2 DEF DispatchIncipit, TypeInv, TypeOK
  <1>7. CASE Abort(u)
    <2>1. up' \in [Uploaders -> Upload] /\ \A v \in Uploaders : up'[v] = up[v] \/ up'[v] = Idle
      BY <1>0, <1>7, Idles DEF Abort, TypeOK
    <2>2. lost' \in SUBSET {"analysis", "incipit"} /\ stray' \in BOOLEAN
      BY <1>0, <1>7 DEF Abort, TypeOK, Forfeit
    <2>3. QED
      BY <1>0, <1>7, <2>1, <2>2 DEF Abort, TypeInv, TypeOK, Dispatched, Idle
  <1>8. QED
    BY <1>1, <1>2, <1>3, <1>4, <1>5, <1>6, <1>7 DEF UploadStep

LEMMA TypeTaskStep ==
    ASSUME TypeInv, NEW w \in Workers, TaskStep(w)
    PROVE  TypeInv'
  <1>0. /\ TypeOK
        /\ work[w] # Idle => /\ work[w].task \in Task
                             /\ work[w].at \in {"row", "score", "svg"}
                             /\ work[w].at \in {"row", "score"} => work[w].key \in Keys
                             /\ work[w].at = "score" => work[w].score \in Uploads
                             /\ row # NoRow /\ score \in Uploads
        /\ work \in [Workers -> Job]
    BY JobShape DEF TypeInv, TypeOK, Dispatched
  <1>1. CASE TakeTask(w)
    <2> DEFINE t == Head(queue)
    <2>1. /\ t \in Task /\ queue' \in Seq(Task)
          /\ row # NoRow
      BY <1>0, <1>1 DEF TakeTask, TypeInv, TypeOK, Dispatched
    <2>2. row.key \in Keys /\ "absent" \in Keys
      BY <1>0, <2>1, RowShape DEF Keys
    <2>3. CASE t.kind = "analysis" /\ t.tsv = None
      BY <1>0, <1>1, <2>1, <2>3 DEF TakeTask, TypeInv, TypeOK
    <2>4. CASE ~(t.kind = "analysis" /\ t.tsv = None)
      <3> DEFINE q == [at |-> "row", task |-> t,
                       key |-> IF t.kind = "analysis" THEN row.key ELSE "absent"]
      <3>1. q \in Job /\ work' = [work EXCEPT ![w] = q]
        BY <1>1, <2>1, <2>2, <2>4 DEF TakeTask, Job
      <3>2. t.kind = "analysis" => t.tsv \in WithHarmonies
        BY <2>1, <2>4, Tasks
      <3>3. \A v \in Workers : work'[v] = IF v = w THEN q ELSE work[v]
        BY <1>0, <3>1
      <3>4. work' \in [Workers -> Job]
        BY <1>0, <3>1
      <3>5. QED
        BY <1>0, <1>1, <2>1, <3>2, <3>3, <3>4 DEF TakeTask, TypeInv, TypeOK
    <2>5. QED
      BY <2>3, <2>4
  <1>2. CASE ReadScore(w)
    <2>1. work[w] # Idle
      BY <1>2 DEF ReadScore, Idle
    <2>2. work' \in [Workers -> Job]
      BY <1>0, <1>2, <2>1 DEF ReadScore, Job
    <2>3. \A v \in Workers : work'[v] = work[v] \/ (v = w /\ work'[v].task = work[v].task)
      BY <1>0, <1>2 DEF ReadScore
    <2>4. QED
      BY <1>0, <1>2, <2>1, <2>2, <2>3 DEF ReadScore, TypeInv, TypeOK
  <1>3. CASE StoreSvg(w)
    <2>1. work[w] # Idle
      BY <1>3 DEF StoreSvg, Idle
    <2>2. work' \in [Workers -> Job]
      BY <1>0, <1>3, <2>1 DEF StoreSvg, Job
    <2>3. \A v \in Workers : work'[v] = work[v] \/ (v = w /\ work'[v].task = work[v].task)
      BY <1>0, <1>3 DEF StoreSvg
    <2>4. QED
      BY <1>0, <1>3, <2>1, <2>2, <2>3 DEF StoreSvg, TypeInv, TypeOK
  <1>4. ASSUME Rest(w)
        PROVE  /\ work' \in [Workers -> Job]
               /\ \A v \in Workers : work'[v] = work[v] \/ work'[v] = Idle
    BY <1>0, <1>4, Idles DEF Rest
  <1>5. ASSUME WriteAnalysis(w) \/ WriteKey(w)
        PROVE  /\ work[w] # Idle /\ row # NoRow
               /\ row' \in Row /\ row' # NoRow
               /\ analysis' \in [tsv : WithHarmonies, score : Uploads] \cup {NoAnalysis}
    <2>1. work[w] # Idle
      <3>1. work[w].at = "score" \/ work[w].at = "svg"
        BY <1>5 DEF WriteAnalysis, WriteKey
      <3>2. QED
        BY <3>1 DEF Idle
    <2>2. row \in Row
      BY <1>0, <2>1, RowShape
    <2>3. row' \in Row
      <3>1. row.key \in Keys /\ "derived" \in Keys
        BY <2>2 DEF Row, Keys
      <3>2. \A key \in Keys : [row EXCEPT !.key = key, !.pending = FALSE] \in Row
        BY <2>2 DEF Row
      <3>3. [row EXCEPT !.incipit = TRUE] \in Row
        BY <2>2 DEF Row
      <3>4. QED
        BY <1>5, <3>1, <3>2, <3>3 DEF WriteAnalysis, WriteKey
    <2>4. CASE WriteAnalysis(w)
      <3>1. work[w].task.tsv \in WithHarmonies /\ work[w].score \in Uploads
        BY <1>0, <2>1, <2>4 DEF WriteAnalysis, TypeInv
      <3>2. QED
        BY <1>0, <2>1, <2>3, <2>4, <3>1, RowIsThere DEF WriteAnalysis
    <2>5. CASE WriteKey(w)
      BY <1>0, <2>1, <2>3, <2>5, RowIsThere DEF WriteKey, TypeOK
    <2>6. QED
      BY <1>5, <2>4, <2>5
  <1>6. CASE FinishAnalysis(w) \/ NoteKey(w)
    <2>1. Rest(w) /\ (WriteAnalysis(w) \/ WriteKey(w))
      BY <1>6 DEF FinishAnalysis, NoteKey
    <2>2. QED
      BY <1>0, <1>4, <1>5, <1>6, <2>1
      DEF FinishAnalysis, NoteKey, TypeInv, TypeOK
  <1>7. CASE FailTask(w)
    <2>1. work[w] # Idle /\ Rest(w)
      BY <1>7 DEF FailTask
    <2>2. queue' \in Seq(Task)
      BY <1>0, <1>7, <2>1, Tasks DEF FailTask, TypeOK
    <2>3. lost' \in SUBSET {"analysis", "incipit"}
      BY <1>0, <1>7, <2>1, Tasks DEF FailTask, TypeOK
    <2>4. QED
      BY <1>0, <1>4, <1>7, <2>1, <2>2, <2>3 DEF FailTask, TypeInv, TypeOK
  <1>8. CASE KillWorker(w)
    <2>1. work[w] # Idle /\ Rest(w)
      BY <1>8 DEF KillWorker
    <2>2. queue' \in Seq(Task)
      BY <1>0, <1>8, <2>1 DEF KillWorker, TypeOK
    <2>3. /\ row' \in Row \cup {NoRow} /\ row' # NoRow
          /\ analysis' \in [tsv : WithHarmonies, score : Uploads] \cup {NoAnalysis}
      BY <1>0, <1>5, <1>8, <2>1 DEF KillWorker, TypeOK
    <2>4. QED
      BY <1>0, <1>4, <1>8, <2>1, <2>2, <2>3 DEF KillWorker, TypeInv, TypeOK
  <1>9. QED
    BY <1>1, <1>2, <1>3, <1>6, <1>7, <1>8 DEF TaskStep

LEMMA TypeStep == TypeInv /\ [Next]_vars => TypeInv'
  <1> SUFFICES ASSUME TypeInv, [Next]_vars PROVE TypeInv'
    OBVIOUS
  <1>1. CASE Redispatch
    <2>1. queue' \in Seq(Task)
      BY <1>1, Tasks DEF Redispatch, TypeInv, TypeOK
    <2>2. QED
      BY <1>1, <2>1 DEF Redispatch, TypeInv, TypeOK
  <1>2. CASE KillApi
    <2>1. up' \in [Uploaders -> Upload] /\ \A u \in Uploaders : up'[u] = Idle
      BY <1>2, Idles DEF KillApi
    <2>2. /\ queue' \in Seq(Task) /\ (queue' # <<>> => queue # <<>>)
          /\ work' \in [Workers -> Job]
          /\ \A w \in Workers : work'[w] = work[w] \/ work'[w] = Idle
      <3>1. <<>> \in Seq(Task) /\ [w \in Workers |-> Idle] \in [Workers -> Job]
        BY Idles
      <3>2. \/ queue' = <<>> /\ work' = [w \in Workers |-> Idle]
            \/ queue' = queue /\ work' = work
        BY <1>2 DEF KillApi
      <3>3. queue \in Seq(Task) /\ work \in [Workers -> Job]
        BY DEF TypeInv, TypeOK
      <3>4. QED
        BY <3>1, <3>2, <3>3
    <2>3. \A u \in Uploaders : Forfeit(up[u]) \subseteq {"analysis", "incipit"}
      BY DEF Forfeit
    <2>4. \A i \in DOMAIN queue : queue[i] \in Task
      BY DEF TypeInv, TypeOK
    <2>5. InRunner \subseteq {"analysis", "incipit"}
      BY <2>4, JobShape, Tasks DEF InRunner, TypeInv
    <2>6. lost' \in SUBSET {"analysis", "incipit"} /\ stray' \in BOOLEAN
      <3> DEFINE forfeit == lost \cup UNION {Forfeit(up[u]) : u \in Uploaders}
      <3>1. forfeit \subseteq {"analysis", "incipit"}
        BY <2>3 DEF TypeInv, TypeOK
      <3>2. lost' = forfeit \cup InRunner \/ lost' = forfeit
        BY <1>2 DEF KillApi
      <3>3. stray' \in BOOLEAN
        BY <1>2 DEF KillApi, TypeInv, TypeOK
      <3> HIDE DEF forfeit
      <3>4. QED
        BY <2>5, <3>1, <3>2, <3>3
    <2>7. QED
      BY <1>2, <2>1, <2>2, <2>6 DEF KillApi, TypeInv, TypeOK, Dispatched, Idle
  <1>3. CASE UNCHANGED vars
    BY <1>3 DEF vars, TypeInv, TypeOK, Dispatched
  <1>4. QED
    BY <1>1, <1>2, <1>3, TypeUploadStep, TypeTaskStep DEF Next

\* Every reachable state of uploads, tasks and storage is well typed: no task
\* meets a movement without a row or without an MEI, and none is retried beyond
\* its limit.
THEOREM TypeCorrect == Spec => []TypeOK
  <1>1. TypeInv => TypeOK
    BY DEF TypeInv
  <1>2. QED
    BY <1>1, TypeInit, TypeStep, PTL DEF Spec

-----------------------------------------------------------------------------
(* Row and objects of one upload.                                          *)

\* Inductive: one upload at a time has the locks, and what it has stored so far
\* is still what is stored.
FilesInv ==
    /\ \A u, v \in Uploaders : InTransaction(u) /\ InTransaction(v) => u = v
    /\ \A u \in Uploaders :
         /\ up[u].at \in {"half", "stored"} => original = up[u].upload
         /\ up[u].at = "stored" => score = up[u].upload
    /\ ObjectsMatchRow

LEMMA FilesKept ==
    ASSUME FilesInv, UNCHANGED <<original, score>>,
           \A u \in Uploaders : InTransaction(u)' => up'[u] = up[u],
           \/ stray'
           \/ /\ stray' = stray
              /\ row' # NoRow => row # NoRow /\ row'.upload = row.upload
              /\ \A u \in Uploaders : up[u].at \in {"half", "stored"} => InTransaction(u)'
    PROVE  FilesInv'
  <1>1. \A u, v \in Uploaders : (InTransaction(u) /\ InTransaction(v))' => u = v
    BY DEF FilesInv, InTransaction
  <1>2. \A u \in Uploaders : up'[u].at \in {"half", "stored"} => up'[u] = up[u]
    BY DEF InTransaction
  <1>3. ObjectsMatchRow'
    BY <1>2 DEF FilesInv, ObjectsMatchRow, InTransaction
  <1>4. QED
    BY <1>1, <1>2, <1>3 DEF FilesInv

LEMMA FilesStep == TypeInv /\ FilesInv /\ [Next]_vars => FilesInv'
  <1> SUFFICES ASSUME TypeInv, FilesInv, [Next]_vars PROVE FilesInv'
    OBVIOUS
  <1>0. TypeOK /\ up \in [Uploaders -> Upload] /\ stray \in BOOLEAN
    BY DEF TypeInv, TypeOK
  <1>1. ASSUME NEW u \in Uploaders, NEW c \in Uploads, BeginUpload(u, c)
        PROVE  FilesInv'
    <2>1. \A v \in Uploaders : v # u => up'[v] = up[v]
      BY <1>0, <1>1 DEF BeginUpload
    <2>2. up'[u].at = "locked" /\ \A v \in Uploaders : ~InTransaction(v)
      BY <1>0, <1>1 DEF BeginUpload
    <2>3. QED
      BY <1>1, <2>1, <2>2 DEF BeginUpload, FilesInv, ObjectsMatchRow, InTransaction
  <1>2. ASSUME NEW u \in Uploaders, StoreOriginal(u) \/ StoreScore(u)
        PROVE  FilesInv'
    <2>1. /\ InTransaction(u) /\ InTransaction(u)' /\ up'[u].upload = up[u].upload
          /\ \A v \in Uploaders : v # u => up'[v] = up[v]
      BY <1>0, <1>2, Advanced DEF StoreOriginal, StoreScore, InTransaction
    <2>2. \A v \in Uploaders : v # u => ~InTransaction(v) /\ ~InTransaction(v)'
      BY <2>1 DEF FilesInv, InTransaction
    <2>3. /\ up'[u].at \in {"half", "stored"}
          /\ original' = up[u].upload
          /\ up'[u].at = "stored" => score' = up[u].upload
      BY <1>0, <1>2, Advanced DEF StoreOriginal, StoreScore, FilesInv
    <2>4. ObjectsMatchRow'
      BY <2>3 DEF ObjectsMatchRow
    <2>5. QED
      BY <2>1, <2>2, <2>3, <2>4 DEF FilesInv, InTransaction
  <1>3. ASSUME NEW u \in Uploaders, Commit(u)
        PROVE  FilesInv'
    <2>1. /\ InTransaction(u) /\ up'[u].at = "owes"
          /\ \A v \in Uploaders : v # u => up'[v] = up[v]
          /\ UNCHANGED <<original, score>>
      BY <1>0, <1>3 DEF Commit, InTransaction
    <2>2. \A v \in Uploaders : ~InTransaction(v)'
      BY <2>1 DEF FilesInv, InTransaction
    <2>3. row'.upload = original' /\ row'.upload = score'
      BY <1>3 DEF Commit, FilesInv
    <2>4. QED
      BY <2>2, <2>3 DEF FilesInv, ObjectsMatchRow, InTransaction
  <1>4. ASSUME NEW u \in Uploaders, DispatchAnalysis(u) \/ DispatchIncipit(u)
        PROVE  FilesInv'
    <2>1. /\ ~InTransaction(u) /\ ~InTransaction(u)'
          /\ \A v \in Uploaders : v # u => up'[v] = up[v]
          /\ UNCHANGED <<row, original, score, stray>>
      BY <1>0, <1>4, Advanced DEF DispatchAnalysis, DispatchIncipit, InTransaction, Idle
    <2>2. QED
      BY <2>1, FilesKept DEF InTransaction
  <1>5. ASSUME NEW u \in Uploaders, Abort(u)
        PROVE  FilesInv'
    <2>1. /\ ~InTransaction(u)'
          /\ \A v \in Uploaders : v # u => up'[v] = up[v]
          /\ UNCHANGED <<row, original, score>>
      BY <1>0, <1>5 DEF Abort, InTransaction, Idle
    <2>2. stray' \/ (stray' = stray /\ up[u].at \notin {"half", "stored"})
      BY <1>0, <1>5 DEF Abort
    <2>3. QED
      BY <2>1, <2>2, FilesKept DEF InTransaction
  <1>6. CASE KillApi
    <2>1. /\ \A u \in Uploaders : ~InTransaction(u)'
          /\ UNCHANGED <<row, original, score>>
      BY <1>6 DEF KillApi, InTransaction, Idle
    <2>2. stray' \/ (stray' = stray /\ \A u \in Uploaders : up[u].at \notin {"half", "stored"})
      BY <1>0, <1>6 DEF KillApi
    <2>3. QED
      BY <2>1, <2>2, FilesKept
  <1>7. ASSUME UNCHANGED <<up, row, original, score, stray>>
        PROVE  FilesInv'
    BY <1>7, FilesKept DEF InTransaction
  <1>8. ASSUME NEW w \in Workers, TaskStep(w)
        PROVE  FilesInv'
    <2>1. UNCHANGED <<up, original, score, stray>>
      BY <1>8 DEF TaskStep, TakeTask, ReadScore, FinishAnalysis, StoreSvg, NoteKey,
                  FailTask, KillWorker
    <2>2. row' # NoRow => row # NoRow /\ row'.upload = row.upload
      <3>1. CASE row' = row
        BY <3>1
      <3>2. CASE row' # row
        <4>1. WriteAnalysis(w) \/ WriteKey(w)
          BY <1>8, <3>2 DEF TaskStep, TakeTask, ReadScore, FinishAnalysis, StoreSvg,
                            NoteKey, FailTask, KillWorker
        <4>2. work[w].at = "score" \/ work[w].at = "svg"
          BY <4>1 DEF WriteAnalysis, WriteKey
        <4>3. row # NoRow
          BY <4>2 DEF TypeInv, Dispatched, Idle
        <4>4. row \in Row
          BY <1>0, <4>3, RowShape
        <4>5. row'.upload = row.upload
          BY <4>1, <4>4 DEF WriteAnalysis, WriteKey, Row
        <4>6. QED
          BY <4>3, <4>5
      <3>3. QED
        BY <3>1, <3>2
    <2>3. QED
      BY <2>1, <2>2, FilesKept DEF InTransaction
  <1>9. QED
    BY <1>1, <1>2, <1>3, <1>4, <1>5, <1>6, <1>7, <1>8 DEF Next, UploadStep, Redispatch, vars

\* However many uploads of a corpus run at once and wherever they fail, the
\* movement's row, its original and its normalized MEI are from one upload once
\* no upload is between storing and committing, unless a failed one has left
\* files behind.
THEOREM FilesAgree == Spec => []ObjectsMatchRow
  <1>1. ASSUME Init PROVE FilesInv
    BY <1>1 DEF Init, FilesInv, ObjectsMatchRow, InTransaction, Idle
  <1>2. FilesInv => ObjectsMatchRow
    BY DEF FilesInv
  <1>3. QED
    BY <1>1, <1>2, TypeInit, TypeStep, FilesStep, PTL DEF Spec

-----------------------------------------------------------------------------
(* The harmonies on their way.                                             *)

Carries(t, tsv) == t.kind = "analysis" /\ t.tsv = tsv

LEMMA OutstandingMember ==
    ASSUME NEW tsv
    PROVE  tsv \in Outstanding <=>
             \/ \E u \in Uploaders : up[u].at = "owes" /\ up[u].upload = tsv
                                     /\ tsv \in WithHarmonies
             \/ tsv # None /\ \E i \in DOMAIN queue : Carries(queue[i], tsv)
             \/ \E w \in Workers : work[w] # Idle /\ Carries(work[w].task, tsv)
  BY DEF Outstanding, Owed, Queued, InHand, Carries

LEMMA OutstandingMemberNext ==
    ASSUME NEW tsv
    PROVE  tsv \in Outstanding' <=>
             \/ \E u \in Uploaders : up'[u].at = "owes" /\ up'[u].upload = tsv
                                     /\ tsv \in WithHarmonies
             \/ tsv # None /\ \E i \in DOMAIN queue' : Carries(queue'[i], tsv)
             \/ \E w \in Workers : work'[w] # Idle /\ Carries(work'[w].task, tsv)
  BY DEF Outstanding, Owed, Queued, InHand, Carries

\* Appending puts one task at the end, taking removes one from the front.
LEMMA QueueMembers ==
    ASSUME TypeOK
    PROVE  /\ \A t : queue' = Append(queue, t) =>
                /\ \A i \in DOMAIN queue' :
                     queue'[i] = t \/ \E j \in DOMAIN queue : queue[j] = queue'[i]
                /\ \A i \in DOMAIN queue : i \in DOMAIN queue' /\ queue'[i] = queue[i]
                /\ Len(queue) + 1 \in DOMAIN queue' /\ queue'[Len(queue) + 1] = t
           /\ queue # <<>> /\ queue' = Tail(queue) =>
                /\ \A i \in DOMAIN queue' :
                     i + 1 \in DOMAIN queue /\ queue'[i] = queue[i + 1]
                /\ \A i \in DOMAIN queue :
                     queue[i] = Head(queue) \/ \E j \in DOMAIN queue' : queue'[j] = queue[i]
                /\ 1 \in DOMAIN queue /\ queue[1] = Head(queue)
  <1> DEFINE q == queue
  <1>1. q \in Seq(Task) /\ DOMAIN q = 1..Len(q) /\ Len(q) \in Nat
    BY DEF TypeOK
  <1>2. ASSUME NEW t, queue' = Append(q, t)
        PROVE  /\ \A i \in DOMAIN queue' :
                    queue'[i] = t \/ \E j \in DOMAIN q : q[j] = queue'[i]
               /\ \A i \in DOMAIN q : i \in DOMAIN queue' /\ queue'[i] = q[i]
               /\ Len(q) + 1 \in DOMAIN queue' /\ queue'[Len(q) + 1] = t
    BY <1>1, <1>2
  <1>3. ASSUME q # <<>>, queue' = Tail(q)
        PROVE  /\ \A i \in DOMAIN queue' : i + 1 \in DOMAIN q /\ queue'[i] = q[i + 1]
               /\ \A i \in DOMAIN q :
                    q[i] = Head(q) \/ \E j \in DOMAIN queue' : queue'[j] = q[i]
               /\ 1 \in DOMAIN q /\ q[1] = Head(q)
    <2>1. Len(q) > 0 /\ q[1] = Head(q) /\ 1 \in DOMAIN q
      BY <1>1, <1>3
    <2>2. /\ DOMAIN queue' = 1..(Len(q) - 1)
          /\ \A i \in 1..(Len(q) - 1) : queue'[i] = q[i + 1]
      BY <1>1, <1>3, <2>1
    <2>3. ASSUME NEW i \in DOMAIN q, i # 1
          PROVE  i - 1 \in DOMAIN queue' /\ queue'[i - 1] = q[i]
      BY <1>1, <2>2, <2>3
    <2>4. QED
      BY <1>1, <2>1, <2>2, <2>3
  <1>4. QED
    BY <1>2, <1>3

\* Nothing but a commit brings harmonies on their way.
LEMMA Flow ==
    ASSUME TypeInv, [Next]_vars, \A u \in Uploaders : ~Commit(u)
    PROVE  Outstanding' \subseteq Outstanding
  <1>0. TypeOK /\ TypeInv' /\ up \in [Uploaders -> Upload] /\ work \in [Workers -> Job]
    BY TypeStep DEF TypeInv, TypeOK
  <1>1. SUFFICES ASSUME NEW tsv \in Outstanding'
                 PROVE  tsv \in Outstanding
    OBVIOUS
  <1>2. \/ \E u \in Uploaders : up'[u].at = "owes" /\ up'[u].upload = tsv
                               /\ tsv \in WithHarmonies
        \/ tsv # None /\ \E i \in DOMAIN queue' : Carries(queue'[i], tsv)
        \/ \E w \in Workers : work'[w] # Idle /\ Carries(work'[w].task, tsv)
    BY <1>1, OutstandingMemberNext
  <1>3. ASSUME NEW u \in Uploaders, up'[u].at = "owes"
        PROVE  up'[u] = up[u]
    <2>1. ASSUME NEW v \in Uploaders, UploadStep(v)
          PROVE  up'[u] = up[u]
      <3>1. ASSUME NEW x \in {"half", "stored", "owesIncipit"}, up[v].at # "idle",
                   up' = [up EXCEPT ![v].at = x]
            PROVE  up'[u] = up[u]
        BY <1>0, <1>3, <3>1, Advanced
      <3>2. ASSUME NEW q, q.at # "owes", up' = [up EXCEPT ![v] = q]
            PROVE  up'[u] = up[u]
        BY <1>0, <1>3, <3>2
      <3>3. Idle.at # "owes" /\ \A c \in Uploads : [at |-> "locked", upload |-> c].at # "owes"
        BY DEF Idle
      <3>4. QED
        BY <2>1, <3>1, <3>2, <3>3
        DEF UploadStep, BeginUpload, StoreOriginal, StoreScore, DispatchAnalysis,
            DispatchIncipit, Abort
    <2>2. CASE KillApi
      BY <1>3, <2>2 DEF KillApi, Idle
    <2>3. CASE UNCHANGED up
      BY <2>3
    <2>4. QED
      BY <2>1, <2>2, <2>3
      DEF Next, Redispatch, TaskStep, TakeTask, ReadScore, FinishAnalysis, StoreSvg,
          NoteKey, FailTask, KillWorker, vars
  <1>4. ASSUME NEW i \in DOMAIN queue', Carries(queue'[i], tsv), tsv # None
        PROVE  tsv \in Outstanding
    <2>1. CASE \E j \in DOMAIN queue : queue[j] = queue'[i]
      BY <1>4, <2>1, OutstandingMember
    <2>2. ASSUME NEW t, queue' = Append(queue, t), Carries(t, tsv) => tsv \in Outstanding
          PROVE  tsv \in Outstanding
      BY <1>0, <1>4, <2>1, <2>2, QueueMembers
    <2>3. ASSUME NEW u \in Uploaders, DispatchAnalysis(u) \/ DispatchIncipit(u)
          PROVE  tsv \in Outstanding
      <3>1. CASE DispatchAnalysis(u)
        <4> DEFINE t == [kind |-> "analysis",
                         tsv |-> IF up[u].upload \in WithHarmonies THEN up[u].upload ELSE None]
        <4>1. queue' = Append(queue, t) /\ up[u].at = "owes"
          BY <3>1 DEF DispatchAnalysis
        <4>2. Carries(t, tsv) => tsv = up[u].upload /\ tsv \in WithHarmonies
          BY <1>4 DEF Carries
        <4>3. QED
          BY <2>2, <4>1, <4>2, OutstandingMember
      <3>2. CASE DispatchIncipit(u)
        BY <2>2, <3>2 DEF DispatchIncipit, FirstTry, Carries
      <3>3. QED
        BY <2>3, <3>1, <3>2
    <2>4. CASE Redispatch
      BY <1>4, <2>2, <2>4 DEF Redispatch, Carries
    <2>5. ASSUME NEW w \in Workers, TaskStep(w)
          PROVE  tsv \in Outstanding
      <3>1. CASE TakeTask(w)
        BY <1>0, <1>4, <2>1, <3>1, QueueMembers DEF TakeTask
      <3>2. CASE FailTask(w) /\ UNCHANGED queue
        BY <1>4, <2>1, <3>2
      <3>3. CASE FailTask(w) /\ ~UNCHANGED queue
        <4>1. /\ work[w].task \in Task /\ work[w].task.kind = "incipit"
              /\ work[w].task.tries < MaxRetries
              /\ queue' = Append(queue, [work[w].task EXCEPT !.tries = @ + 1])
          BY <1>0, <3>3, JobShape DEF FailTask
        <4>2. QED
          BY <2>2, <4>1, Tasks DEF Carries
      <3>4. CASE KillWorker(w)
        BY <2>2, <3>4, OutstandingMember DEF KillWorker
      <3>5. QED
        BY <1>4, <2>1, <2>5, <3>1, <3>2, <3>3, <3>4
        DEF TaskStep, ReadScore, FinishAnalysis, StoreSvg, NoteKey
    <2>6. CASE KillApi
      BY <1>4, <2>1, <2>6 DEF KillApi
    <2>7. CASE UNCHANGED queue
      BY <1>4, <2>1, <2>7
    <2>8. QED
      BY <2>3, <2>4, <2>5, <2>6, <2>7
      DEF Next, UploadStep, BeginUpload, StoreOriginal, StoreScore, Abort, vars
  <1>5. ASSUME NEW w \in Workers, work'[w] # Idle, Carries(work'[w].task, tsv)
        PROVE  tsv \in Outstanding
    <2>1. CASE work[w] # Idle /\ work'[w].task = work[w].task
      BY <1>5, <2>1, OutstandingMember
    <2>2. ASSUME NEW v \in Workers, TakeTask(v), work'[w] # work[w]
          PROVE  tsv \in Outstanding
      <3>1. queue # <<>> /\ work'[w].task = Head(queue) /\ queue' = Tail(queue)
        BY <1>0, <2>2 DEF TakeTask
      <3>2. tsv # None
        <4>1. work'[w].task.tsv \in WithHarmonies
          BY <1>0, <1>5 DEF TypeInv, Carries
        <4>2. QED
          BY <1>5, <4>1, IngestionAssumption DEF Carries
      <3>3. QED
        BY <1>0, <1>5, <3>1, <3>2, QueueMembers, OutstandingMember
    <2>3. ASSUME NEW v \in Workers, ReadScore(v) \/ StoreSvg(v)
          PROVE  work'[w] = work[w] \/ (work[w] # Idle /\ work'[w].task = work[w].task)
      <3>1. work[v].at = "row" \/ work[v].at = "score"
        BY <2>3 DEF ReadScore, StoreSvg
      <3>2. QED
        BY <1>0, <2>3, <3>1 DEF ReadScore, StoreSvg, Idle
    <2>4. ASSUME NEW v \in Workers, Rest(v)
          PROVE  work'[w] = work[w]
      BY <1>0, <1>5, <2>4 DEF Rest
    <2>5. CASE KillApi
      BY <1>5, <2>1, <2>5 DEF KillApi
    <2>6. CASE UNCHANGED work
      BY <1>5, <2>1, <2>6
    <2>7. QED
      BY <1>5, <2>1, <2>2, <2>3, <2>4, <2>5, <2>6
      DEF Next, UploadStep, BeginUpload, StoreOriginal, StoreScore, Commit, DispatchAnalysis,
          DispatchIncipit, Abort, Redispatch, TaskStep, FinishAnalysis, NoteKey, FailTask,
          KillWorker, vars
  <1>6. CASE \E u \in Uploaders : up'[u].at = "owes" /\ up'[u].upload = tsv
                                /\ tsv \in WithHarmonies
    BY <1>3, <1>6, OutstandingMember
  <1>7. QED
    BY <1>2, <1>4, <1>5, <1>6

-----------------------------------------------------------------------------
(* The flag and the key.                                                   *)

\* Inductive: unless uploads cross analyses, whatever is on its way or in hand
\* is of the newest upload, and so is what was read of row and MEI.
InStep ==
    /\ \A tsv \in Outstanding : tsv = row.upload /\ score = row.upload
    /\ \A w \in Workers : work[w] # Idle /\ work[w].task.kind = "analysis" =>
         /\ work[w].at = "score" => work[w].score = row.upload
         /\ work[w].at \in {"row", "score"} /\ work[w].key = "absent" =>
              row.upload \notin WithKey
    /\ ~row.pending => Analysed
    /\ row.upload \in WithKey => row.key = "given"

StepInv == ~crossed /\ row # NoRow => InStep

\* A step that brings no harmonies on their way, and no MEI while some are.
LEMMA StepKept ==
    ASSUME StepInv, UNCHANGED analysis, crossed => crossed',
           row' # NoRow => /\ row # NoRow
                           /\ row'.upload = row.upload /\ row'.key = row.key
                           /\ row'.pending = row.pending,
           Outstanding' \subseteq Outstanding, Outstanding' = {} \/ score' = score,
           \A w \in Workers : \/ work'[w] = work[w] \/ work'[w] = Idle
                              \/ work'[w].task.kind # "analysis"
    PROVE  StepInv'
  <1> SUFFICES ASSUME ~crossed', row' # NoRow PROVE InStep'
    BY DEF StepInv
  <1>1. InStep
    BY DEF StepInv
  <1>2. Analysed' <=> Analysed
    BY DEF Analysed
  <1>3. QED
    BY <1>1, <1>2 DEF InStep

LEMMA StepUploadStep ==
    ASSUME TypeInv, FilesInv, StepInv, NEW u \in Uploaders, UploadStep(u)
    PROVE  StepInv'
  <1>0. /\ UNCHANGED <<analysis, work>> /\ [Next]_vars /\ TypeOK /\ TypeInv'
        /\ crossed \in BOOLEAN
    <2>1. [Next]_vars
      BY DEF Next
    <2>2. QED
      BY <2>1, TypeStep DEF UploadStep, BeginUpload, StoreOriginal, StoreScore, Commit,
         DispatchAnalysis, DispatchIncipit, Abort, TypeInv, TypeOK
  <1>1. CASE Commit(u)
    <2> DEFINE c == up[u].upload
    <2>1. row'.upload = c /\ row'.pending /\ (c \in WithKey => row'.key = "given")
      BY <1>1 DEF Commit
    <2>2. CASE Outstanding # {}
      BY <1>1, <2>2 DEF Commit, StepInv
    <2>3. CASE Outstanding = {}
      <3>1. score' = c
        BY <1>1 DEF Commit, FilesInv
      <3>2. \A w \in Workers : ~(work[w] # Idle /\ work[w].task.kind = "analysis")
        BY <2>3 DEF Outstanding, InHand
      <3>3. \A tsv \in Outstanding' : tsv = c
        <4>1. Queued' = Queued /\ InHand' = InHand
          BY <1>1 DEF Commit, Queued, InHand
        <4>2. Queued = {} /\ InHand = {} /\ Owed = {}
          BY <2>3 DEF Outstanding
        <4>3. \A v \in Uploaders : up'[v].at = "owes" => up'[v] = up[v] \/ up'[v].upload = c
          BY <1>0, <1>1, Advanced DEF Commit
        <4>4. \A tsv \in Owed' : tsv = c
          BY <4>2, <4>3 DEF Owed
        <4>5. QED
          BY <4>1, <4>2, <4>4 DEF Outstanding
      <3>4. QED
        BY <1>0, <2>1, <3>1, <3>2, <3>3 DEF StepInv, InStep
    <2>4. QED
      BY <2>2, <2>3
  <1>2. CASE ~Commit(u)
    <2>1. Outstanding' \subseteq Outstanding
      <3>1. ASSUME NEW v \in Uploaders, v # u PROVE up'[v] = up[v]
        <4>1. up \in [Uploaders -> Upload]
          BY <1>0 DEF TypeOK
        <4>2. CASE \E c \in Uploads : BeginUpload(u, c)
          BY <3>1, <4>1, <4>2 DEF BeginUpload
        <4>3. CASE StoreOriginal(u) \/ StoreScore(u)
          BY <3>1, <4>1, <4>3 DEF StoreOriginal, StoreScore
        <4>4. CASE DispatchAnalysis(u) \/ DispatchIncipit(u) \/ Abort(u)
          BY <3>1, <4>1, <4>4 DEF DispatchAnalysis, DispatchIncipit, Abort
        <4>5. QED
          BY <1>2, <4>2, <4>3, <4>4 DEF UploadStep
      <3>2. ASSUME NEW v \in Uploaders, Commit(v) PROVE up'[v] # up[v]
        <4>1. up[v].at = "stored" /\ up' = [up EXCEPT ![v].at = "owes"]
          BY <3>2 DEF Commit
        <4>2. up'[v].at = "owes"
          BY <1>0, <4>1, Advanced
        <4>3. QED
          BY <4>1, <4>2
      <3>3. QED
        BY <1>0, <1>2, <3>1, <3>2, Flow
    <2>2. row' = row
      BY <1>2 DEF UploadStep, BeginUpload, StoreOriginal, StoreScore, DispatchAnalysis,
                  DispatchIncipit, Abort
    <2>3. CASE StoreScore(u)
      <3>1. crossed' = (crossed \/ Outstanding # {})
        BY <2>3 DEF StoreScore
      <3>2. CASE Outstanding = {}
        BY <1>0, <2>1, <2>2, <3>1, <3>2, StepKept
      <3>3. CASE Outstanding # {}
        BY <3>1, <3>3 DEF StepInv
      <3>4. QED
        BY <3>2, <3>3
    <2>4. CASE ~StoreScore(u)
      <3>1. UNCHANGED <<score, crossed>>
        BY <1>2, <2>4 DEF UploadStep, BeginUpload, StoreOriginal, DispatchAnalysis,
                          DispatchIncipit, Abort
      <3>2. QED
        BY <1>0, <2>1, <2>2, <3>1, StepKept
    <2>5. QED
      BY <2>3, <2>4
  <1>3. QED
    BY <1>1, <1>2

LEMMA StepTaskStep ==
    ASSUME TypeInv, StepInv, NEW w \in Workers, TaskStep(w)
    PROVE  StepInv'
  <1>0. /\ TypeOK /\ TypeInv' /\ work \in [Workers -> Job]
        /\ UNCHANGED <<up, score, crossed>>
        /\ Outstanding' \subseteq Outstanding
    <2>1. UNCHANGED <<up, score, crossed>>
      BY DEF TaskStep, TakeTask, ReadScore, FinishAnalysis, StoreSvg, NoteKey, FailTask,
             KillWorker
    <2>2. \A u \in Uploaders : ~Commit(u)
      BY <2>1, Advanced DEF Commit, TypeInv
    <2>3. [Next]_vars
      BY DEF Next
    <2>4. QED
      BY <2>1, <2>2, <2>3, Flow, TypeStep DEF TypeInv, TypeOK
  <1>1. ASSUME Rest(w), UNCHANGED <<row, analysis>> \/ WriteKey(w)
        PROVE  StepInv'
    <2>1. \A v \in Workers : work'[v] = work[v] \/ work'[v] = Idle
      BY <1>0, <1>1 DEF Rest
    <2>2. CASE UNCHANGED <<row, analysis>>
      BY <1>0, <2>1, <2>2, StepKept
    <2>3. CASE WriteKey(w)
      <3>1. work[w] # Idle /\ analysis' = analysis
        BY <2>3 DEF WriteKey, Idle
      <3>2. row \in Row
        BY <1>0, <3>1, RowShape DEF TypeInv, Dispatched
      <3>3. row # NoRow /\ row' = [row EXCEPT !.incipit = TRUE]
        BY <2>3, <3>2, RowIsThere DEF WriteKey
      <3>4. row'.upload = row.upload /\ row'.key = row.key /\ row'.pending = row.pending
        BY <3>2, <3>3 DEF Row
      <3>5. QED
        BY <1>0, <2>1, <3>1, <3>3, <3>4, StepKept
    <2>4. QED
      BY <1>1, <2>2, <2>3
  <1>2. ASSUME Rest(w), WriteAnalysis(w)
        PROVE  StepInv'
    <2>1. /\ work[w] # Idle /\ work[w].at = "score" /\ work[w].task.kind = "analysis"
          /\ analysis' = [tsv |-> work[w].task.tsv, score |-> work[w].score]
      BY <1>2 DEF WriteAnalysis, Idle
    <2>2. row \in Row /\ row # NoRow
      BY <1>0, <2>1, RowShape, RowIsThere DEF TypeInv, Dispatched
    <2>3. PICK key \in {row.key} \cup (IF work[w].key = "absent" THEN {"derived"} ELSE {}) :
            row' = [row EXCEPT !.key = key, !.pending = FALSE]
      BY <1>2 DEF WriteAnalysis
    <2>4. row'.upload = row.upload /\ row'.key = key
      BY <2>2, <2>3 DEF Row
    <2>5. \A v \in Workers : work'[v] = work[v] \/ work'[v] = Idle
      BY <1>0, <1>2 DEF Rest
    <2>6. SUFFICES ASSUME ~crossed, InStep PROVE InStep'
      BY <1>0, <2>2 DEF StepInv
    <2>7. Analysed'
      <3>1. work[w].task.tsv \in Outstanding
        BY <2>1, OutstandingMember DEF Carries
      <3>2. work[w].task.tsv = row.upload /\ work[w].score = row.upload
        BY <2>1, <2>6, <3>1 DEF InStep
      <3>3. QED
        BY <2>1, <2>4, <3>2 DEF Analysed
    <2>8. row.upload \in WithKey => row'.key = "given"
      BY <2>1, <2>3, <2>4, <2>6 DEF InStep
    <2>9. QED
      BY <1>0, <2>4, <2>5, <2>6, <2>7, <2>8 DEF InStep
  <1>3. CASE TakeTask(w)
    <2>1. UNCHANGED <<row, analysis>>
      BY <1>3 DEF TakeTask
    <2>2. CASE work' = work
      BY <1>0, <2>1, <2>2, StepKept
    <2>3. CASE work' # work
      <3> DEFINE q == [at |-> "row", task |-> Head(queue),
                       key |-> IF Head(queue).kind = "analysis" THEN row.key ELSE "absent"]
      <3>1. \A v \in Workers : work'[v] = IF v = w THEN q ELSE work[v]
        BY <1>0, <1>3, <2>3 DEF TakeTask
      <3>2. SUFFICES ASSUME ~crossed, row # NoRow, InStep PROVE InStep'
        BY <1>0, <2>1 DEF StepInv
      <3>3. ASSUME NEW v \in Workers, work'[v] # Idle, work'[v].task.kind = "analysis"
            PROVE  /\ work'[v].at = "score" => work'[v].score = row.upload
                   /\ work'[v].at \in {"row", "score"} /\ work'[v].key = "absent" =>
                        row.upload \notin WithKey
        BY <3>1, <3>2, <3>3 DEF InStep
      <3>4. QED
        BY <1>0, <2>1, <3>2, <3>3 DEF InStep, Analysed
    <2>4. QED
      BY <2>2, <2>3
  <1>4. CASE ReadScore(w)
    <2>1. UNCHANGED <<row, analysis>> /\ work[w].at = "row" /\ work[w] # Idle
      BY <1>4 DEF ReadScore, Idle
    <2> DEFINE q == [at |-> "score", task |-> work[w].task, key |-> work[w].key,
                     score |-> score]
    <2>2. \A v \in Workers : work'[v] = IF v = w THEN q ELSE work[v]
      BY <1>0, <1>4 DEF ReadScore
    <2>3. SUFFICES ASSUME ~crossed, row # NoRow, InStep PROVE InStep'
      BY <1>0, <2>1 DEF StepInv
    <2>4. work[w].task.kind = "analysis" => score = row.upload
      BY <2>1, <2>3, OutstandingMember DEF InStep, Carries
    <2>5. ASSUME NEW v \in Workers, work'[v] # Idle, work'[v].task.kind = "analysis"
          PROVE  /\ work'[v].at = "score" => work'[v].score = row.upload
                 /\ work'[v].at \in {"row", "score"} /\ work'[v].key = "absent" =>
                      row.upload \notin WithKey
      BY <2>1, <2>2, <2>3, <2>4, <2>5 DEF InStep
    <2>6. QED
      BY <1>0, <2>1, <2>3, <2>5 DEF InStep, Analysed
  <1>5. CASE StoreSvg(w)
    <2>1. \A v \in Workers : work'[v] = work[v] \/ work'[v].task.kind # "analysis"
      BY <1>0, <1>5 DEF StoreSvg
    <2>2. QED
      BY <1>0, <1>5, <2>1, StepKept DEF StoreSvg
  <1>6. QED
    BY <1>1, <1>2, <1>3, <1>4, <1>5
    DEF TaskStep, FinishAnalysis, NoteKey, FailTask, KillWorker

LEMMA StepStep == TypeInv /\ FilesInv /\ StepInv /\ [Next]_vars => StepInv'
  <1> SUFFICES ASSUME TypeInv, FilesInv, StepInv, [Next]_vars PROVE StepInv'
    OBVIOUS
  <1>1. CASE Redispatch \/ KillApi \/ UNCHANGED vars
    <2>1. /\ UNCHANGED <<row, analysis, score, crossed>>
          /\ \A w \in Workers : work'[w] = work[w] \/ work'[w] = Idle
      BY <1>1 DEF Redispatch, KillApi, vars
    <2>2. \A u \in Uploaders : ~Commit(u)
      <3>1. ASSUME NEW u \in Uploaders, Commit(u)
            PROVE  up'[u].at = "owes" /\ up[u].at = "stored"
        BY <3>1, Advanced DEF Commit, TypeInv
      <3>2. \A u \in Uploaders : up'[u] = up[u] \/ up'[u] = Idle
        BY <1>1 DEF Redispatch, KillApi, vars
      <3>3. QED
        BY <3>1, <3>2 DEF Idle
    <2>3. QED
      BY <2>1, <2>2, Flow, StepKept
  <1>2. QED
    BY <1>1, StepUploadStep, StepTaskStep DEF Next

LEMMA StepInit == Init => TypeInv /\ FilesInv /\ StepInv
  <1> SUFFICES ASSUME Init PROVE FilesInv /\ StepInv
    BY TypeInit
  <1>1. QED
    BY DEF Init, FilesInv, ObjectsMatchRow, InTransaction, Idle, StepInv

\* Unless an upload crosses an analysis that is still to come, a movement that is
\* not pending was analysed from harmonies and MEI of its newest upload: for any
\* number of workers, in either mode, whatever is retried, delivered twice, sent
\* by the operator, rolled back or killed.
THEOREM FlagIsTruthful == Spec => []FlagTruthful
  <1>1. StepInv => FlagTruthful
    BY DEF StepInv, InStep, FlagTruthful
  <1>2. QED
    BY <1>1, StepInit, TypeStep, FilesStep, StepStep, PTL DEF Spec

\* Under the same condition a given key signature is never replaced.
THEOREM GivenKeysStay == Spec => []GivenKeyKept
  <1>1. StepInv => GivenKeyKept
    BY DEF StepInv, InStep, GivenKeyKept
  <1>2. QED
    BY <1>1, StepInit, TypeStep, FilesStep, StepStep, PTL DEF Spec

-----------------------------------------------------------------------------
(* Pending movements.                                                      *)

\* Harmonies on their way stay on it, or are stored or lost.
LEMMA Accounted ==
    ASSUME TypeInv, [Next]_vars, NEW tsv \in Outstanding
    PROVE  tsv \in Outstanding' \/ "analysis" \in lost' \/ ~row'.pending
  <1>0. /\ TypeOK /\ TypeInv' /\ up \in [Uploaders -> Upload] /\ work \in [Workers -> Job]
        /\ row = NoRow \/ row \in Row
    BY TypeStep DEF TypeInv, TypeOK
  <1>1. ASSUME NEW u \in Uploaders, up[u].at = "owes", up[u].upload = tsv,
               tsv \in WithHarmonies
        PROVE  tsv \in Outstanding' \/ "analysis" \in lost'
    <2>1. CASE up'[u] = up[u]
      BY <1>1, <2>1, OutstandingMemberNext
    <2>2. CASE DispatchAnalysis(u)
      <3>1. queue' = Append(queue, [kind |-> "analysis", tsv |-> tsv])
        BY <1>1, <2>2 DEF DispatchAnalysis
      <3>2. tsv # None
        BY <1>1, IngestionAssumption
      <3>3. QED
        BY <1>0, <3>1, <3>2, QueueMembers, OutstandingMemberNext DEF Carries
    <2>3. CASE Abort(u)
      BY <1>1, <2>3 DEF Abort, Forfeit
    <2>4. CASE KillApi
      <3>1. "analysis" \in Forfeit(up[u])
        BY <1>1 DEF Forfeit
      <3>2. QED
        BY <2>4, <3>1 DEF KillApi
    <2>5. ASSUME NEW v \in Uploaders, UploadStep(v), ~DispatchAnalysis(u), ~Abort(u)
          PROVE  up'[u] = up[u]
      <3>1. CASE v = u
        BY <1>1, <2>5, <3>1
        DEF UploadStep, BeginUpload, StoreOriginal, StoreScore, Commit, DispatchIncipit, Idle
      <3>2. CASE v # u
        <4>1. CASE (\E c \in Uploads : BeginUpload(v, c)) \/ StoreOriginal(v) \/ StoreScore(v)
          BY <1>0, <3>2, <4>1 DEF BeginUpload, StoreOriginal, StoreScore
        <4>2. CASE Commit(v) \/ DispatchAnalysis(v)
          BY <1>0, <3>2, <4>2 DEF Commit, DispatchAnalysis
        <4>3. CASE DispatchIncipit(v) \/ Abort(v)
          BY <1>0, <3>2, <4>3 DEF DispatchIncipit, Abort
        <4>4. QED
          BY <2>5, <4>1, <4>2, <4>3 DEF UploadStep
      <3>3. QED
        BY <3>1, <3>2
    <2>6. ASSUME UNCHANGED up
          PROVE  up'[u] = up[u]
      BY <2>6
    <2>7. QED
      BY <2>1, <2>2, <2>3, <2>4, <2>5, <2>6
      DEF Next, Redispatch, TaskStep, TakeTask, ReadScore, FinishAnalysis, StoreSvg,
          NoteKey, FailTask, KillWorker, vars
  <1>2. ASSUME NEW i \in DOMAIN queue, Carries(queue[i], tsv), tsv # None
        PROVE  tsv \in Outstanding' \/ "analysis" \in lost'
    <2>1. CASE \E j \in DOMAIN queue' : queue'[j] = queue[i]
      BY <1>2, <2>1, OutstandingMemberNext
    <2>2. ASSUME NEW t, queue' = Append(queue, t)
          PROVE  \E j \in DOMAIN queue' : queue'[j] = queue[i]
      BY <1>0, <2>2, QueueMembers
    <2>3. ASSUME NEW w \in Workers, TakeTask(w)
          PROVE  tsv \in Outstanding'
      <3>1. queue # <<>> /\ queue' = Tail(queue)
        BY <2>3 DEF TakeTask
      <3>2. CASE queue[i] = Head(queue)
        <4>1. work'[w].task = queue[i] /\ work'[w].at = "row"
          BY <1>0, <1>2, <2>3, <3>2 DEF TakeTask, Carries
        <4>2. QED
          BY <1>2, <4>1, OutstandingMemberNext DEF Idle
      <3>3. CASE queue[i] # Head(queue)
        BY <1>0, <2>1, <3>1, <3>3, QueueMembers, <1>2, OutstandingMemberNext
      <3>4. QED
        BY <3>2, <3>3
    <2>4. CASE KillApi
      <3>1. "analysis" \in InRunner
        BY <1>2 DEF Carries, InRunner
      <3>2. QED
        BY <2>1, <2>4, <3>1 DEF KillApi
    <2>5. CASE UNCHANGED queue
      BY <2>1, <2>5
    <2>6. QED
      BY <2>1, <2>2, <2>3, <2>4, <2>5
      DEF Next, UploadStep, BeginUpload, StoreOriginal, StoreScore, Commit, DispatchAnalysis,
          DispatchIncipit, Abort, Redispatch, TaskStep, ReadScore, FinishAnalysis, StoreSvg,
          NoteKey, FailTask, KillWorker, vars
  <1>3. ASSUME NEW w \in Workers, work[w] # Idle, Carries(work[w].task, tsv)
        PROVE  tsv \in Outstanding' \/ "analysis" \in lost' \/ ~row'.pending
    <2>0. /\ work[w].task.kind = "analysis" /\ work[w].task.tsv = tsv /\ tsv # None
          /\ work[w].at # "svg" /\ row \in Row
      BY <1>0, <1>3, JobShape, IngestionAssumption, RowShape DEF Carries, TypeInv, Dispatched
    <2>1. CASE work'[w] # Idle /\ work'[w].task = work[w].task
      BY <1>3, <2>1, OutstandingMemberNext
    <2>2. CASE WriteAnalysis(w)
      BY <2>0, <2>2 DEF WriteAnalysis, Row
    <2>3. CASE FailTask(w)
      BY <2>0, <2>3 DEF FailTask
    <2>4. CASE KillWorker(w)
      <3>1. queue' = Append(queue, work[w].task)
        BY <2>4 DEF KillWorker
      <3>2. QED
        BY <1>0, <1>3, <2>0, <3>1, QueueMembers, OutstandingMemberNext
    <2>5. CASE KillApi
      <3>1. "analysis" \in InRunner
        BY <1>3, <2>0 DEF InRunner
      <3>2. QED
        BY <1>3, <2>1, <2>5, <3>1 DEF KillApi
    <2>6. ASSUME NEW v \in Workers, TaskStep(v),
                 ~WriteAnalysis(w), ~FailTask(w), ~KillWorker(w)
          PROVE  work'[w] # Idle /\ work'[w].task = work[w].task
      <3>1. CASE v = w
        <4>1. CASE ReadScore(w) \/ StoreSvg(w)
          BY <1>0, <4>1 DEF ReadScore, StoreSvg, Idle
        <4>2. QED
          BY <1>3, <2>0, <2>6, <3>1, <4>1
          DEF TaskStep, TakeTask, FinishAnalysis, NoteKey, WriteKey
      <3>2. CASE v # w
        <4>1. work'[w] = work[w]
          BY <1>0, <2>6, <3>2
          DEF TaskStep, TakeTask, ReadScore, FinishAnalysis, StoreSvg, NoteKey, FailTask,
              KillWorker, Rest
        <4>2. QED
          BY <1>3, <4>1
      <3>3. QED
        BY <3>1, <3>2
    <2>7. CASE UNCHANGED work
      BY <1>3, <2>1, <2>7
    <2>8. QED
      BY <2>1, <2>2, <2>3, <2>4, <2>5, <2>6, <2>7
      DEF Next, UploadStep, BeginUpload, StoreOriginal, StoreScore, Commit, DispatchAnalysis,
          DispatchIncipit, Abort, Redispatch, vars
  <1>4. QED
    BY <1>1, <1>2, <1>3, OutstandingMember

LEMMA PendingStep == TypeInv /\ PendingExplained /\ [Next]_vars => PendingExplained'
  <1> SUFFICES ASSUME TypeInv, PendingExplained, [Next]_vars, row' # NoRow, row'.pending
               PROVE  \/ Outstanding' # {}
                      \/ "analysis" \in lost'
                      \/ row'.upload \notin WithHarmonies
    BY DEF PendingExplained
  <1>0. TypeOK
    BY DEF TypeInv
  <1>1. ASSUME NEW u \in Uploaders, Commit(u), row'.upload \in WithHarmonies
        PROVE  Outstanding' # {}
    <2>1. row'.upload = up[u].upload
      BY <1>1 DEF Commit
    <2>2. up[u].at = "stored" /\ up' = [up EXCEPT ![u].at = "owes"]
      BY <1>1 DEF Commit
    <2>3. up'[u].at = "owes" /\ up'[u].upload = up[u].upload
      BY <1>0, <2>2, Advanced
    <2>4. QED
      BY <1>1, <2>1, <2>3, OutstandingMemberNext
  <1>2. ASSUME row # NoRow, row.pending, row'.upload = row.upload
        PROVE  \/ Outstanding' # {}
               \/ "analysis" \in lost'
               \/ row'.upload \notin WithHarmonies
    <2>1. CASE Outstanding # {}
      BY <2>1, Accounted
    <2>2. ASSUME NEW u \in Uploaders, DispatchAnalysis(u), "analysis" \notin lost',
                 "analysis" \in lost
          PROVE  Outstanding' # {}
      <3> DEFINE c == up[u].upload
                 t == [kind |-> "analysis", tsv |-> c]
      <3>1. c \in WithHarmonies /\ queue' = Append(queue, t)
        BY <2>2 DEF DispatchAnalysis
      <3>2. c # None /\ Carries(t, c)
        BY <3>1, IngestionAssumption DEF Carries
      <3> HIDE DEF t
      <3>3. \E i \in DOMAIN queue' : queue'[i] = t
        BY <1>0, <3>1, QueueMembers
      <3>4. c \in Outstanding'
        BY <3>2, <3>3, OutstandingMemberNext
      <3>5. QED
        BY <3>4
    <2>3. ASSUME "analysis" \in lost, \A u \in Uploaders : ~DispatchAnalysis(u)
          PROVE  "analysis" \in lost'
      BY <2>3
      DEF Next, UploadStep, BeginUpload, StoreOriginal, StoreScore, Commit, DispatchIncipit,
          Abort, Redispatch, KillApi, TaskStep, TakeTask, ReadScore, FinishAnalysis,
          StoreSvg, NoteKey, FailTask, KillWorker, vars
    <2>4. QED
      BY <1>2, <2>1, <2>2, <2>3 DEF PendingExplained
  <1>3. ASSUME \A u \in Uploaders : ~Commit(u)
        PROVE  row # NoRow /\ row.pending /\ row'.upload = row.upload
    <2>1. CASE row' = row
      BY <2>1
    <2>2. CASE row' # row
      <3>1. PICK w \in Workers : WriteAnalysis(w) \/ WriteKey(w)
        BY <1>3, <2>2
        DEF Next, UploadStep, BeginUpload, StoreOriginal, StoreScore, DispatchAnalysis,
            DispatchIncipit, Abort, Redispatch, KillApi, TaskStep, TakeTask, ReadScore,
            FinishAnalysis, StoreSvg, NoteKey, FailTask, KillWorker, vars
      <3>2. work[w] # Idle
        <4>1. work[w].at = "score" \/ work[w].at = "svg"
          BY <3>1 DEF WriteAnalysis, WriteKey
        <4>2. QED
          BY <4>1 DEF Idle
      <3>3. row # NoRow /\ row \in Row
        BY <1>0, <3>2, RowShape DEF TypeInv, Dispatched
      <3>4. ASSUME WriteAnalysis(w) PROVE FALSE
        <4>1. PICK key \in {row.key} \cup (IF work[w].key = "absent" THEN {"derived"} ELSE {}) :
                row' = [row EXCEPT !.key = key, !.pending = FALSE]
          BY <3>4 DEF WriteAnalysis
        <4>2. row'.pending = FALSE
          BY <3>3, <4>1 DEF Row
        <4>3. QED
          BY <4>2
      <3>5. row' = [row EXCEPT !.incipit = TRUE]
        BY <3>1, <3>4 DEF WriteKey
      <3>6. QED
        BY <3>3, <3>5 DEF Row
    <2>3. QED
      BY <2>1, <2>2
  <1>4. QED
    BY <1>1, <1>2, <1>3

\* A movement with harmonies stays pending only while they are on their way or
\* after they were lost: no failure, retry or second delivery leaves the flag
\* set behind an analysis that was stored.
THEOREM PendingIsExplained == Spec => []PendingExplained
  <1>1. Init => PendingExplained
    BY DEF Init, PendingExplained
  <1>2. QED
    BY <1>1, TypeInit, TypeStep, PendingStep, PTL DEF Spec

-----------------------------------------------------------------------------
(* Incipits, for one worker.                                               *)

OneWorker == \A v, w \in Workers : v = w

Drawing(w) == work[w] # Idle /\ work[w].task.kind = "incipit"

\* A rendering that will show, or shows, the MEI as it is stored now.
OnTrack(w) ==
    \/ work[w].at = "row"
    \/ work[w].at = "score" /\ work[w].score = score
    \/ work[w].at = "svg" /\ incipit = score

Announced == \E u \in Uploaders : up[u].at \in {"stored", "owes", "owesIncipit"}
Waiting == \E i \in DOMAIN queue : queue[i].kind = "incipit"

\* Inductive: unless it was lost, a current incipit is still to be dispatched,
\* queued, being rendered from what is stored, or there.
IncipitInv ==
    row # NoRow /\ "incipit" \notin lost =>
        \/ Announced
        \/ Waiting
        \/ \E w \in Workers : Drawing(w) /\ OnTrack(w)
        \/ row.incipit /\ incipit = score /\ \A w \in Workers : ~Drawing(w)

LEMMA IncipitUploadStep ==
    ASSUME TypeInv, IncipitInv, NEW u \in Uploaders, UploadStep(u)
    PROVE  IncipitInv'
  <1>0. /\ TypeOK /\ up \in [Uploaders -> Upload] /\ UNCHANGED <<work, incipit>>
    BY DEF UploadStep, BeginUpload, StoreOriginal, StoreScore, Commit, DispatchAnalysis,
           DispatchIncipit, Abort, TypeInv, TypeOK
  <1>1. ASSUME StoreScore(u) \/ Commit(u) \/ DispatchAnalysis(u)
        PROVE  IncipitInv'
    <2>1. up'[u].at \in {"stored", "owes", "owesIncipit"}
      BY <1>0, <1>1, Advanced DEF StoreScore, Commit, DispatchAnalysis
    <2>2. QED
      BY <2>1 DEF IncipitInv, Announced
  <1>2. CASE DispatchIncipit(u)
    <2>1. queue' = Append(queue, FirstTry) /\ FirstTry.kind = "incipit"
      BY <1>2 DEF DispatchIncipit, FirstTry
    <2>2. Waiting'
      BY <1>0, <2>1, QueueMembers DEF Waiting
    <2>3. QED
      BY <2>2 DEF IncipitInv
  <1>3. ASSUME ~(up[u].at \in {"stored", "owes", "owesIncipit"}),
               UNCHANGED <<row, score, queue>>, lost \subseteq lost',
               \A v \in Uploaders : v # u => up'[v] = up[v]
        PROVE  IncipitInv'
    <2>1. Announced => Announced'
      BY <1>3 DEF Announced
    <2>2. QED
      BY <1>0, <1>3, <2>1 DEF IncipitInv, Waiting, Drawing, OnTrack
  <1>4. ASSUME NEW c \in Uploads, BeginUpload(u, c)
        PROVE  IncipitInv'
    BY <1>0, <1>3, <1>4 DEF BeginUpload, Idle
  <1>5. CASE StoreOriginal(u)
    BY <1>0, <1>3, <1>5 DEF StoreOriginal
  <1>6. CASE Abort(u)
    <2>1. CASE up[u].at \in {"stored", "owes", "owesIncipit"}
      <3>1. "incipit" \in Forfeit(up[u])
        BY <2>1 DEF Forfeit
      <3>2. QED
        BY <1>6, <3>1 DEF Abort, IncipitInv
    <2>2. CASE ~(up[u].at \in {"stored", "owes", "owesIncipit"})
      BY <1>0, <1>3, <1>6, <2>2 DEF Abort
    <2>3. QED
      BY <2>1, <2>2
  <1>7. QED
    BY <1>1, <1>2, <1>4, <1>5, <1>6 DEF UploadStep

LEMMA IncipitTaskStep ==
    ASSUME OneWorker, TypeInv, IncipitInv, NEW w \in Workers, TaskStep(w)
    PROVE  IncipitInv'
  <1>0. /\ TypeOK /\ work \in [Workers -> Job] /\ UNCHANGED <<up, score>>
        /\ \A v \in Workers : v = w
        /\ Announced' = Announced
    BY DEF OneWorker, TaskStep, TakeTask, ReadScore, FinishAnalysis, StoreSvg, NoteKey,
           FailTask, KillWorker, TypeInv, TypeOK, Announced
  <1>1. ASSUME UNCHANGED row \/ WriteAnalysis(w) \/ WriteKey(w)
        PROVE  /\ row' # NoRow => row # NoRow
               /\ row' # NoRow /\ row.incipit => row'.incipit
    <2>1. CASE UNCHANGED row
      BY <2>1
    <2>2. CASE WriteAnalysis(w) \/ WriteKey(w)
      <3>1. work[w].at = "score" \/ work[w].at = "svg"
        BY <2>2 DEF WriteAnalysis, WriteKey
      <3>2. row \in Row /\ row # NoRow
        BY <1>0, <3>1, RowShape DEF TypeInv, Dispatched, Idle
      <3>3. row'.incipit = row.incipit \/ row'.incipit = TRUE
        BY <2>2, <3>2 DEF WriteAnalysis, WriteKey, Row
      <3>4. QED
        BY <3>2, <3>3
    <2>3. QED
      BY <1>1, <2>1, <2>2
  <1>2. CASE TakeTask(w)
    <2>1. queue # <<>> /\ queue' = Tail(queue) /\ UNCHANGED <<row, incipit, lost>>
          /\ work[w] = Idle
      BY <1>2 DEF TakeTask
    <2>2. CASE Head(queue).kind = "incipit"
      <3>1. work'[w].at = "row" /\ work'[w].task = Head(queue)
        BY <1>0, <1>2, <2>2 DEF TakeTask
      <3>2. QED
        BY <2>2, <3>1 DEF IncipitInv, Drawing, OnTrack, Idle
    <2>3. CASE Head(queue).kind # "incipit"
      <3>1. Waiting => Waiting'
        BY <1>0, <2>1, <2>3, QueueMembers DEF Waiting
      <3>2. ~Drawing(w)'
        BY <1>0, <1>2, <2>1, <2>3 DEF TakeTask, Drawing
      <3>3. ~Drawing(w)
        BY <2>1 DEF Drawing
      <3>4. QED
        BY <1>0, <2>1, <3>1, <3>2, <3>3 DEF IncipitInv
    <2>4. QED
      BY <2>2, <2>3
  <1>3. CASE ReadScore(w) \/ StoreSvg(w)
    <2>1. work[w].at = "row" \/ work[w].at = "score"
      BY <1>3 DEF ReadScore, StoreSvg
    <2>2. /\ UNCHANGED <<row, queue, lost>> /\ work[w] # Idle
          /\ work'[w] # Idle /\ work'[w].task = work[w].task
      BY <1>0, <1>3, <2>1 DEF ReadScore, StoreSvg, Idle
    <2>3. OnTrack(w) => OnTrack(w)'
      BY <1>0, <1>3 DEF ReadScore, StoreSvg, OnTrack
    <2>4. ~Drawing(w) => incipit' = incipit
      BY <1>3, <2>2 DEF ReadScore, StoreSvg, Drawing
    <2>5. QED
      BY <1>0, <2>2, <2>3, <2>4 DEF IncipitInv, Waiting, Drawing
  <1>4. CASE FinishAnalysis(w)
    <2>1. /\ UNCHANGED <<incipit, queue, lost>> /\ work'[w] = Idle /\ WriteAnalysis(w)
          /\ ~Drawing(w)
      BY <1>0, <1>4 DEF FinishAnalysis, Rest, WriteAnalysis, Drawing
    <2>2. QED
      BY <1>0, <1>1, <2>1 DEF IncipitInv, Waiting, Drawing
  <1>5. CASE NoteKey(w)
    <2>1. /\ UNCHANGED <<incipit, queue, lost>> /\ work'[w] = Idle /\ WriteKey(w)
          /\ work[w].at = "svg"
      BY <1>0, <1>5 DEF NoteKey, Rest, WriteKey
    <2>2. row # NoRow /\ row \in Row
      BY <1>0, <2>1, RowShape DEF TypeInv, Dispatched, Idle
    <2>3. row'.incipit
      BY <2>1, <2>2 DEF WriteKey, Row
    <2>4. OnTrack(w) => incipit = score
      BY <2>1 DEF OnTrack
    <2>5. QED
      BY <1>0, <1>1, <2>1, <2>2, <2>3, <2>4 DEF IncipitInv, Waiting, Drawing
  <1>6. CASE FailTask(w)
    <2>1. /\ UNCHANGED <<row, incipit>> /\ work'[w] = Idle /\ work[w].task \in Task
          /\ work[w] # Idle
      BY <1>0, <1>6, JobShape DEF FailTask, Rest
    <2>2. CASE mode = "celery" /\ work[w].task.kind = "incipit"
               /\ work[w].task.tries < MaxRetries
      <3>1. queue' = Append(queue, [work[w].task EXCEPT !.tries = @ + 1])
        BY <1>6, <2>2 DEF FailTask
      <3> DEFINE t == [work[w].task EXCEPT !.tries = @ + 1]
      <3>2. t.kind = "incipit"
        BY <2>1, <2>2, Tasks
      <3> HIDE DEF t
      <3>3. \E i \in DOMAIN queue' : queue'[i] = t
        BY <1>0, <3>1, QueueMembers DEF t
      <3>4. QED
        BY <3>2, <3>3 DEF IncipitInv, Waiting
    <2>3. CASE ~(mode = "celery" /\ work[w].task.kind = "incipit"
                 /\ work[w].task.tries < MaxRetries)
      <3>1. queue' = queue /\ lost' = lost \cup {work[w].task.kind}
        BY <1>6, <2>3 DEF FailTask
      <3>2. CASE Drawing(w)
        BY <3>1, <3>2 DEF IncipitInv, Drawing
      <3>3. CASE ~Drawing(w)
        BY <1>0, <2>1, <3>1, <3>3 DEF IncipitInv, Waiting, Drawing
      <3>4. QED
        BY <3>2, <3>3
    <2>4. QED
      BY <2>2, <2>3
  <1>7. CASE KillWorker(w)
    <2>1. /\ UNCHANGED <<incipit, lost>> /\ work'[w] = Idle /\ work[w] # Idle
          /\ queue' = Append(queue, work[w].task)
          /\ UNCHANGED row \/ WriteAnalysis(w) \/ WriteKey(w)
      BY <1>0, <1>7 DEF KillWorker, Rest
    <2>2. Drawing(w) \/ Waiting => Waiting'
      BY <1>0, <2>1, QueueMembers DEF Waiting, Drawing
    <2>3. QED
      BY <1>0, <1>1, <2>1, <2>2 DEF IncipitInv, Drawing
  <1>8. QED
    BY <1>2, <1>3, <1>4, <1>5, <1>6, <1>7 DEF TaskStep

LEMMA IncipitStep == OneWorker /\ TypeInv /\ IncipitInv /\ [Next]_vars => IncipitInv'
  <1> SUFFICES ASSUME OneWorker, TypeInv, IncipitInv, [Next]_vars PROVE IncipitInv'
    OBVIOUS
  <1>1. CASE Redispatch
    <2>1. Waiting => Waiting'
      BY <1>1, QueueMembers DEF Redispatch, Waiting, TypeInv
    <2>2. QED
      BY <1>1, <2>1 DEF Redispatch, IncipitInv, Announced, Drawing, OnTrack
  <1>2. CASE KillApi
    <2>1. UNCHANGED <<row, score, incipit>>
      BY <1>2 DEF KillApi
    <2>2. CASE Announced
      <3>1. \E u \in Uploaders : "incipit" \in Forfeit(up[u])
        BY <2>2 DEF Announced, Forfeit
      <3>2. "incipit" \in lost'
        BY <1>2, <3>1 DEF KillApi
      <3>3. QED
        BY <3>2 DEF IncipitInv
    <2>3. CASE ~Announced /\ mode = "inline"
      <3>1. /\ lost \subseteq lost' /\ InRunner \subseteq lost'
            /\ \A w \in Workers : work'[w] = Idle
        BY <1>2, <2>3 DEF KillApi
      <3>2. Waiting \/ (\E w \in Workers : Drawing(w)) => "incipit" \in InRunner
        BY DEF Waiting, Drawing, InRunner
      <3>3. QED
        BY <2>1, <2>3, <3>1, <3>2 DEF IncipitInv, Drawing
    <2>4. CASE ~Announced /\ mode # "inline"
      <3>1. lost \subseteq lost' /\ UNCHANGED <<queue, work>>
        BY <1>2, <2>4 DEF KillApi
      <3>2. QED
        BY <2>1, <2>4, <3>1 DEF IncipitInv, Waiting, Drawing, OnTrack
    <2>5. QED
      BY <2>2, <2>3, <2>4
  <1>3. CASE UNCHANGED vars
    BY <1>3 DEF vars, IncipitInv, Announced, Waiting, Drawing, OnTrack
  <1>4. QED
    BY <1>1, <1>2, <1>3, IncipitUploadStep, IncipitTaskStep DEF Next

\* With one worker, an incipit that nothing is about to render again and that
\* was not lost shows the MEI as it is stored, however uploads, their failures,
\* retries and crashes interleave with the rendering.
THEOREM IncipitsAreFresh ==
    ASSUME OneWorker
    PROVE  Spec => []IncipitFresh
  <1>1. ASSUME Init PROVE IncipitInv
    BY <1>1 DEF Init, IncipitInv
  <1>2. IncipitInv => IncipitFresh
    <2>1. Announced \/ Waiting \/ (\E w \in Workers : Drawing(w)) => IncipitPending
      BY DEF Announced, Waiting, Drawing, IncipitPending, InRunner
    <2>2. QED
      BY <2>1 DEF IncipitInv, IncipitFresh
  <1>3. TypeInv /\ IncipitInv /\ [Next]_vars => IncipitInv'
    BY IncipitStep
  <1>4. QED
    BY <1>1, <1>2, <1>3, TypeInit, TypeStep, PTL DEF Spec
=============================================================================
