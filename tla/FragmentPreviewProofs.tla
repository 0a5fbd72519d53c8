----------------------- MODULE FragmentPreviewProofs -----------------------
(***************************************************************************)
(* What FragmentPreview guarantees for any number of fragments, requests,  *)
(* scores and retries and for a queue of any length: a row with a key has  *)
(* its object, whatever runs at the same time; and where one worker takes  *)
(* the tasks and requests about one fragment do not overlap, no active     *)
(* fragment is left with a preview of what it was.                         *)
(***************************************************************************)
EXTENDS FragmentPreview, FiniteSetTheorems, TLAPS

-----------------------------------------------------------------------------
(* What a request and a worker carry at each of their stages.              *)

LEMMA RequestShape ==
    ASSUME TypeOK, NEW r \in Requests
    PROVE  /\ req[r].at \in RowRequests =>
                /\ req[r].fragment \in Fragments
                /\ req[r].read \in Row
                /\ req[r].range \in Ranges
           /\ req[r].at = "dispatch" => req[r].fragment \in Fragments
           /\ Owed(r) \subseteq Fragments
  <1>1. req[r] \in Request
    BY DEF TypeOK
  <1>2. /\ req[r].at \in RowRequests =>
                /\ req[r].fragment \in Fragments
                /\ req[r].read \in Row
                /\ req[r].range \in Ranges
        /\ req[r].at = "dispatch" => req[r].fragment \in Fragments
    BY <1>1 DEF Request, RowRequests, Idle
  <1>3. QED
    BY <1>2 DEF Owed

LEMMA JobShape ==
    ASSUME TypeOK, NEW w \in Workers, work[w] # Idle
    PROVE  /\ work[w].task \in Task
           /\ work[w].task.fragment \in Fragments
           /\ work[w].at \in {"row", "score", "svg"}
           /\ work[w].at \in {"row", "score"} => work[w].range \in Ranges
           /\ work[w].at = "score" => work[w].score \in Scores
  <1>1. work[w] \in Job
    BY DEF TypeOK
  <1>2. QED
    BY <1>1 DEF Job, Task

\* Noting a key changes nothing else, and only of a row that is there.
LEMMA NotedRow ==
    ASSUME TypeOK, NEW w \in Workers, work[w].at = "svg",
           row' = KeyNoted(work[w].task.fragment)
    PROVE  /\ row' \in [Fragments -> Row \cup {NoRow}]
           /\ \A f \in Fragments :
                \/ row'[f] = row[f]
                \/ /\ f = work[w].task.fragment
                   /\ row'[f] # NoRow /\ row[f] # NoRow
                   /\ row'[f].status = row[f].status
                   /\ row'[f].range = row[f].range
  <1> DEFINE g == work[w].task.fragment
  <1>1. g \in Fragments /\ row \in [Fragments -> Row \cup {NoRow}]
    BY JobShape DEF Idle, TypeOK
  <1>2. CASE row[g] # NoRow
    <2>1. row[g] \in Row
      BY <1>1, <1>2
    <2>2. row' = [row EXCEPT ![g].keyed = TRUE]
      BY <1>2 DEF KeyNoted, Exists
    <2>3. row'[g] = [row[g] EXCEPT !.keyed = TRUE]
      BY <1>1, <2>2
    <2>4. row'[g] \in Row /\ row'[g].status = row[g].status /\ row'[g].range = row[g].range
      BY <2>1, <2>3 DEF Row
    <2>5. row'[g] # NoRow
      BY <2>4 DEF Row, NoRow, Statuses
    <2>6. QED
      BY <1>1, <1>2, <2>2, <2>4, <2>5
  <1>3. CASE row[g] = NoRow
    BY <1>1, <1>3 DEF KeyNoted, Exists
  <1>4. QED
    BY <1>2, <1>3

LEMMA ActiveRow ==
    ASSUME TypeOK, NEW f \in Active
    PROVE  f \in Fragments /\ row[f] \in Row
  BY DEF TypeOK, Active, NoRow, UnderReview

LEMMA ReopenedStatus ==
    ASSUME NEW st \in Statuses
    PROVE  /\ Reopened(st) \in Statuses
           /\ Reopened(st) \in UnderReview <=> st \in UnderReview
  BY DEF Reopened, Statuses, UnderReview

LEMMA FirstTryTask ==
    ASSUME NEW f \in Fragments
    PROVE  FirstTry(f) \in Task /\ FirstTry(f).fragment = f
  BY PreviewAssumption DEF FirstTry, Task

LEMMA RetriedTask ==
    ASSUME NEW t \in Task, t.tries < MaxRetries
    PROVE  /\ [t EXCEPT !.tries = @ + 1] \in Task
           /\ [t EXCEPT !.tries = @ + 1].fragment = t.fragment
  BY PreviewAssumption DEF Task

\* The tasks of a re-ingested movement: one for each active fragment, in an
\* order of their own.
LEMMA EnqueuedTasks ==
    ASSUME TypeOK, NEW r \in Requests, EnqueuePreviews(r)
    PROVE  /\ queue' \in Seq(Task)
           /\ \A i \in DOMAIN queue : i \in DOMAIN queue' /\ queue'[i] = queue[i]
           /\ \A f \in Active : \E i \in DOMAIN queue' : queue'[i].fragment = f
  <1> DEFINE n == Cardinality(Active)
  <1>1. Active \subseteq Fragments
    BY DEF Active
  <1>2. n \in Nat
    BY <1>1, PreviewAssumption, FS_Subset, FS_CardinalityType
  <1>3. PICK order \in [1..n -> Active] :
          /\ \A f \in Active : \E i \in DOMAIN order : order[i] = f
          /\ queue' = queue \o [i \in DOMAIN order |-> FirstTry(order[i])]
    BY DEF EnqueuePreviews
  <1> HIDE DEF n
  <1> DEFINE new == [i \in 1..n |-> FirstTry(order[i])]
  <1>4. queue' = queue \o new
    BY <1>3
  <1>5. \A i \in 1..n : order[i] \in Fragments /\ new[i] \in Task /\ new[i].fragment = order[i]
    BY <1>1, <1>3, FirstTryTask
  <1>6. new \in Seq(Task) /\ Len(new) = n
    BY <1>2, <1>5
  <1>7. queue \in Seq(Task)
    BY DEF TypeOK
  <1> HIDE DEF new
  <1>8. /\ queue' \in Seq(Task)
        /\ Len(queue') = Len(queue) + n
        /\ \A i \in 1..Len(queue) : queue'[i] = queue[i]
        /\ \A i \in 1..n : queue'[Len(queue) + i] = new[i]
    BY <1>2, <1>4, <1>6, <1>7
  <1>9. ASSUME NEW f \in Active
        PROVE  \E i \in DOMAIN queue' : queue'[i].fragment = f
    <2>1. PICK i \in 1..n : order[i] = f
      BY <1>3
    <2>2. queue'[Len(queue) + i].fragment = f
      BY <1>5, <1>8, <2>1
    <2>3. Len(queue) \in Nat /\ DOMAIN queue' = 1..(Len(queue) + n)
      BY <1>7, <1>8
    <2>4. Len(queue) + i \in DOMAIN queue'
      BY <1>2, <2>3
    <2>5. QED
      BY <2>2, <2>4
  <1>10. QED
    BY <1>2, <1>7, <1>8, <1>9

-----------------------------------------------------------------------------
(* Type correctness.                                                       *)

LEMMA IdleShape == Idle \in Request /\ Idle \in Job
  BY DEF Request, Job

LEMMA TypeInit == Init => TypeOK
  <1> SUFFICES ASSUME Init PROVE TypeOK
    OBVIOUS
  <1>1. [status : {"draft"}, range : Ranges, keyed : {FALSE}] \subseteq Row
    BY DEF Row, Statuses
  <1>2. row \in [Fragments -> Row \cup {NoRow}]
    BY <1>1 DEF Init
  <1>3. QED
    BY <1>2, IdleShape DEF Init, TypeOK

LEMMA TypeRequestStep ==
    ASSUME TypeOK, NEW r \in Requests, Continue(r)
    PROVE  TypeOK'
  <1> USE IdleShape DEF TypeOK
  <1>0. /\ req[r].at \in RowRequests =>
             /\ req[r].fragment \in Fragments
             /\ req[r].read \in Row
             /\ req[r].range \in Ranges
        /\ req[r].at = "dispatch" => req[r].fragment \in Fragments
        /\ Owed(r) \subseteq Fragments
    BY RequestShape
  <1>1. ASSUME Finish(r) PROVE req' \in [Requests -> Request]
    BY <1>1 DEF Finish
  <1>2. ASSUME Owe(r), req[r].at \in RowRequests PROVE req' \in [Requests -> Request]
    BY <1>0, <1>2 DEF Owe, Request
  <1>3. ASSUME NEW kind \in RowRequests, Writes(r, kind)
        PROVE  req[r].at \in RowRequests /\ row[req[r].fragment] \in Row
    BY <1>0, <1>3 DEF Writes, Exists
  <1>4. ASSUME NEW kind \in RowRequests, Writes(r, kind), NEW st \in Statuses,
               SetStatus(r, st)
        PROVE  row' \in [Fragments -> Row \cup {NoRow}]
    BY <1>0, <1>3, <1>4 DEF SetStatus, Column, Row
  <1>5. CASE SaveEdit(r)
    <2>1. Writes(r, "edit") /\ "edit" \in RowRequests
      BY <1>5 DEF SaveEdit, RowRequests
    <2>2. row' \in [Fragments -> Row \cup {NoRow}]
      BY <1>0, <1>3, <1>5, <2>1, ReopenedStatus DEF SaveEdit, Column, Row
    <2>3. req' \in [Requests -> Request]
      BY <1>1, <1>2, <1>3, <1>5, <2>1 DEF SaveEdit
    <2>4. QED
      BY <1>5, <2>2, <2>3 DEF SaveEdit
  <1>6. CASE Submit(r)
    BY <1>2, <1>3, <1>4, <1>6 DEF Submit, RowRequests, Statuses
  <1>7. CASE Approve(r)
    BY <1>1, <1>3, <1>4, <1>7 DEF Approve, RowRequests, Statuses
  <1>8. CASE Reject(r)
    BY <1>1, <1>3, <1>4, <1>8 DEF Reject, RowRequests, Statuses
  <1>9. CASE Delete(r)
    BY <1>1, <1>9 DEF Delete
  <1>10. CASE Dispatch(r)
    <2>1. queue' \in Seq(Task)
      BY <1>0, <1>10, FirstTryTask DEF Dispatch
    <2>2. QED
      BY <1>1, <1>10, <2>1 DEF Dispatch
  <1>11. CASE CommitUpload(r)
    BY <1>11 DEF CommitUpload, Request
  <1>12. CASE EnqueuePreviews(r)
    <2>1. queue' \in Seq(Task)
      BY <1>12, EnqueuedTasks
    <2>2. QED
      BY <1>1, <1>12, <2>1 DEF EnqueuePreviews
  <1>13. CASE Abort(r)
    BY <1>0, <1>1, <1>13 DEF Abort
  <1>14. QED
    BY <1>5, <1>6, <1>7, <1>8, <1>9, <1>10, <1>11, <1>12, <1>13 DEF Continue

LEMMA TypeWorkStep ==
    ASSUME TypeOK, NEW w \in Workers, Work(w)
    PROVE  TypeOK'
  <1>0. work[w] # Idle =>
          /\ work[w].task \in Task
          /\ work[w].task.fragment \in Fragments
          /\ work[w].at \in {"row", "score"} => work[w].range \in Ranges
          /\ work[w].at = "score" => work[w].score \in Scores
    BY JobShape
  <1> USE IdleShape DEF TypeOK
  <1>1. CASE TakeTask(w)
    <2>1. Head(queue) \in Task /\ Tail(queue) \in Seq(Task)
      BY <1>1 DEF TakeTask
    <2>2. Head(queue).fragment \in Active => row[Head(queue).fragment].range \in Ranges
      BY ActiveRow DEF Row
    <2>3. work' \in [Workers -> Job]
      BY <1>1, <2>1, <2>2 DEF TakeTask, Job
    <2>4. QED
      BY <1>1, <2>1, <2>3 DEF TakeTask
  <1>2. CASE ReadScore(w)
    <2>1. work[w] # Idle
      BY <1>2 DEF ReadScore, Idle
    <2>2. work' \in [Workers -> Job]
      BY <1>2, <2>1, <1>0 DEF ReadScore, Job
    <2>3. QED
      BY <1>2, <2>2 DEF ReadScore
  <1>3. CASE StoreSvg(w)
    <2>1. work[w] # Idle
      BY <1>3 DEF StoreSvg, Idle
    <2>2. work' \in [Workers -> Job]
      BY <1>3, <2>1, <1>0 DEF StoreSvg, Job
    <2>3. svg' \in [Fragments -> Svg \cup {NoSvg}]
      BY <1>3, <2>1, <1>0 DEF StoreSvg, Svg
    <2>4. QED
      BY <1>3, <2>2, <2>3 DEF StoreSvg
  <1>4. CASE NoteKey(w)
    <2>1. work[w] # Idle
      BY <1>4 DEF NoteKey, Idle
    <2>2. row' \in [Fragments -> Row \cup {NoRow}]
      BY <1>4, <2>1, <1>0 DEF NoteKey, KeyNoted, Exists, Row
    <2>3. QED
      BY <1>4, <2>2 DEF NoteKey, Rest
  <1>5. CASE FailTask(w)
    <2>1. work[w].task \in Task /\ work[w].task.fragment \in Fragments
      BY <1>0, <1>5 DEF FailTask
    <2>2. work[w].task.tries < MaxRetries =>
            [work[w].task EXCEPT !.tries = @ + 1] \in Task
      BY <2>1, RetriedTask
    <2>3. queue' \in Seq(Task) /\ lost' \in SUBSET Fragments
      <3>1. CASE mode = "celery" /\ work[w].task.tries < MaxRetries
        <4>1. /\ queue' = Append(queue, [work[w].task EXCEPT !.tries = @ + 1])
              /\ lost' = lost
          BY <1>5, <3>1 DEF FailTask
        <4>2. QED
          BY <2>2, <3>1, <4>1
      <3>2. CASE ~(mode = "celery" /\ work[w].task.tries < MaxRetries)
        <4>1. queue' = queue /\ lost' = lost \cup {work[w].task.fragment}
          BY <1>5, <3>2 DEF FailTask
        <4>2. QED
          BY <2>1, <4>1
      <3>3. QED
        BY <3>1, <3>2
    <2>4. QED
      BY <1>5, <2>3 DEF FailTask, Rest
  <1>6. QED
    BY <1>1, <1>2, <1>3, <1>4, <1>5 DEF Work

LEMMA TypeKillStep == TypeOK /\ Kill => TypeOK'
  <1> SUFFICES ASSUME TypeOK, Kill PROVE TypeOK'
    OBVIOUS
  <1>0. /\ \A r \in Requests : Owed(r) \subseteq Fragments
        /\ \A w \in Workers : work[w] # Idle =>
             work[w].task \in Task /\ work[w].task.fragment \in Fragments
    BY RequestShape, JobShape
  <1> USE IdleShape DEF TypeOK
  <1>1. ASSUME NEW w \in Workers, KillWorker(w) PROVE TypeOK'
    <2>1. queue' \in Seq(Task)
      BY <1>0, <1>1 DEF KillWorker
    <2>2. row' \in [Fragments -> Row \cup {NoRow}]
      BY <1>1, NotedRow DEF KillWorker
    <2>3. QED
      BY <1>1, <2>1, <2>2 DEF KillWorker, Rest
  <1>2. CASE KillApi
    <2>1. AllOwed \subseteq Fragments
      BY <1>0 DEF AllOwed
    <2>2. \A i \in DOMAIN queue : queue[i] \in Task
      OBVIOUS
    <2>3. InRunner \subseteq Fragments
      BY <1>0, <2>2 DEF InRunner, Task
    <2>4. lost' \subseteq lost \cup AllOwed \cup InRunner
      BY <1>2 DEF KillApi
    <2>5. lost' \in SUBSET Fragments
      BY <2>1, <2>3, <2>4
    <2>6. <<>> \in Seq(Task)
      OBVIOUS
    <2>7. queue' \in Seq(Task)
      BY <1>2, <2>6 DEF KillApi
    <2>8. QED
      BY <1>2, <2>5, <2>7 DEF KillApi
  <1>3. QED
    BY <1>1, <1>2 DEF Kill

LEMMA TypeStep == TypeOK /\ [Next]_vars => TypeOK'
  <1> SUFFICES ASSUME TypeOK, [Next]_vars PROVE TypeOK'
    OBVIOUS
  <1>1. ASSUME NEW r \in Requests, NEW kind \in RowRequests, NEW f \in Fragments,
               NEW range \in Ranges, Begin(r, kind, f, range)
        PROVE  TypeOK'
    BY <1>1 DEF TypeOK, Begin, Exists, Request
  <1>2. ASSUME NEW r \in Requests, NEW score \in Scores, StoreScore(r, score)
        PROVE  TypeOK'
    BY <1>2 DEF TypeOK, StoreScore, Request
  <1>3. CASE UNCHANGED vars
    BY <1>3 DEF TypeOK, vars
  <1>4. QED
    BY <1>1, <1>2, <1>3, TypeRequestStep, TypeWorkStep, TypeKillStep DEF Next, Others

\* The state of rows, objects, requests, queue and workers is always well
\* formed: whoever is at a stage holds what the stage needs.
THEOREM TypeCorrect == Spec => []TypeOK
  BY TypeInit, TypeStep, PTL DEF Spec

-----------------------------------------------------------------------------
(* Keys and objects, for any number of workers.                            *)

\* What the steps of a request leave alone.
LEMMA RequestFrame ==
    ASSUME TypeOK, NEW r \in Requests, Continue(r)
    PROVE  /\ svg' = svg /\ work' = work /\ mei' = mei
           /\ \A f \in Fragments : row'[f] # NoRow =>
                row[f] # NoRow /\ row'[f].keyed = row[f].keyed
  <1>1. ASSUME NEW f \in Fragments, row'[f] # NoRow, row' # row
        PROVE  row[f] # NoRow /\ row'[f].keyed = row[f].keyed
    <2>0. /\ row \in [Fragments -> Row \cup {NoRow}]
          /\ \A kind \in RowRequests :
                Writes(r, kind) => /\ row[req[r].fragment] \in Row
                                   /\ row[req[r].fragment] # NoRow
                                   /\ req[r].fragment \in Fragments
      BY RequestShape DEF TypeOK, Writes, Exists
    <2>1. ASSUME NEW kind \in RowRequests, Writes(r, kind), NEW st, SetStatus(r, st)
          PROVE  row[f] # NoRow /\ row'[f].keyed = row[f].keyed
      BY <1>1, <2>0, <2>1 DEF SetStatus, Row
    <2>2. CASE SaveEdit(r)
      <3>1. Writes(r, "edit") /\ "edit" \in RowRequests
        BY <2>2 DEF SaveEdit, RowRequests
      <3>2. QED
        BY <1>1, <2>0, <2>2, <3>1 DEF SaveEdit, Row
    <2>3. CASE Submit(r)
      BY <2>1, <2>3 DEF Submit, RowRequests
    <2>4. CASE Approve(r)
      BY <2>1, <2>4 DEF Approve, RowRequests
    <2>5. CASE Reject(r)
      BY <2>1, <2>5 DEF Reject, RowRequests
    <2>6. CASE Delete(r)
      BY <1>1, <2>0, <2>6 DEF Delete
    <2>7. QED
      BY <1>1, <2>2, <2>3, <2>4, <2>5, <2>6
      DEF Continue, Dispatch, CommitUpload, EnqueuePreviews, Abort
  <1>2. svg' = svg /\ work' = work /\ mei' = mei
    BY DEF Continue, SaveEdit, Submit, Approve, Reject, Delete, Dispatch,
           CommitUpload, EnqueuePreviews, Abort
  <1>3. QED
    BY <1>1, <1>2

\* Inductive: a worker that is about to note a key has stored the object.
KeyInv ==
    /\ TypeOK
    /\ KeyHasObject
    /\ \A w \in Workers : work[w].at = "svg" => svg[work[w].task.fragment] # NoSvg

LEMMA KeyStep == KeyInv /\ [Next]_vars => KeyInv'
  <1> SUFFICES ASSUME KeyInv, [Next]_vars PROVE KeyInv'
    OBVIOUS
  <1>0. TypeOK /\ TypeOK'
    BY TypeStep DEF KeyInv
  <1>1. SUFFICES /\ KeyHasObject'
                 /\ \A w \in Workers :
                      work'[w].at = "svg" => svg'[work'[w].task.fragment] # NoSvg
    BY <1>0 DEF KeyInv
  <1> USE DEF KeyInv, KeyHasObject, Exists
  <1>2. ASSUME NEW r \in Requests, Continue(r)
        PROVE  KeyInv'
    BY <1>0, <1>2, RequestFrame
  <1>3. ASSUME UNCHANGED <<row, svg, work>>
        PROVE  KeyInv'
    BY <1>0, <1>3
  <1>4. ASSUME NEW w \in Workers, Work(w)
        PROVE  KeyInv'
    <2>0. /\ work[w] # Idle => work[w].task.fragment \in Fragments
          /\ work \in [Workers -> Job]
          /\ row \in [Fragments -> Row \cup {NoRow}]
          /\ svg \in [Fragments -> Svg \cup {NoSvg}]
      BY <1>0, JobShape DEF TypeOK
    <2>1. CASE TakeTask(w)
      BY <1>0, <2>0, <2>1 DEF TakeTask
    <2>2. CASE ReadScore(w)
      BY <1>0, <2>0, <2>2 DEF ReadScore
    <2>3. CASE StoreSvg(w)
      <3>1. work[w] # Idle
        BY <2>3 DEF StoreSvg, Idle
      <3>2. \A f \in Fragments : svg'[f] = svg[f] \/ svg'[f] # NoSvg
        BY <1>0, <2>0, <2>3, <3>1, JobShape, PreviewAssumption DEF StoreSvg, NoSvg
      <3>3. svg'[work[w].task.fragment] # NoSvg
        BY <1>0, <2>0, <2>3, <3>1, JobShape, PreviewAssumption DEF StoreSvg, NoSvg
      <3>4. KeyHasObject'
        BY <2>3, <3>2 DEF StoreSvg
      <3>5. ASSUME NEW v \in Workers, work'[v].at = "svg"
            PROVE  svg'[work'[v].task.fragment] # NoSvg
        <4>1. CASE v = w
          BY <2>0, <2>3, <3>3, <4>1 DEF StoreSvg
        <4>2. CASE v # w
          <5>1. work'[v] = work[v]
            BY <2>0, <2>3, <4>2 DEF StoreSvg
          <5>2. work[v].task.fragment \in Fragments
            BY <1>0, <3>5, <5>1, JobShape DEF Idle
          <5>3. QED
            BY <3>2, <3>5, <5>1, <5>2
        <4>3. QED
          BY <4>1, <4>2
      <3>6. QED
        BY <1>0, <3>4, <3>5
    <2>4. CASE NoteKey(w)
      <3>1. work[w] # Idle
        BY <2>4 DEF NoteKey, Idle
      <3>2. KeyHasObject'
        BY <2>0, <2>4, <3>1 DEF NoteKey, KeyNoted
      <3>3. QED
        BY <1>0, <2>0, <2>4, <3>2 DEF NoteKey, Rest, Idle
    <2>5. CASE FailTask(w)
      BY <1>0, <2>0, <2>5 DEF FailTask, Rest, Idle
    <2>6. QED
      BY <1>4, <2>1, <2>2, <2>3, <2>4, <2>5 DEF Work
  <1>5. CASE Kill
    <2>1. svg' = svg /\ \A w \in Workers : work'[w] \in {work[w], Idle}
      BY <1>0, <1>5 DEF Kill, KillApi, KillWorker, Rest, TypeOK
    <2>2. CASE row' = row
      BY <1>0, <2>1, <2>2 DEF Idle
    <2>3. ASSUME NEW w \in Workers, work[w].at = "svg",
                 row' = KeyNoted(work[w].task.fragment)
          PROVE  KeyHasObject'
      <3>1. work[w].task.fragment \in Fragments /\ row \in [Fragments -> Row \cup {NoRow}]
        BY <1>0, <2>3, JobShape DEF Idle, TypeOK
      <3>2. QED
        BY <2>1, <2>3, <3>1 DEF KeyNoted
    <2>4. KeyHasObject'
      BY <1>5, <2>2, <2>3 DEF Kill, KillApi, KillWorker
    <2>5. QED
      BY <1>0, <2>1, <2>4 DEF Idle
  <1>6. QED
    BY <1>2, <1>3, <1>4, <1>5 DEF Next, Others, Begin, StoreScore, vars

\* Whatever runs at the same time, in whatever mode and however often tasks
\* fail or are delivered twice, a row's key never names a missing object.
THEOREM KeysHaveObjects == Spec => []KeyHasObject
  <1>1. ASSUME Init PROVE KeyInv
    <2>1. \A f \in Fragments : row[f].keyed = FALSE
      BY <1>1 DEF Init
    <2>2. \A w \in Workers : work[w].at # "svg"
      BY <1>1 DEF Init, Idle
    <2>3. QED
      BY <1>1, <2>1, <2>2, TypeInit DEF KeyInv, KeyHasObject
  <1>2. KeyInv => KeyHasObject
    BY DEF KeyInv
  <1>3. QED
    BY <1>1, <1>2, KeyStep, PTL DEF Spec

-----------------------------------------------------------------------------
(* Fresh previews, for one worker and orderly requests.                    *)

\* The executor has one thread, the Celery worker --concurrency=1.
OneWorker == \A v, w \in Workers : v = w

InRow(r) == req[r].at \in RowRequests

\* Requests in flight hold the row as it is, and no two the same one.
RowsHeld ==
    \A r \in Requests : InRow(r) =>
        /\ row[req[r].fragment] # NoRow
        /\ row[req[r].fragment].status = req[r].read.status
        /\ row[req[r].fragment].range = req[r].read.range
        /\ Takes(req[r].at, req[r].read.status)
        /\ \A s \in Requests :
             InRow(s) /\ req[s].fragment = req[r].fragment => s = r

Rendering(w, f) == work[w] # Idle /\ work[w].task.fragment = f

\* What w has read, or stored, is what f shows now.
OnTrack(w, f) ==
    /\ work[w].at \in {"row", "score"} => work[w].range = row[f].range
    /\ work[w].at = "score" => work[w].score = mei
    /\ work[w].at = "svg" => svg[f] = [range |-> row[f].range, score |-> mei]

\* f's preview is right or will be made right.
Covered(f) ==
    \/ \E r \in Requests : f \in Owed(r)
    \/ \E i \in DOMAIN queue : queue[i].fragment = f
    \/ \E w \in Workers : Rendering(w, f) /\ OnTrack(w, f)
    \/ Fresh(f) /\ \A w \in Workers : ~Rendering(w, f)

\* Inductive: PreviewFresh alone says nothing while something is pending.
OrderlyInv ==
    /\ TypeOK
    /\ RowsHeld
    /\ \A f \in Active \ lost : Covered(f)

LEMMA OrderlyIsNext == [OrderlyNext]_vars => [Next]_vars
  BY DEF OrderlyNext, Next

\* A fragment stays covered while the debts and tasks that cover it remain and
\* what it shows does not change.
LEMMA CoveredKept ==
    ASSUME NEW f \in Fragments, Covered(f),
           row'[f] = row[f] \/ (row'[f].range = row[f].range /\ row'[f].keyed = row[f].keyed),
           svg' = svg, mei' = mei, work' = work,
           (\E r \in Requests : f \in Owed(r)) => \E r \in Requests : f \in Owed(r)',
           (\E i \in DOMAIN queue : queue[i].fragment = f) =>
                \E i \in DOMAIN queue' : queue'[i].fragment = f
    PROVE  Covered(f)'
  BY DEF Covered, Rendering, OnTrack, Fresh

\* A request on a row: the steps that commit a change to it.
RowStep(r) == SaveEdit(r) \/ Submit(r) \/ Approve(r) \/ Reject(r) \/ Delete(r)

LEMMA RowStepEffect ==
    ASSUME TypeOK, RowsHeld, NEW r \in Requests, RowStep(r)
    PROVE  LET g == req[r].fragment IN
           /\ g \in Fragments
           /\ InRow(r) /\ Owed(r) = {}
           /\ \A f \in Fragments : f # g => row'[f] = row[f]
           /\ \A s \in Requests : s # r => req'[s] = req[s]
           /\ ~InRow(r)'
           /\ row'[g].status \in UnderReview =>
                \/ g \in Owed(r)'
                \/ /\ row[g].status \in UnderReview
                   /\ row'[g].range = row[g].range
                   /\ row'[g].keyed = row[g].keyed
           /\ UNCHANGED <<mode, mei, svg, queue, work, lost>>
  <1> DEFINE g == req[r].fragment
             q == req[r]
  <1>1. q.at \in {"edit", "submit", "approve", "reject", "delete"} /\ Writes(r, q.at)
    BY DEF RowStep, SaveEdit, Submit, Approve, Reject, Delete, Writes
  <1>2. InRow(r) /\ Owed(r) = {}
    BY <1>1 DEF InRow, RowRequests, Owed
  <1>3. /\ g \in Fragments /\ row[g] \in Row /\ q.read \in Row
        /\ row[g].status = q.read.status /\ row[g].range = q.read.range
    BY <1>1, <1>2, RequestShape DEF RowsHeld, InRow, TypeOK, Writes, Exists
  <1>4. UNCHANGED <<mode, mei, svg, queue, work, lost>>
    BY DEF RowStep, SaveEdit, Submit, Approve, Reject, Delete
  <1>5. \A f \in Fragments : f # g => row'[f] = row[f]
    BY DEF RowStep, SaveEdit, Submit, Approve, Reject, Delete, SetStatus, TypeOK
  <1>6. Finish(r) \/ Owe(r)
    BY DEF RowStep, SaveEdit, Submit, Approve, Reject, Delete
  <1>7. /\ \A s \in Requests : s # r => req'[s] = req[s]
        /\ ~InRow(r)'
        /\ Owe(r) => g \in Owed(r)'
    BY <1>6 DEF Finish, Owe, InRow, RowRequests, Owed, Idle, TypeOK
  <1>8. ASSUME row'[g].status \in UnderReview
        PROVE  \/ g \in Owed(r)'
               \/ /\ row[g].status \in UnderReview
                  /\ row'[g].range = row[g].range
                  /\ row'[g].keyed = row[g].keyed
    <2>1. CASE SaveEdit(r)
      <3>1. row'[g].status = Column(row[g].status, q.read.status, Reopened(q.read.status))
        BY <1>3, <2>1 DEF SaveEdit, TypeOK, Row
      <3>2. /\ row'[g].range = Column(row[g].range, q.read.range, q.range)
            /\ row'[g].keyed = row[g].keyed
        BY <1>3, <2>1 DEF SaveEdit, TypeOK, Row
      <3>3. q.read.status \in UnderReview
        BY <1>3, <1>8, <3>1, ReopenedStatus DEF Column, Row
      <3>4. CASE q.range # q.read.range
        BY <1>7, <2>1, <3>3, <3>4 DEF SaveEdit
      <3>5. CASE q.range = q.read.range
        BY <1>3, <3>2, <3>3, <3>5 DEF Column
      <3>6. QED
        BY <3>4, <3>5
    <2>2. CASE Submit(r)
      BY <1>7, <2>2 DEF Submit
    <2>3. CASE Approve(r)
      <3>1. row[g].status = "submitted"
        BY <1>2, <1>3, <2>3 DEF Approve, Writes, RowsHeld, Takes
      <3>2. row'[g].range = row[g].range /\ row'[g].keyed = row[g].keyed
        BY <1>3, <2>3 DEF Approve, SetStatus, TypeOK, Row
      <3>3. QED
        BY <3>1, <3>2 DEF UnderReview
    <2>4. CASE Reject(r)
      <3>1. row[g].status = "submitted"
        BY <1>2, <1>3, <2>4 DEF Reject, Writes, RowsHeld, Takes
      <3>2. row'[g].status = "rejected"
        BY <1>3, <2>4, <3>1 DEF Reject, SetStatus, Column, TypeOK, Row
      <3>3. QED
        BY <1>8, <3>2 DEF UnderReview
    <2>5. CASE Delete(r)
      BY <1>3, <1>8, <2>5 DEF Delete, TypeOK, NoRow, UnderReview
    <2>6. QED
      BY <2>1, <2>2, <2>3, <2>4, <2>5 DEF RowStep
  <1>9. QED
    BY <1>2, <1>3, <1>4, <1>5, <1>7, <1>8

\* The other steps of a request leave the rows alone.
OtherStep(r) == Dispatch(r) \/ CommitUpload(r) \/ EnqueuePreviews(r) \/ Abort(r)

LEMMA OtherStepEffect ==
    ASSUME TypeOK, NEW r \in Requests, OtherStep(r)
    PROVE  /\ UNCHANGED <<mode, row, mei, svg, work>>
           /\ \A s \in Requests : s # r => req'[s] = req[s]
           /\ ~InRow(r)'
  BY DEF OtherStep, Dispatch, CommitUpload, EnqueuePreviews, Abort, Finish, InRow,
         RowRequests, Idle, TypeOK

LEMMA RowsHeldStep ==
    ASSUME OrderlyInv, [OrderlyNext]_vars
    PROVE  RowsHeld'
  <1>0. TypeOK /\ RowsHeld
    BY DEF OrderlyInv
  <1>1. ASSUME NEW r \in Requests, NEW kind \in RowRequests, NEW f \in Fragments,
               NEW range \in Ranges, Untouched(f), Begin(r, kind, f, range)
        PROVE  RowsHeld'
    <2>1. /\ req'[r] = [at |-> kind, fragment |-> f, read |-> row[f], range |-> range]
          /\ \A s \in Requests : s # r => req'[s] = req[s]
          /\ row' = row /\ row[f] # NoRow /\ Takes(kind, row[f].status)
      BY <1>0, <1>1 DEF Begin, TypeOK, Exists
    <2>2. \A s \in Requests : InRow(s) => req[s].fragment # f
      BY <1>1 DEF Untouched, InRow
    <2>3. QED
      BY <1>0, <2>1, <2>2 DEF RowsHeld, InRow
  <1>2. ASSUME NEW r \in Requests, RowStep(r)
        PROVE  RowsHeld'
    <2> DEFINE g == req[r].fragment
    <2>1. /\ InRow(r)
          /\ \A f \in Fragments : f # g => row'[f] = row[f]
          /\ \A s \in Requests : s # r => req'[s] = req[s]
          /\ ~InRow(r)'
      BY <1>0, <1>2, RowStepEffect
    <2>2. ASSUME NEW s \in Requests, InRow(s)'
          PROVE  /\ s # r /\ InRow(s) /\ req'[s] = req[s]
                 /\ row'[req[s].fragment] = row[req[s].fragment]
      <3>1. s # r /\ InRow(s) /\ req'[s] = req[s]
        BY <2>1, <2>2 DEF InRow
      <3>2. req[s].fragment \in Fragments /\ req[s].fragment # g
        BY <1>0, <2>1, <3>1, RequestShape DEF RowsHeld, InRow
      <3>3. QED
        BY <2>1, <3>1, <3>2
    <2>3. QED
      BY <1>0, <2>2 DEF RowsHeld, InRow
  <1>3. ASSUME NEW r \in Requests, OtherStep(r)
        PROVE  RowsHeld'
    <2>1. row' = row /\ ~InRow(r)' /\ \A s \in Requests : s # r => req'[s] = req[s]
      BY <1>0, <1>3, OtherStepEffect
    <2>2. \A s \in Requests : InRow(s)' => s # r /\ InRow(s) /\ req'[s] = req[s]
      BY <2>1 DEF InRow
    <2>3. QED
      BY <1>0, <2>1, <2>2 DEF RowsHeld, InRow
  <1>4. ASSUME NEW r \in Requests, NEW score \in Scores, StoreScore(r, score)
        PROVE  RowsHeld'
    <2>1. row' = row /\ ~InRow(r)' /\ \A s \in Requests : s # r => req'[s] = req[s]
      BY <1>0, <1>4 DEF StoreScore, InRow, RowRequests, TypeOK
    <2>2. \A s \in Requests : InRow(s)' => s # r /\ InRow(s) /\ req'[s] = req[s]
      BY <2>1 DEF InRow
    <2>3. QED
      BY <1>0, <2>1, <2>2 DEF RowsHeld, InRow
  <1>5. ASSUME NEW w \in Workers, work[w].at = "svg", req' = req,
               row' = KeyNoted(work[w].task.fragment)
        PROVE  RowsHeld'
    <2>1. \A s \in Requests : InRow(s) => req[s].fragment \in Fragments
      BY <1>0, RequestShape DEF InRow
    <2>2. QED
      BY <1>0, <1>5, <2>1, NotedRow DEF RowsHeld, InRow
  <1>6. ASSUME UNCHANGED <<row, req>>
        PROVE  RowsHeld'
    BY <1>0, <1>6 DEF RowsHeld, InRow
  <1>7. CASE KillApi
    BY <1>7 DEF KillApi, RowsHeld, InRow, RowRequests, Idle
  <1>8. QED
    BY <1>1, <1>2, <1>3, <1>4, <1>5, <1>6, <1>7
    DEF OrderlyNext, Others, Continue, RowStep, OtherStep, Work, Kill, KillWorker,
        TakeTask, ReadScore, StoreSvg, NoteKey, FailTask, vars

LEMMA CoveredRequestStep ==
    ASSUME OrderlyInv, NEW r \in Requests, Continue(r), NEW f \in (Active \ lost)'
    PROVE  Covered(f)'
  <1>0. /\ TypeOK /\ RowsHeld
        /\ f \in Fragments
        /\ \A h \in Active \ lost : Covered(h)
    BY DEF OrderlyInv, Active
  <1>1. CASE RowStep(r)
    <2> DEFINE g == req[r].fragment
    <2>1. /\ g \in Fragments /\ Owed(r) = {}
          /\ \A h \in Fragments : h # g => row'[h] = row[h]
          /\ \A s \in Requests : s # r => req'[s] = req[s]
          /\ row'[g].status \in UnderReview =>
                \/ g \in Owed(r)'
                \/ /\ row[g].status \in UnderReview
                   /\ row'[g].range = row[g].range
                   /\ row'[g].keyed = row[g].keyed
          /\ UNCHANGED <<mei, svg, queue, work, lost>>
      BY <1>0, <1>1, RowStepEffect
    <2>2. row'[f].status \in UnderReview /\ f \notin lost
      BY <2>1 DEF Active
    <2>3. (\E s \in Requests : f \in Owed(s)) => \E s \in Requests : f \in Owed(s)'
      <3>1. \A s \in Requests : f \in Owed(s) => f \in Owed(s)'
        BY <2>1 DEF Owed
      <3>2. QED
        BY <3>1
    <2>4. CASE f = g /\ g \in Owed(r)'
      BY <2>4 DEF Covered
    <2>5. CASE f # g \/ g \notin Owed(r)'
      <3>1. f \in Active \ lost
        BY <1>0, <2>1, <2>2, <2>5 DEF Active
      <3>2. row'[f] = row[f] \/ (row'[f].range = row[f].range /\ row'[f].keyed = row[f].keyed)
        BY <1>0, <2>1, <2>2, <2>5
      <3>3. Covered(f)
        BY <1>0, <3>1
      <3>4. QED
        BY <1>0, <2>1, <2>3, <3>2, <3>3, CoveredKept
    <2>6. QED
      BY <2>4, <2>5
  <1>2. CASE OtherStep(r)
    <2>1. /\ UNCHANGED <<mode, row, mei, svg, work>>
          /\ \A s \in Requests : s # r => req'[s] = req[s]
      BY <1>0, <1>2, OtherStepEffect
    <2>2. \A s \in Requests : s # r => (f \in Owed(s) => f \in Owed(s)')
      BY <2>1 DEF Owed
    <2>3. f \in Active
      BY <2>1 DEF Active
    <2>4. CASE CommitUpload(r)
      <3>1. Owed(r)' = Fragments
        BY <1>0, <2>4 DEF CommitUpload, Owed, TypeOK
      <3>2. QED
        BY <1>0, <3>1 DEF Covered
    <2>5. CASE EnqueuePreviews(r)
      BY <1>0, <2>3, <2>5, EnqueuedTasks DEF Covered
    <2>6. CASE Dispatch(r)
      <3> DEFINE g == req[r].fragment
      <3>1. /\ g \in Fragments /\ queue \in Seq(Task) /\ FirstTry(g) \in Task
            /\ FirstTry(g).fragment = g /\ Owed(r) = {g}
            /\ queue' = Append(queue, FirstTry(g)) /\ lost' = lost \ {g}
        BY <1>0, <2>6, RequestShape, FirstTryTask DEF Dispatch, TypeOK, Owed
      <3> HIDE DEF g
      <3>2. /\ \A i \in DOMAIN queue : i \in DOMAIN queue' /\ queue'[i] = queue[i]
            /\ Len(queue) + 1 \in DOMAIN queue' /\ queue'[Len(queue) + 1] = FirstTry(g)
        BY <3>1
      <3>3. CASE f = g
        BY <3>1, <3>2, <3>3 DEF Covered
      <3>4. CASE f # g
        <4>1. Covered(f)
          BY <1>0, <2>3, <3>1, <3>4
        <4>2. (\E s \in Requests : f \in Owed(s)) => \E s \in Requests : f \in Owed(s)'
          BY <2>2, <3>1, <3>4
        <4>3. QED
          BY <1>0, <2>1, <3>2, <4>1, <4>2, CoveredKept
      <3>5. QED
        BY <3>3, <3>4
    <2>7. CASE Abort(r)
      <3>1. f \notin lost /\ f \notin Owed(r) /\ queue' = queue
        BY <2>7 DEF Abort
      <3>2. Covered(f)
        BY <1>0, <2>3, <3>1
      <3>3. QED
        BY <1>0, <2>1, <2>2, <3>1, <3>2, CoveredKept
    <2>8. QED
      BY <1>2, <2>4, <2>5, <2>6, <2>7 DEF OtherStep
  <1>3. QED
    BY <1>1, <1>2 DEF Continue, RowStep, OtherStep

\* A worker gives its task back to the queue.
LEMMA CoveredRequeue ==
    ASSUME TypeOK, OneWorker, NEW w \in Workers, work[w] # Idle, NEW t \in Task,
           t.fragment = work[w].task.fragment,
           queue' = Append(queue, t), work' = [work EXCEPT ![w] = Idle],
           UNCHANGED <<mei, svg, req>>, NEW f \in Fragments, Covered(f),
           f # t.fragment => row'[f] = row[f]
    PROVE  Covered(f)'
  <1>1. /\ \A i \in DOMAIN queue : i \in DOMAIN queue' /\ queue'[i] = queue[i]
        /\ Len(queue) + 1 \in DOMAIN queue' /\ queue'[Len(queue) + 1] = t
    BY DEF TypeOK
  <1>2. \A v \in Workers : v = w /\ work'[v] = Idle
    BY DEF OneWorker, TypeOK
  <1>3. CASE Rendering(w, f)
    BY <1>1, <1>3 DEF Rendering, Covered
  <1>4. CASE ~Rendering(w, f)
    <2>1. CASE \E r \in Requests : f \in Owed(r)
      BY <2>1 DEF Covered, Owed
    <2>2. CASE \E i \in DOMAIN queue : queue[i].fragment = f
      BY <1>1, <2>2 DEF Covered
    <2>3. CASE Fresh(f)
      BY <1>1, <1>2, <2>3 DEF Covered, Fresh, Rendering
    <2>4. QED
      BY <1>2, <1>4, <2>1, <2>2, <2>3 DEF Covered
  <1>5. QED
    BY <1>3, <1>4

LEMMA CoveredWorkStep ==
    ASSUME OrderlyInv, OneWorker, NEW w \in Workers, Work(w), NEW f \in (Active \ lost)'
    PROVE  Covered(f)'
  <1>0. /\ TypeOK
        /\ f \in Fragments
        /\ \A h \in Active \ lost : Covered(h)
        /\ \A v \in Workers : v = w
    BY DEF OrderlyInv, Active, OneWorker
  <1>1. f \in Active \ lost
    <2>1. CASE NoteKey(w)
      BY <1>0, <2>1, NotedRow DEF NoteKey, Active
    <2>2. CASE ~NoteKey(w)
      BY <2>2 DEF Work, TakeTask, ReadScore, StoreSvg, FailTask, Active
    <2>3. QED
      BY <2>1, <2>2
  <1>2. Covered(f)
    BY <1>0, <1>1
  <1>3. \A r \in Requests : Owed(r)' = Owed(r)
    BY DEF Work, TakeTask, ReadScore, StoreSvg, NoteKey, FailTask, Owed
  <1>4. CASE \E r \in Requests : f \in Owed(r)
    BY <1>3, <1>4 DEF Covered
  <1>5. CASE TakeTask(w)
    <2>1. queue \in Seq(Task) /\ queue # <<>> /\ queue' = Tail(queue) /\ work[w] = Idle
          /\ UNCHANGED <<row, mei, svg>>
      BY <1>0, <1>5 DEF TakeTask, TypeOK
    <2>2. CASE Head(queue).fragment = f
      <3>1. work'[w] = [at |-> "row", task |-> Head(queue), range |-> row[f].range]
        BY <1>0, <1>1, <1>5, <2>2 DEF TakeTask, TypeOK
      <3>2. Rendering(w, f)' /\ OnTrack(w, f)'
        BY <2>1, <2>2, <3>1 DEF Rendering, OnTrack, Idle
      <3>3. QED
        BY <3>2 DEF Covered
    <2>3. CASE Head(queue).fragment # f
      <3>1. ~Rendering(w, f) /\ ~Rendering(w, f)'
        BY <1>0, <1>5, <2>1, <2>3 DEF Rendering, TakeTask, TypeOK
      <3>2. CASE \E i \in DOMAIN queue : queue[i].fragment = f
        <4>1. PICK i \in DOMAIN queue : queue[i].fragment = f
          BY <3>2
        <4>2. i # 1
          BY <2>1, <2>3, <4>1
        <4>3. i - 1 \in DOMAIN queue' /\ queue'[i - 1] = queue[i]
          BY <2>1, <4>1, <4>2
        <4>4. QED
          BY <4>1, <4>3 DEF Covered
      <3>3. CASE Fresh(f)
        BY <1>0, <2>1, <3>1, <3>3 DEF Covered, Fresh
      <3>4. QED
        BY <1>0, <1>2, <1>4, <3>1, <3>2, <3>3 DEF Covered
    <2>4. QED
      BY <2>2, <2>3
  <1>6. CASE \E i \in DOMAIN queue : queue[i].fragment = f /\ ~TakeTask(w)
    <2>1. \A i \in DOMAIN queue : i \in DOMAIN queue' /\ queue'[i] = queue[i]
      <3>1. CASE queue' = queue
        BY <3>1
      <3>2. CASE FailTask(w) /\ queue' # queue
        <4>1. work[w].task \in Task
          BY <1>0, <3>2, JobShape DEF FailTask
        <4>2. PICK t \in Task : queue' = Append(queue, t)
          BY <3>2, <4>1, RetriedTask DEF FailTask
        <4>3. QED
          BY <1>0, <4>2 DEF TypeOK
      <3>3. QED
        BY <1>6, <3>1, <3>2 DEF Work, ReadScore, StoreSvg, NoteKey
    <2>2. QED
      BY <1>6, <2>1 DEF Covered
  <1> DEFINE Served == \/ Rendering(w, f) /\ OnTrack(w, f)
                       \/ Fresh(f) /\ ~Rendering(w, f)
  <1>7. CASE ReadScore(w) /\ Served
    <2>1. /\ work'[w] = [at |-> "score", task |-> work[w].task, range |-> work[w].range,
                         score |-> mei]
          /\ work[w].at = "row" /\ UNCHANGED <<row, mei, svg>>
      BY <1>0, <1>7 DEF ReadScore, TypeOK
    <2>2. \/ Rendering(w, f)' /\ OnTrack(w, f)'
          \/ Fresh(f)' /\ ~Rendering(w, f)'
      BY <1>7, <2>1 DEF Rendering, OnTrack, Fresh, Idle
    <2>3. QED
      BY <1>0, <2>2 DEF Covered
  <1>8. CASE StoreSvg(w) /\ Served
    <2>1. /\ work'[w] = [at |-> "svg", task |-> work[w].task]
          /\ svg' = [svg EXCEPT ![work[w].task.fragment] =
                        [range |-> work[w].range, score |-> work[w].score]]
          /\ work[w].at = "score" /\ UNCHANGED <<row, mei>>
      BY <1>0, <1>8 DEF StoreSvg, TypeOK
    <2>2. work[w] # Idle
      BY <2>1 DEF Idle
    <2>3. CASE work[w].task.fragment = f
      <3>1. svg'[f] = [range |-> row[f].range, score |-> mei]
        BY <1>0, <1>8, <2>1, <2>2, <2>3 DEF Rendering, OnTrack, TypeOK
      <3>2. Rendering(w, f)' /\ OnTrack(w, f)'
        BY <2>1, <2>3, <3>1 DEF Rendering, OnTrack, Idle
      <3>3. QED
        BY <3>2 DEF Covered
    <2>4. CASE work[w].task.fragment # f
      <3>1. svg'[f] = svg[f]
        BY <1>0, <2>1, <2>4 DEF TypeOK
      <3>2. Fresh(f)' /\ ~Rendering(w, f)'
        BY <1>8, <2>1, <2>4, <3>1 DEF Rendering, Fresh
      <3>3. QED
        BY <1>0, <3>2 DEF Covered
    <2>5. QED
      BY <2>3, <2>4
  <1>9. CASE NoteKey(w) /\ Served
    <2>1. /\ work'[w] = Idle /\ work[w].at = "svg" /\ work[w] # Idle
          /\ UNCHANGED <<mei, svg>>
      BY <1>0, <1>9 DEF NoteKey, Rest, TypeOK, Idle
    <2>2. row[f] \in Row /\ row[f] # NoRow
      BY <1>0, <1>1, ActiveRow DEF Active, NoRow, UnderReview
    <2>3. CASE work[w].task.fragment = f
      <3>1. row' = [row EXCEPT ![f].keyed = TRUE]
        BY <1>9, <2>2, <2>3 DEF NoteKey, KeyNoted, Exists
      <3>2. row'[f].keyed /\ row'[f].range = row[f].range
        BY <1>0, <2>2, <3>1 DEF TypeOK, Row
      <3>3. svg[f] = [range |-> row[f].range, score |-> mei]
        BY <1>9, <2>1, <2>3 DEF Rendering, OnTrack
      <3>4. QED
        BY <1>0, <2>1, <3>2, <3>3 DEF Covered, Fresh, Rendering
    <2>4. CASE work[w].task.fragment # f
      <3>1. row'[f] = row[f]
        BY <1>0, <1>9, <2>1, <2>4, NotedRow DEF NoteKey
      <3>2. QED
        BY <1>0, <1>9, <2>1, <2>4, <3>1 DEF Covered, Fresh, Rendering
    <2>5. QED
      BY <2>3, <2>4
  <1>10. CASE FailTask(w) /\ Served
    <2>1. work[w] # Idle /\ work[w].task \in Task /\ work'[w] = Idle
          /\ UNCHANGED <<row, mei, svg, req>> /\ work' = [work EXCEPT ![w] = Idle]
      BY <1>0, <1>10, JobShape DEF FailTask, Rest, TypeOK
    <2>2. CASE mode = "celery" /\ work[w].task.tries < MaxRetries
      <3>1. queue' = Append(queue, [work[w].task EXCEPT !.tries = @ + 1])
        BY <1>10, <2>2 DEF FailTask
      <3>2. QED
        BY <1>0, <1>2, <2>1, <2>2, <3>1, RetriedTask, CoveredRequeue
    <2>3. CASE ~(mode = "celery" /\ work[w].task.tries < MaxRetries)
      <3>1. f # work[w].task.fragment
        BY <1>10, <2>3 DEF FailTask
      <3>2. QED
        BY <1>0, <1>10, <2>1, <3>1 DEF Covered, Fresh, Rendering
    <2>4. QED
      BY <2>2, <2>3
  <1>11. QED
    BY <1>0, <1>2, <1>4, <1>5, <1>6, <1>7, <1>8, <1>9, <1>10 DEF Work, Covered

LEMMA CoveredKillStep ==
    ASSUME OrderlyInv, OneWorker, Kill, NEW f \in (Active \ lost)'
    PROVE  Covered(f)'
  <1>0. TypeOK /\ UNCHANGED <<mei, svg>> /\ f \in Active \ lost /\ f \in Fragments
    <2>1. CASE row' = row
      BY <2>1 DEF OrderlyInv, Kill, KillApi, KillWorker, Active
    <2>2. CASE row' # row
      <3>1. PICK w \in Workers : KillWorker(w) /\ work[w].at = "svg"
                                 /\ row' = KeyNoted(work[w].task.fragment)
        BY <2>2 DEF Kill, KillApi, KillWorker
      <3>2. QED
        BY <3>1, NotedRow DEF OrderlyInv, KillWorker, Active
    <2>3. QED
      BY <2>1, <2>2
  <1>1. Covered(f)
    BY <1>0 DEF OrderlyInv
  <1>2. ASSUME NEW w \in Workers, KillWorker(w)
        PROVE  Covered(f)'
    <2>1. f # work[w].task.fragment => row'[f] = row[f]
      BY <1>0, <1>2, NotedRow DEF KillWorker
    <2>2. QED
      BY <1>0, <1>1, <1>2, <2>1, JobShape, CoveredRequeue DEF KillWorker, Rest
  <1>3. CASE KillApi
    <2>0. row' = row
      BY <1>3 DEF KillApi
    <2>1. \A r \in Requests : f \notin Owed(r)
      BY <1>3 DEF KillApi, AllOwed
    <2>2. CASE mode = "inline"
      <3>1. f \notin InRunner /\ work' = [w \in Workers |-> Idle]
        BY <1>3, <2>2 DEF KillApi
      <3>2. Fresh(f)
        BY <1>1, <2>1, <3>1 DEF Covered, InRunner, Rendering
      <3>3. QED
        BY <1>0, <2>0, <3>1, <3>2 DEF Covered, Fresh, Rendering
    <2>3. CASE mode # "inline"
      <3>1. UNCHANGED <<queue, work>>
        BY <1>3, <2>3 DEF KillApi
      <3>2. QED
        BY <1>0, <1>1, <2>0, <2>1, <3>1, CoveredKept
    <2>4. QED
      BY <2>2, <2>3
  <1>4. QED
    BY <1>2, <1>3 DEF Kill

LEMMA OrderlyStep == OneWorker /\ OrderlyInv /\ [OrderlyNext]_vars => OrderlyInv'
  <1> SUFFICES ASSUME OneWorker, OrderlyInv, [OrderlyNext]_vars PROVE OrderlyInv'
    OBVIOUS
  <1>1. TypeOK' /\ RowsHeld'
    BY OrderlyIsNext, TypeStep, RowsHeldStep DEF OrderlyInv
  <1>2. SUFFICES ASSUME NEW f \in (Active \ lost)' PROVE Covered(f)'
    BY <1>1 DEF OrderlyInv
  <1>3. f \in Fragments /\ TypeOK /\ \A h \in Active \ lost : Covered(h)
    BY DEF OrderlyInv, Active
  <1>4. ASSUME NEW r \in Requests, NEW kind \in RowRequests, NEW g \in Fragments,
               NEW range \in Ranges, Begin(r, kind, g, range)
        PROVE  Covered(f)'
    <2>1. UNCHANGED <<row, mei, svg, queue, work, lost>> /\ f \in Active \ lost
      BY <1>4 DEF Begin, Active
    <2>2. \A s \in Requests : f \in Owed(s) => f \in Owed(s)'
      BY <1>3, <1>4 DEF Begin, Owed, Idle, TypeOK
    <2>3. QED
      BY <1>3, <2>1, <2>2, CoveredKept
  <1>5. ASSUME NEW r \in Requests, NEW score \in Scores, StoreScore(r, score)
        PROVE  Covered(f)'
    <2>1. Owed(r)' = Fragments
      BY <1>3, <1>5 DEF StoreScore, Owed, TypeOK
    <2>2. QED
      BY <1>3, <2>1 DEF Covered
  <1>6. CASE UNCHANGED vars
    BY <1>3, <1>6 DEF vars, Active, Covered, Owed, Rendering, OnTrack, Fresh
  <1>7. QED
    BY <1>4, <1>5, <1>6, CoveredRequestStep, CoveredWorkStep, CoveredKillStep
    DEF OrderlyNext, Others

\* With one worker, and as long as requests about one fragment do not overlap,
\* an active fragment whose previews were all handed over and rendered shows
\* its present range and score: however uploads, edits of other fragments,
\* failures and crashes interleave with the rendering, in either mode.
THEOREM PreviewsAreFresh ==
    ASSUME OneWorker
    PROVE  OrderlySpec => []PreviewFresh
  <1>1. ASSUME Init PROVE OrderlyInv
    <2>1. Active = {} /\ \A r \in Requests : ~InRow(r)
      BY <1>1 DEF Init, Active, UnderReview, InRow, RowRequests, Idle
    <2>2. QED
      BY <1>1, <2>1, TypeInit DEF OrderlyInv, RowsHeld
  <1>2. OrderlyInv => PreviewFresh
    BY DEF OrderlyInv, PreviewFresh, Covered, Pending, Rendering
  <1>3. OrderlyInv /\ [OrderlyNext]_vars => OrderlyInv'
    BY OrderlyStep
  <1>4. QED
    BY <1>1, <1>2, <1>3, PTL DEF OrderlySpec

=============================================================================
