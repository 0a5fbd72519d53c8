--------------------------- MODULE FragmentPreview -------------------------
(***************************************************************************)
(* The stored preview of each fragment of one movement: an SVG that a      *)
(* background task renders from the range in the fragment row and from the *)
(* movement's MEI.  A request commits its change first and hands the task  *)
(* to the runner afterwards (task_dispatch.py): a thread of the API        *)
(* process, or the Celery broker and its worker.  The task reads the row,  *)
(* then the MEI, stores the SVG and notes its key in the row, with no      *)
(* transaction around the four.                                            *)
(***************************************************************************)
EXTENDS FragmentStatus, Integers, FiniteSets, Sequences

CONSTANTS
    Fragments,  \* top-level fragments of the movement
    Ranges,     \* values of (mc_start, mc_end)
    Scores,     \* normalized MEI files that get uploaded for the movement
    Requests,   \* slots for requests in flight at the same time
    Workers,    \* tasks that run at the same time
    MaxRetries, \* max_retries of the Celery task
    MaxQueue    \* bound of the model: requests start on a queue no longer

VARIABLES
    mode,       \* TASK_EXECUTION_MODE
    row,        \* the fragment rows: status, range, preview_object_key set
    mei,        \* the MEI in object storage
    svg,        \* the previews in object storage
    req,        \* requests in flight and what each of them has read
    queue,      \* tasks handed to the runner, oldest first
    work,       \* what each worker has in hand
    lost        \* history: fragments whose newest task or dispatch was lost

vars == <<mode, row, mei, svg, req, queue, work, lost>>

NoRow == [status |-> "none"]
NoSvg == [range |-> "none"]
Idle == [at |-> "idle"]

ASSUME PreviewAssumption ==
    /\ IsFiniteSet(Fragments)
    /\ "none" \notin Ranges
    /\ MaxRetries \in Nat
    /\ MaxQueue \in Nat

Row == [status : Statuses, range : Ranges, keyed : BOOLEAN]
Svg == [range : Ranges, score : Scores]
Task == [fragment : Fragments, tries : 0..MaxRetries]

RowRequests == {"edit", "submit", "approve", "reject", "delete"}

\* A request holds what it has read of a row, owes a dispatch after its
\* commit, or uploads a score.
Request ==
    {Idle}
    \cup [at : RowRequests, fragment : Fragments, read : Row, range : Ranges]
    \cup [at : {"dispatch"}, fragment : Fragments]
    \cup [at : {"storing", "stored"}]

\* A worker has read the row, then the MEI as well, then stored the SVG.
Job ==
    {Idle}
    \cup [at : {"row"}, task : Task, range : Ranges]
    \cup [at : {"score"}, task : Task, range : Ranges, score : Scores]
    \cup [at : {"svg"}, task : Task]

TypeOK ==
    /\ mode \in {"inline", "celery"}
    /\ row \in [Fragments -> Row \cup {NoRow}]
    /\ mei \in Scores
    /\ svg \in [Fragments -> Svg \cup {NoSvg}]
    /\ req \in [Requests -> Request]
    /\ queue \in Seq(Task)
    /\ work \in [Workers -> Job]
    /\ lost \in SUBSET Fragments

\* Fresh drafts of an ingested movement.
Init ==
    /\ mode \in {"inline", "celery"}
    /\ row \in [Fragments -> [status : {"draft"}, range : Ranges, keyed : {FALSE}]]
    /\ mei \in Scores
    /\ svg = [f \in Fragments |-> NoSvg]
    /\ req = [r \in Requests |-> Idle]
    /\ queue = <<>>
    /\ work = [w \in Workers |-> Idle]
    /\ lost = {}

Exists(f) == row[f] # NoRow
Active == {f \in Fragments : row[f].status \in UnderReview}

FirstTry(f) == [fragment |-> f, tries |-> 0]

-----------------------------------------------------------------------------
(* Requests that change a fragment row (FragmentReview has them in full;   *)
(* here only what a preview depends on).  Reading comes first, the commit  *)
(* later, and no lock is held in between.                                  *)

\* The status checks of submit(), approve() and reject(); update() and
\* delete() take a row of any status.
Takes(kind, st) ==
    CASE kind = "submit" -> st = "draft"
      [] kind \in {"approve", "reject"} -> st = "submitted"
      [] kind \in {"edit", "delete"} -> TRUE

\* The bound keeps the backlog finite: it holds requests back, not the runner.
Begin(r, kind, f, range) ==
    /\ req[r] = Idle
    /\ Len(queue) <= MaxQueue
    /\ Exists(f)
    /\ Takes(kind, row[f].status)
    /\ kind # "edit" => range = row[f].range
    /\ req' = [req EXCEPT ![r] = [at |-> kind, fragment |-> f, read |-> row[f],
                                  range |-> range]]
    /\ UNCHANGED <<mode, row, mei, svg, queue, work, lost>>

Finish(r) == req' = [req EXCEPT ![r] = Idle]
Owe(r) == req' = [req EXCEPT ![r] = [at |-> "dispatch", fragment |-> req[r].fragment]]

\* A write needs its row: one that is gone by now aborts the request.
Writes(r, kind) == req[r].at = kind /\ Exists(req[r].fragment)

SetStatus(r, st) ==
    row' = [row EXCEPT ![req[r].fragment].status = Column(@, req[r].read.status, st)]

\* Fault: the edit of an approved fragment, which leaves it submitted, does not
\* ask for a new preview.
SaveEditWhileSubmitted(r) ==
    LET q == req[r] IN
    /\ Writes(r, "edit")
    /\ row' = [row EXCEPT
                 ![q.fragment].status = Column(@, q.read.status, Reopened(q.read.status)),
                 ![q.fragment].range = Column(@, q.read.range, q.range)]
    /\ IF q.read.status = "submitted" /\ q.range # q.read.range
         THEN Owe(r) ELSE Finish(r)
    /\ UNCHANGED <<mode, mei, svg, queue, work, lost>>

\* An analytic edit; the range may stay as it was.  Whether the preview is to
\* be rendered again is decided by the status read at the start.
SaveEdit(r) ==
    LET q == req[r] IN
    /\ Writes(r, "edit")
    /\ row' = [row EXCEPT
                 ![q.fragment].status = Column(@, q.read.status, Reopened(q.read.status)),
                 ![q.fragment].range = Column(@, q.read.range, q.range)]
    /\ IF q.read.status \in UnderReview /\ q.range # q.read.range
         THEN Owe(r) ELSE Finish(r)
    /\ UNCHANGED <<mode, mei, svg, queue, work, lost>>

Submit(r) ==
    /\ Writes(r, "submit")
    /\ SetStatus(r, "submitted")
    /\ Owe(r)
    /\ UNCHANGED <<mode, mei, svg, queue, work, lost>>

Approve(r) ==
    /\ Writes(r, "approve")
    /\ SetStatus(r, "approved")
    /\ Finish(r)
    /\ UNCHANGED <<mode, mei, svg, queue, work, lost>>

Reject(r) ==
    /\ Writes(r, "reject")
    /\ SetStatus(r, "rejected")
    /\ Finish(r)
    /\ UNCHANGED <<mode, mei, svg, queue, work, lost>>

\* The SVG stays in object storage.
Delete(r) ==
    /\ Writes(r, "delete")
    /\ row' = [row EXCEPT ![req[r].fragment] = NoRow]
    /\ Finish(r)
    /\ UNCHANGED <<mode, mei, svg, queue, work, lost>>

\* dispatch_task, after the commit: nothing but its own request waits for it.
Dispatch(r) ==
    /\ req[r].at = "dispatch"
    /\ queue' = Append(queue, FirstTry(req[r].fragment))
    /\ lost' = lost \ {req[r].fragment}
    /\ Finish(r)
    /\ UNCHANGED <<mode, row, mei, svg, work>>

-----------------------------------------------------------------------------
(* Uploading the movement again (ingest_corpus, steps 7 and 8).            *)

\* The MEI is stored inside the transaction, whose upserts hold the rows of
\* composer, corpus, work and movement against every other upload.
StoreScore(r, score) ==
    /\ req[r] = Idle
    /\ Len(queue) <= MaxQueue
    /\ \A s \in Requests : req[s].at # "storing"
    /\ mei' = score
    /\ req' = [req EXCEPT ![r] = [at |-> "storing"]]
    /\ UNCHANGED <<mode, row, svg, queue, work, lost>>

CommitUpload(r) ==
    /\ req[r].at = "storing"
    /\ req' = [req EXCEPT ![r] = [at |-> "stored"]]
    /\ UNCHANGED <<mode, row, mei, svg, queue, work, lost>>

\* enqueue_preview_regeneration_for_movement: one task per active fragment.
EnqueuePreviews(r) ==
    /\ req[r].at = "stored"
    /\ \E order \in [1..Cardinality(Active) -> Active] :
         /\ \A f \in Active : \E i \in DOMAIN order : order[i] = f
         /\ queue' = queue \o [i \in DOMAIN order |-> FirstTry(order[i])]
    /\ lost' = lost \ Active
    /\ Finish(r)
    /\ UNCHANGED <<mode, row, mei, svg, work>>

\* The fragments whose previews rest on a step the request has yet to take.
Owed(r) ==
    CASE req[r].at = "dispatch" -> {req[r].fragment}
      [] req[r].at \in {"storing", "stored"} -> Fragments
      [] OTHER -> {}

\* The request fails: an open transaction rolls back, but a stored MEI stays,
\* and what was committed will not be dispatched (a broker that is down raises
\* out of dispatch_task).
Abort(r) ==
    /\ req[r] # Idle
    /\ lost' = lost \cup Owed(r)
    /\ Finish(r)
    /\ UNCHANGED <<mode, row, mei, svg, queue, work>>

-----------------------------------------------------------------------------
(* The task runner and render_fragment_preview.                            *)

Rest(w) == work' = [work EXCEPT ![w] = Idle]

\* Fault: a task whose fragment is gone or not active is put back.
TakeTaskOrPutBack(w) ==
    /\ work[w] = Idle
    /\ queue # <<>>
    /\ LET f == Head(queue).fragment IN
         IF f \in Active
           THEN /\ work' = [work EXCEPT ![w] = [at |-> "row", task |-> Head(queue),
                                                range |-> row[f].range]]
                /\ queue' = Tail(queue)
           ELSE /\ queue' = Append(Tail(queue), Head(queue))
                /\ UNCHANGED work
    /\ UNCHANGED <<mode, row, mei, svg, req, lost>>

\* Takes the oldest task and reads the fragment row: a task whose fragment is
\* gone or not active is dropped (Ignore).
TakeTask(w) ==
    /\ work[w] = Idle
    /\ queue # <<>>
    /\ LET f == Head(queue).fragment IN
         IF f \in Active
           THEN work' = [work EXCEPT ![w] = [at |-> "row", task |-> Head(queue),
                                             range |-> row[f].range]]
           ELSE UNCHANGED work
    /\ queue' = Tail(queue)
    /\ UNCHANGED <<mode, row, mei, svg, req, lost>>

\* Fault: the key is noted in the row before the SVG is stored.
ReadScoreNotingKey(w) ==
    /\ work[w].at = "row"
    /\ LET f == work[w].task.fragment IN
         row' = IF Exists(f) THEN [row EXCEPT ![f].keyed = TRUE] ELSE row
    /\ work' = [work EXCEPT ![w] = [at |-> "score", task |-> @.task, range |-> @.range,
                                    score |-> mei]]
    /\ UNCHANGED <<mode, mei, svg, req, queue, lost>>

ReadScore(w) ==
    /\ work[w].at = "row"
    /\ work' = [work EXCEPT ![w] = [at |-> "score", task |-> @.task, range |-> @.range,
                                    score |-> mei]]
    /\ UNCHANGED <<mode, row, mei, svg, req, queue, lost>>

\* Renders what was read and overwrites the fragment's one object.
StoreSvg(w) ==
    /\ work[w].at = "score"
    /\ svg' = [svg EXCEPT ![work[w].task.fragment] =
                  [range |-> work[w].range, score |-> work[w].score]]
    /\ work' = [work EXCEPT ![w] = [at |-> "svg", task |-> @.task]]
    /\ UNCHANGED <<mode, row, mei, req, queue, lost>>

\* UPDATE fragment SET preview_object_key: no row, no effect.
KeyNoted(f) == IF Exists(f) THEN [row EXCEPT ![f].keyed = TRUE] ELSE row

NoteKey(w) ==
    /\ work[w].at = "svg"
    /\ row' = KeyNoted(work[w].task.fragment)
    /\ Rest(w)
    /\ UNCHANGED <<mode, mei, svg, req, queue, lost>>

\* Database, storage or Verovio fails.  The thread logs and drops the task,
\* Celery runs it again up to MaxRetries times.
FailTask(w) ==
    LET t == work[w].task IN
    /\ work[w] # Idle
    /\ IF mode = "celery" /\ t.tries < MaxRetries
         THEN queue' = Append(queue, [t EXCEPT !.tries = @ + 1]) /\ UNCHANGED lost
         ELSE UNCHANGED queue /\ lost' = lost \cup {t.fragment}
    /\ Rest(w)
    /\ UNCHANGED <<mode, row, mei, svg, req>>

Work(w) == TakeTask(w) \/ ReadScore(w) \/ StoreSvg(w) \/ NoteKey(w) \/ FailTask(w)

\* The Celery worker dies; its task was not acknowledged, though its last commit
\* may be done, and is delivered again.
KillWorker(w) ==
    /\ mode = "celery"
    /\ work[w] # Idle
    /\ \/ UNCHANGED row
       \/ work[w].at = "svg" /\ row' = KeyNoted(work[w].task.fragment)
    /\ queue' = Append(queue, work[w].task)
    /\ Rest(w)
    /\ UNCHANGED <<mode, mei, svg, req, lost>>

\* What the requests in flight owe, and what the runner has been given.
AllOwed == UNION {Owed(r) : r \in Requests}
InRunner ==
    {queue[i].fragment : i \in DOMAIN queue}
    \cup {work[w].task.fragment : w \in {w \in Workers : work[w] # Idle}}

\* The API process dies with the requests in it and, inline, with the queue
\* and the thread.
KillApi ==
    /\ req' = [r \in Requests |-> Idle]
    /\ \/ /\ mode = "inline"
          /\ queue' = <<>>
          /\ work' = [w \in Workers |-> Idle]
          /\ lost' = lost \cup AllOwed \cup InRunner
       \/ /\ mode = "celery"
          /\ lost' = lost \cup AllOwed
          /\ UNCHANGED <<queue, work>>
    /\ UNCHANGED <<mode, row, mei, svg>>

-----------------------------------------------------------------------------
Continue(r) ==
    \/ SaveEdit(r)
    \/ Submit(r)
    \/ Approve(r)
    \/ Reject(r)
    \/ Delete(r)
    \/ Dispatch(r)
    \/ CommitUpload(r)
    \/ EnqueuePreviews(r)
    \/ Abort(r)

Kill == KillApi \/ \E w \in Workers : KillWorker(w)

Others ==
    \/ \E r \in Requests : Continue(r)
    \/ \E r \in Requests, score \in Scores : StoreScore(r, score)
    \/ \E w \in Workers : Work(w)
    \/ Kill

Next ==
    \/ \E r \in Requests, kind \in RowRequests, f \in Fragments, range \in Ranges :
         Begin(r, kind, f, range)
    \/ Others

\* A request once begun ends, the executor's thread and the Celery worker keep
\* taking tasks; nobody has to send a request, and nothing has to fail.
Fairness ==
    /\ \A r \in Requests : WF_vars(Continue(r))
    /\ \A w \in Workers : WF_vars(Work(w))

Spec == Init /\ [][Next]_vars /\ Fairness

\* The same when no two requests about one fragment overlap; uploads and
\* requests about other fragments may.
Untouched(f) == \A r \in Requests : req[r].at \in RowRequests => req[r].fragment # f

OrderlyNext ==
    \/ \E r \in Requests, kind \in RowRequests, f \in Fragments, range \in Ranges :
         Untouched(f) /\ Begin(r, kind, f, range)
    \/ Others

OrderlySpec == Init /\ [][OrderlyNext]_vars /\ Fairness

-----------------------------------------------------------------------------
(* Properties.                                                             *)

\* Something has still to run before f's preview can be judged.
Pending(f) ==
    \/ \E r \in Requests : f \in Owed(r)
    \/ \E i \in DOMAIN queue : queue[i].fragment = f
    \/ \E w \in Workers : work[w] # Idle /\ work[w].task.fragment = f

Fresh(f) == row[f].keyed /\ svg[f] = [range |-> row[f].range, score |-> mei]

\* ADR-008: an active fragment's preview is regenerated whenever its range or
\* its MEI changes.  When no task, dispatch or upload that concerns it is
\* outstanding and none was lost, the preview shows the fragment as it is.
PreviewFresh == \A f \in Active \ lost : ~Pending(f) => Fresh(f)

\* The list endpoint signs a URL for every row with a key: the object is there.
KeyHasObject == \A f \in Fragments : Exists(f) /\ row[f].keyed => svg[f] # NoSvg

\* When requests and crashes cease, the runner comes to rest and every preview
\* it did not lose is fresh, whatever failed on the way.
PreviewsSettle ==
    \/ []<>(\E r \in Requests : req[r] # Idle)
    \/ []<><<Kill>>_vars
    \/ <>[](/\ queue = <<>>
            /\ \A w \in Workers : work[w] = Idle
            /\ \A f \in Active \ lost : Fresh(f))

=============================================================================
