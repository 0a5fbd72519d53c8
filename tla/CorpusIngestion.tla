--------------------------- MODULE CorpusIngestion -------------------------
(***************************************************************************)
(* One movement through uploads of its corpus (services/ingestion.py): its *)
(* row, the original and the normalized MEI in object storage, and the two *)
(* tasks an upload hands to the runner after its commit, the import of the *)
(* harmonies (ingest_analysis.py) and the incipit (generate_incipit.py).   *)
(* The harmonies travel with the task; the MEI does not, the tasks fetch   *)
(* whatever is stored when they run.                                       *)
(***************************************************************************)
EXTENDS Integers, FiniteSets, Sequences

CONSTANTS
    Uploads,        \* contents of the movement that get uploaded
    WithHarmonies,  \* those of a DCML corpus that bring a harmonies file
    WithKey,        \* those whose metadata names a key signature
    Uploaders,      \* slots for ingest_corpus requests in flight
    Workers,        \* tasks that run at the same time
    MaxRetries,     \* max_retries of the incipit task
    MaxQueue        \* bound of the model: requests start on a queue no longer

VARIABLES
    mode,       \* TASK_EXECUTION_MODE
    row,        \* the movement row
    original,   \* the MEI as uploaded, in object storage
    score,      \* the normalized MEI
    analysis,   \* which harmonies and MEI movement_analysis was written from
    incipit,    \* which MEI the incipit SVG was rendered from
    up,         \* the uploads in flight
    queue,      \* tasks handed to the runner, oldest first
    work,       \* what each worker has in hand
    lost,       \* history: kinds of task of which the newest was lost
    crossed,    \* history: since the newest commit, or at that commit, an upload
                \* came upon an analysis that was still to come
    stray       \* history: an upload failed after it had stored something

vars == <<mode, row, original, score, analysis, incipit, up, queue, work, lost,
          crossed, stray>>

\* No object, no harmonies file.
None == "none"
NoRow == [upload |-> None]
NoAnalysis == [tsv |-> None]
Idle == [at |-> "idle"]

ASSUME IngestionAssumption ==
    /\ None \notin Uploads
    /\ WithHarmonies \subseteq Uploads
    /\ MaxRetries \in Nat
    /\ MaxQueue \in Nat

\* key_signature: absent, from the metadata, or derived by the analysis.
Keys == {"absent", "given", "derived"}

Row == [upload : Uploads, key : Keys, pending : BOOLEAN, incipit : BOOLEAN]

\* An analysis task carries the harmonies of its upload, or none.
Task ==
    [kind : {"analysis"}, tsv : WithHarmonies \cup {None}]
    \cup [kind : {"incipit"}, tries : 0..MaxRetries]

\* An upload holds its locks, has stored the original, has stored the score
\* too, has committed and owes both tasks, owes the incipit.
Upload == {Idle} \cup [at : {"locked", "half", "stored", "owes", "owesIncipit"},
                       upload : Uploads]

\* A worker has read the row, then the MEI as well, then stored the SVG.  Of
\* the row it is the key that matters, and only to an analysis.
Job ==
    {Idle}
    \cup [at : {"row"}, task : Task, key : Keys]
    \cup [at : {"score"}, task : Task, key : Keys, score : Uploads]
    \cup [at : {"svg"}, task : {t \in Task : t.kind = "incipit"}]

TypeOK ==
    /\ mode \in {"inline", "celery"}
    /\ row \in Row \cup {NoRow}
    /\ original \in Uploads \cup {None}
    /\ score \in Uploads \cup {None}
    /\ analysis \in [tsv : WithHarmonies, score : Uploads] \cup {NoAnalysis}
    /\ incipit \in Uploads \cup {None}
    /\ up \in [Uploaders -> Upload]
    /\ queue \in Seq(Task)
    /\ work \in [Workers -> Job]
    /\ lost \in SUBSET {"analysis", "incipit"}
    /\ crossed \in BOOLEAN
    /\ stray \in BOOLEAN

Init ==
    /\ mode \in {"inline", "celery"}
    /\ row = NoRow
    /\ original = None
    /\ score = None
    /\ analysis = NoAnalysis
    /\ incipit = None
    /\ up = [u \in Uploaders |-> Idle]
    /\ queue = <<>>
    /\ work = [w \in Workers |-> Idle]
    /\ lost = {}
    /\ crossed = FALSE
    /\ stray = FALSE

-----------------------------------------------------------------------------
(* What is under way.                                                      *)

\* An upload whose transaction is open; it has the row locks of composer,
\* corpus, work and movement.
InTransaction(u) == up[u].at \in {"locked", "half", "stored"}

\* The harmonies that uploads will dispatch, that are queued, or in hand.
Owed == {up[u].upload : u \in {u \in Uploaders : up[u].at = "owes"}} \cap WithHarmonies
Queued == {queue[i].tsv : i \in {i \in DOMAIN queue : queue[i].kind = "analysis"}} \ {None}
InHand ==
    {work[w].task.tsv : w \in {w \in Workers : work[w] # Idle
                                               /\ work[w].task.kind = "analysis"}}
Outstanding == Owed \cup Queued \cup InHand

-----------------------------------------------------------------------------
(* An upload, from the transaction on.  Unpacking, validation and          *)
(* normalization come first and touch nothing.                             *)

\* Fault: the transaction takes no lock that another upload would wait for.
BeginUploadUnlocked(u, c) ==
    /\ up[u] = Idle
    /\ Len(queue) <= MaxQueue
    /\ up' = [up EXCEPT ![u] = [at |-> "locked", upload |-> c]]
    /\ UNCHANGED <<mode, row, original, score, analysis, incipit, queue, work, lost,
                   crossed, stray>>

\* The upserts, the composer's first: each waits for the same row in another
\* upload, whether it is there already or about to be inserted.
BeginUpload(u, c) ==
    /\ up[u] = Idle
    /\ Len(queue) <= MaxQueue
    /\ \A v \in Uploaders : ~InTransaction(v)
    /\ up' = [up EXCEPT ![u] = [at |-> "locked", upload |-> c]]
    /\ UNCHANGED <<mode, row, original, score, analysis, incipit, queue, work, lost,
                   crossed, stray>>

StoreOriginal(u) ==
    /\ up[u].at = "locked"
    /\ original' = up[u].upload
    /\ up' = [up EXCEPT ![u].at = "half"]
    /\ UNCHANGED <<mode, row, score, analysis, incipit, queue, work, lost, crossed, stray>>

StoreScore(u) ==
    /\ up[u].at = "half"
    /\ score' = up[u].upload
    /\ up' = [up EXCEPT ![u].at = "stored"]
    /\ crossed' = (crossed \/ Outstanding # {})
    /\ UNCHANGED <<mode, row, original, analysis, incipit, queue, work, lost, stray>>

\* The incipit's key is not among the columns of the upsert.
Commit(u) ==
    LET c == up[u].upload IN
    /\ up[u].at = "stored"
    /\ row' = [upload |-> c, key |-> IF c \in WithKey THEN "given" ELSE "absent",
               pending |-> TRUE, incipit |-> row # NoRow /\ row.incipit]
    /\ up' = [up EXCEPT ![u].at = "owes"]
    /\ crossed' = (Outstanding # {})
    /\ stray' = FALSE
    /\ UNCHANGED <<mode, original, score, analysis, incipit, queue, work, lost>>

DispatchAnalysis(u) ==
    LET tsv == IF up[u].upload \in WithHarmonies THEN up[u].upload ELSE None IN
    /\ up[u].at = "owes"
    /\ queue' = Append(queue, [kind |-> "analysis", tsv |-> tsv])
    /\ lost' = IF tsv # None THEN lost \ {"analysis"} ELSE lost
    /\ up' = [up EXCEPT ![u].at = "owesIncipit"]
    /\ UNCHANGED <<mode, row, original, score, analysis, incipit, work, crossed, stray>>

FirstTry == [kind |-> "incipit", tries |-> 0]

\* Fault: a movement that has an incipit gets no other.
DispatchIncipitOnce(u) ==
    /\ up[u].at = "owesIncipit"
    /\ queue' = IF row.incipit THEN queue ELSE Append(queue, FirstTry)
    /\ lost' = lost \ {"incipit"}
    /\ up' = [up EXCEPT ![u] = Idle]
    /\ UNCHANGED <<mode, row, original, score, analysis, incipit, work, crossed, stray>>

\* The previews of the movement's fragments come next: see FragmentPreview.
DispatchIncipit(u) ==
    /\ up[u].at = "owesIncipit"
    /\ queue' = Append(queue, FirstTry)
    /\ lost' = lost \ {"incipit"}
    /\ up' = [up EXCEPT ![u] = Idle]
    /\ UNCHANGED <<mode, row, original, score, analysis, incipit, work, crossed, stray>>

\* The tasks that will never be if upload q goes no further.
Forfeit(q) ==
    CASE q.at = "stored"      -> {"incipit"}
      [] q.at = "owes"        -> {"analysis", "incipit"}
      [] q.at = "owesIncipit" -> {"incipit"}
      [] OTHER                -> {}

\* The upload fails: storage, another movement of the same archive, the broker.
\* The transaction rolls back, the stored objects stay.
Abort(u) ==
    /\ up[u] # Idle
    /\ lost' = lost \cup Forfeit(up[u])
    /\ stray' = (stray \/ up[u].at \in {"half", "stored"})
    /\ up' = [up EXCEPT ![u] = Idle]
    /\ UNCHANGED <<mode, row, original, score, analysis, incipit, queue, work, crossed>>

\* Fault: the endpoint takes the movement for analysed.
RedispatchFlipping ==
    /\ row # NoRow /\ row.pending
    /\ Len(queue) <= MaxQueue
    /\ queue' = Append(queue, [kind |-> "analysis", tsv |-> None])
    /\ row' = [row EXCEPT !.pending = FALSE]
    /\ UNCHANGED <<mode, original, score, analysis, incipit, up, work, lost, crossed, stray>>

\* dispatch_pending_analysis: the harmonies file is not at hand any more.
Redispatch ==
    /\ row # NoRow /\ row.pending
    /\ Len(queue) <= MaxQueue
    /\ queue' = Append(queue, [kind |-> "analysis", tsv |-> None])
    /\ UNCHANGED <<mode, row, original, score, analysis, incipit, up, work, lost, crossed,
                   stray>>

-----------------------------------------------------------------------------
(* The tasks.  An UPDATE of the movement row waits while an upload holds it. *)

Unlocked == \A u \in Uploaders : ~InTransaction(u)
Rest(w) == work' = [work EXCEPT ![w] = Idle]

\* An analysis task without harmonies raises or returns before it reads.
TakeTask(w) ==
    LET t == Head(queue) IN
    /\ work[w] = Idle
    /\ queue # <<>>
    /\ IF t.kind = "analysis" /\ t.tsv = None
         THEN UNCHANGED work
         ELSE work' = [work EXCEPT ![w] = [at |-> "row", task |-> t,
                        key |-> IF t.kind = "analysis" THEN row.key ELSE "absent"]]
    /\ queue' = Tail(queue)
    /\ UNCHANGED <<mode, row, original, score, analysis, incipit, up, lost, crossed, stray>>

ReadScore(w) ==
    /\ work[w].at = "row"
    /\ work' = [work EXCEPT ![w] = [at |-> "score", task |-> @.task, key |-> @.key,
                                    score |-> score]]
    /\ UNCHANGED <<mode, row, original, score, analysis, incipit, up, queue, lost, crossed,
                   stray>>

\* Fault: the key of the harmonies is written whatever the row said.
WriteAnalysisOverKey(w) ==
    LET q == work[w] IN
    /\ q.at = "score" /\ q.task.kind = "analysis"
    /\ Unlocked
    /\ analysis' = [tsv |-> q.task.tsv, score |-> q.score]
    /\ row' = [row EXCEPT !.key = "derived", !.pending = FALSE]

\* Fault: the flag is forgotten.
WriteAnalysisUnmarked(w) ==
    LET q == work[w] IN
    /\ q.at = "score" /\ q.task.kind = "analysis"
    /\ Unlocked
    /\ analysis' = [tsv |-> q.task.tsv, score |-> q.score]
    /\ UNCHANGED row

\* _dcml_branch, phase 3.  A key the row lacked when it was read is filled in,
\* if the harmonies tell one; the flag is cleared whoever set it.
WriteAnalysis(w) ==
    LET q == work[w] IN
    /\ q.at = "score" /\ q.task.kind = "analysis"
    /\ Unlocked
    /\ analysis' = [tsv |-> q.task.tsv, score |-> q.score]
    /\ \E key \in {row.key} \cup (IF q.key = "absent" THEN {"derived"} ELSE {}) :
         row' = [row EXCEPT !.key = key, !.pending = FALSE]

FinishAnalysis(w) ==
    /\ WriteAnalysis(w)
    /\ Rest(w)
    /\ UNCHANGED <<mode, original, score, incipit, up, queue, lost, crossed, stray>>

StoreSvg(w) ==
    LET q == work[w] IN
    /\ q.at = "score" /\ q.task.kind = "incipit"
    /\ incipit' = q.score
    /\ work' = [work EXCEPT ![w] = [at |-> "svg", task |-> q.task]]
    /\ UNCHANGED <<mode, row, original, score, analysis, up, queue, lost, crossed, stray>>

WriteKey(w) ==
    /\ work[w].at = "svg"
    /\ Unlocked
    /\ row' = [row EXCEPT !.incipit = TRUE]
    /\ UNCHANGED analysis

NoteKey(w) ==
    /\ WriteKey(w)
    /\ Rest(w)
    /\ UNCHANGED <<mode, original, score, incipit, up, queue, lost, crossed, stray>>

\* Fault: one retry too many.
FailTaskOnceMore(w) ==
    LET t == work[w].task IN
    /\ work[w] # Idle
    /\ IF mode = "celery" /\ t.kind = "incipit" /\ t.tries <= MaxRetries
         THEN queue' = Append(queue, [t EXCEPT !.tries = @ + 1]) /\ UNCHANGED lost
         ELSE UNCHANGED queue /\ lost' = lost \cup {t.kind}
    /\ Rest(w)
    /\ UNCHANGED <<mode, row, original, score, analysis, incipit, up, crossed, stray>>

\* The analysis task is not retried, the incipit task is by Celery only.
FailTask(w) ==
    LET t == work[w].task IN
    /\ work[w] # Idle
    /\ IF mode = "celery" /\ t.kind = "incipit" /\ t.tries < MaxRetries
         THEN queue' = Append(queue, [t EXCEPT !.tries = @ + 1]) /\ UNCHANGED lost
         ELSE UNCHANGED queue /\ lost' = lost \cup {t.kind}
    /\ Rest(w)
    /\ UNCHANGED <<mode, row, original, score, analysis, incipit, up, crossed, stray>>

\* The Celery worker dies; its task was not acknowledged, though its commit may
\* be done, and is delivered again.
KillWorker(w) ==
    /\ mode = "celery"
    /\ work[w] # Idle
    /\ UNCHANGED <<row, analysis>> \/ WriteAnalysis(w) \/ WriteKey(w)
    /\ queue' = Append(queue, work[w].task)
    /\ Rest(w)
    /\ UNCHANGED <<mode, original, score, incipit, up, lost, crossed, stray>>

InRunner ==
    {queue[i].kind : i \in DOMAIN queue}
    \cup {work[w].task.kind : w \in {w \in Workers : work[w] # Idle}}

\* The API process dies with its uploads and, inline, with queue and thread.
KillApi ==
    /\ up' = [u \in Uploaders |-> Idle]
    /\ stray' = (stray \/ \E u \in Uploaders : up[u].at \in {"half", "stored"})
    /\ LET forfeit == lost \cup UNION {Forfeit(up[u]) : u \in Uploaders} IN
         \/ /\ mode = "inline"
            /\ queue' = <<>>
            /\ work' = [w \in Workers |-> Idle]
            /\ lost' = forfeit \cup InRunner
         \/ /\ mode = "celery"
            /\ lost' = forfeit
            /\ UNCHANGED <<queue, work>>
    /\ UNCHANGED <<mode, row, original, score, analysis, incipit, crossed>>

-----------------------------------------------------------------------------
UploadStep(u) ==
    \/ \E c \in Uploads : BeginUpload(u, c)
    \/ StoreOriginal(u)
    \/ StoreScore(u)
    \/ Commit(u)
    \/ DispatchAnalysis(u)
    \/ DispatchIncipit(u)
    \/ Abort(u)

TaskStep(w) ==
    \/ TakeTask(w)
    \/ ReadScore(w)
    \/ FinishAnalysis(w)
    \/ StoreSvg(w)
    \/ NoteKey(w)
    \/ FailTask(w)
    \/ KillWorker(w)

Next ==
    \/ \E u \in Uploaders : UploadStep(u)
    \/ \E w \in Workers : TaskStep(w)
    \/ Redispatch
    \/ KillApi

Spec == Init /\ [][Next]_vars

-----------------------------------------------------------------------------
(* Properties.                                                             *)

Analysed == analysis = [tsv |-> row.upload, score |-> row.upload]

\* ADR-018: the flag answers truthfully whether the movement needs analysis.
\* Unless uploads cross analyses, a movement that is not pending has been
\* analysed from the harmonies and the MEI of its newest upload, whatever
\* failed, was retried or delivered twice.
FlagTruthful == ~crossed /\ row # NoRow /\ ~row.pending => Analysed

\* The other direction: a movement stays pending only while its analysis is to
\* come, after it was lost, or for want of harmonies.
PendingExplained ==
    row # NoRow /\ row.pending =>
        \/ Outstanding # {}
        \/ "analysis" \in lost
        \/ row.upload \notin WithHarmonies

\* A key signature given with an upload is not replaced by a derived one that
\* an analysis worked out from an earlier state of the row.
GivenKeyKept == ~crossed /\ row # NoRow /\ row.upload \in WithKey => row.key = "given"

\* Row, original and score come from one upload, however many run at once,
\* unless one failed with its files stored.
ObjectsMatchRow ==
    ~stray /\ (\A u \in Uploaders : up[u].at \notin {"half", "stored"}) /\ row # NoRow =>
        original = row.upload /\ score = row.upload

IncipitPending ==
    \/ \E u \in Uploaders : up[u].at \in {"stored", "owes", "owesIncipit"}
    \/ "incipit" \in InRunner

\* With one worker, an incipit that nothing is about to render again shows the
\* MEI as it is.
IncipitFresh ==
    row # NoRow /\ ~IncipitPending /\ "incipit" \notin lost =>
        row.incipit /\ incipit = score

=============================================================================
