--------------------------- MODULE FragmentReview --------------------------
(***************************************************************************)
(* FragmentService's write path for one top-level fragment, as concurrent  *)
(* HTTP requests run it on PostgreSQL at READ COMMITTED.                   *)
(*                                                                         *)
(* A request first reads the fragment row and checks it; later it writes   *)
(* and commits.  No call locks the row or compares a version, so any       *)
(* number of other requests may commit in between.  Each action below is   *)
(* one such span of a request; approve() has four.                         *)
(***************************************************************************)
EXTENDS FragmentRules

CONSTANT Requests       \* slots for requests in flight at the same time

VARIABLES
    status,     \* fragment.status, or "absent" before and "deleted" after
    content,    \* the analytic content of the row
    reviews,    \* fragment_review rows; `current` is history: the decision was
                \* made by a request that had read the content held now
    unreviewed, \* measures with an unreviewed event in movement_analysis.events
    req,        \* requests in flight and what each of them has read
    endorsers   \* history: everybody whose approving vote was ever committed

vars == <<status, content, reviews, unreviewed, req, endorsers>>

Stages == {"idle", "edit", "submit", "vote", "count", "gate", "flip", "reject",
           "delete", "dispatch"}

\* user and the row read at the start of the request; payload is what update()
\* was sent, confirm the confirm_cascade flag of delete().
Request == [at : Stages, user : Editors, status : Statuses, content : Content,
            payload : Content, confirm : BOOLEAN]

Idle == [at |-> "idle", user |-> Creator, status |-> "draft", content |-> Blank,
         payload |-> Blank, confirm |-> FALSE]

Review == [reviewer : Editors, decision : {"approved", "rejected"}, current : BOOLEAN]

TypeOK ==
    /\ status \in Statuses \cup {"absent", "deleted"}
    /\ content \in Content
    /\ reviews \in SUBSET Review
    /\ unreviewed \in SUBSET Bars
    /\ req \in [Requests -> Request]
    /\ endorsers \in SUBSET Editors

Live == status \in Statuses

Init ==
    /\ status = "absent"
    /\ content = Blank
    /\ reviews = {}
    /\ unreviewed = {}
    /\ req = [r \in Requests |-> Idle]
    /\ endorsers = {}

-----------------------------------------------------------------------------
(* The request that creates the row: nobody knows its id before it commits, *)
(* so nothing interleaves with it.                                         *)

CreateDraft(p) ==
    /\ status = "absent"
    /\ Contained(p)
    /\ status' = "draft"
    /\ content' = p
    /\ UNCHANGED <<reviews, unreviewed, req, endorsers>>

-----------------------------------------------------------------------------
(* First span: load the row, check status and permission.                  *)

Enter(r, stage, u, p, confirm) ==
    /\ req[r].at = "idle"
    /\ Live
    /\ req' = [req EXCEPT ![r] = [at |-> stage, user |-> u, status |-> status,
                                  content |-> content, payload |-> p,
                                  confirm |-> confirm]]
    /\ UNCHANGED <<status, content, reviews, unreviewed, endorsers>>

\* Fault: update() forgets validate_containment_for_update.
BeginUpdateUnchecked(r, u, p) ==
    /\ MayEdit(u)
    /\ Enter(r, "edit", u, p, FALSE)

BeginUpdate(r, u, p) ==
    /\ Contained(p)
    /\ MayEdit(u)
    /\ Enter(r, "edit", u, p, FALSE)

\* Any editor may submit any draft: the route passes no caller.
BeginSubmit(r, u) ==
    /\ status = "draft"
    /\ Enter(r, "submit", u, Blank, FALSE)

\* Fault: approve() takes an admin straight to the gate without a review row.
BeginApproveUnrecorded(r, u) ==
    /\ status = "submitted"
    /\ MayReview(u)
    /\ Enter(r, IF u \in Admins THEN "gate" ELSE "vote", u, Blank, FALSE)

\* Fault: approve() takes a rejected fragment, too.
BeginApproveRejected(r, u) ==
    /\ status \in {"submitted", "rejected"}
    /\ MayReview(u)
    /\ Enter(r, "vote", u, Blank, FALSE)

BeginApprove(r, u) ==
    /\ status = "submitted"
    /\ MayReview(u)
    /\ Enter(r, "vote", u, Blank, FALSE)

BeginReject(r, u) ==
    /\ status = "submitted"
    /\ MayReview(u)
    /\ Enter(r, "reject", u, Blank, FALSE)

\* Sub-parts are deleted with their parent only on confirm_cascade.
BeginDelete(r, u, confirm) ==
    /\ MayDelete(u, status)
    /\ content.parts = {} \/ confirm
    /\ Enter(r, "delete", u, Blank, confirm)

Begin(r) ==
    \E u \in Editors :
        \/ \E p \in Payloads : BeginUpdate(r, u, p)
        \/ BeginSubmit(r, u)
        \/ BeginApprove(r, u)
        \/ BeginReject(r, u)
        \/ \E confirm \in BOOLEAN : BeginDelete(r, u, confirm)

-----------------------------------------------------------------------------
(* Later spans.  A write to a row that has been deleted meanwhile fails    *)
(* (StaleDataError, or the foreign key of fragment_review): see Abort.     *)

MoveTo(r, stage) == req' = [req EXCEPT ![r].at = stage]
Finish(r) == req' = [req EXCEPT ![r] = Idle]

\* update(), nothing analytic changed: only prose_annotation is written.
SaveProse(r) ==
    /\ req[r].at = "edit"
    /\ Live
    /\ req[r].payload = req[r].content
    /\ Finish(r)
    /\ UNCHANGED <<status, content, reviews, unreviewed, endorsers>>

\* update(), analytic edit.  Which status to write and whether to delete the
\* reviews is decided by the status read at the start.
SaveAnalysis(r) ==
    LET q == req[r] IN
    /\ q.at = "edit"
    /\ Live
    /\ q.payload # q.content
    /\ content' = Overlay(content, q.content, q.payload)
    /\ status' = Column(status, q.status, Reopened(q.status))
    /\ reviews' = IF q.status \in UnderReview THEN {} ELSE Outdated(reviews)
    /\ IF q.status \in UnderReview /\ RangeChanged(q.content, q.payload)
         THEN MoveTo(r, "dispatch")
         ELSE Finish(r)
    /\ UNCHANGED <<unreviewed, endorsers>>

SubmitDraft(r) ==
    /\ req[r].at = "submit"
    /\ Live
    /\ status' = Column(status, req[r].status, "submitted")
    /\ MoveTo(r, "dispatch")
    /\ UNCHANGED <<content, reviews, unreviewed, endorsers>>

\* render_fragment_preview is handed to the task runner after the commit.
DispatchPreview(r) ==
    /\ req[r].at = "dispatch"
    /\ Finish(r)
    /\ UNCHANGED <<status, content, reviews, unreviewed, endorsers>>

\* approve(), phase 1: the vote is committed whatever the gate says later.
RecordVote(r) ==
    LET q == req[r] IN
    /\ q.at = "vote"
    /\ Live
    /\ reviews' = Upsert(reviews, q.user, "approved", content = q.content)
    /\ endorsers' = endorsers \cup {q.user}
    /\ MoveTo(r, IF q.user \in Admins THEN "gate" ELSE "count")
    /\ UNCHANGED <<status, content, unreviewed>>

\* approve(), phase 2: enough approvals by others than the creator.
CountApprovals(r) ==
    /\ req[r].at = "count"
    /\ Approvals(reviews) >= Threshold
    /\ MoveTo(r, "gate")
    /\ UNCHANGED <<status, content, reviews, unreviewed, endorsers>>

AwaitMoreApprovals(r) ==
    /\ req[r].at = "count"
    /\ Approvals(reviews) < Threshold
    /\ Finish(r)
    /\ UNCHANGED <<status, content, reviews, unreviewed, endorsers>>

\* Fault: the gate asks for the harmony events only.
PassesHarmonyOnly(q) == HarmonyGate(q.content, content.gated, unreviewed)

\* Fault: the gate asks for the key only.
PassesKeyOnly(q) == KeyGate(q.content)

\* The gate judges the summary and the range that phase 1 read, against tags
\* and harmony events read now.
Passes(q) == KeyGate(q.content) /\ HarmonyGate(q.content, content.gated, unreviewed)

PassGate(r) ==
    /\ req[r].at = "gate"
    /\ Passes(req[r])
    /\ MoveTo(r, "flip")
    /\ UNCHANGED <<status, content, reviews, unreviewed, endorsers>>

FailGate(r) ==
    /\ req[r].at = "gate"
    /\ ~Passes(req[r])
    /\ Finish(r)
    /\ UNCHANGED <<status, content, reviews, unreviewed, endorsers>>

\* approve(), phase 3.  The row is selected again, but the session still holds
\* the object of phase 1 (expire_on_commit is off), so the guard on its status
\* sees the "submitted" of phase 1 and the UPDATE is always sent.
FlipToApproved(r) ==
    /\ req[r].at = "flip"
    /\ Live
    /\ status' = Column(status, req[r].status, "approved")
    /\ Finish(r)
    /\ UNCHANGED <<content, reviews, unreviewed, endorsers>>

RejectFragment(r) ==
    LET q == req[r] IN
    /\ q.at = "reject"
    /\ Live
    /\ reviews' = Upsert(reviews, q.user, "rejected", content = q.content)
    /\ status' = Column(status, q.status, "rejected")
    /\ Finish(r)
    /\ UNCHANGED <<content, unreviewed, endorsers>>

\* Tags, reviews and sub-parts go with the row (ON DELETE CASCADE).
DeleteFragment(r) ==
    /\ req[r].at = "delete"
    /\ Live
    /\ status' = "deleted"
    /\ content' = Blank
    /\ reviews' = {}
    /\ Finish(r)
    /\ UNCHANGED <<unreviewed, endorsers>>

\* The request ends early and its open transaction rolls back: a write finds
\* no row, a unique or foreign key fails, Neo4j is down, a concept is gone,
\* the process dies.  What earlier phases committed stays.
Abort(r) ==
    /\ req[r].at # "idle"
    /\ Finish(r)
    /\ UNCHANGED <<status, content, reviews, unreviewed, endorsers>>

Continue(r) ==
    \/ SaveProse(r)
    \/ SaveAnalysis(r)
    \/ SubmitDraft(r)
    \/ DispatchPreview(r)
    \/ RecordVote(r)
    \/ CountApprovals(r)
    \/ AwaitMoreApprovals(r)
    \/ PassGate(r)
    \/ FailGate(r)
    \/ FlipToApproved(r)
    \/ RejectFragment(r)
    \/ DeleteFragment(r)
    \/ Abort(r)

-----------------------------------------------------------------------------
(* Harmony review of the movement, which goes on beside all this.          *)

\* An editor confirms or corrects the last unreviewed event of measure b.
ConfirmHarmony(b) ==
    /\ b \in unreviewed
    /\ unreviewed' = unreviewed \ {b}
    /\ UNCHANGED <<status, content, reviews, req, endorsers>>

\* An analysis task stores an event for measure b that nobody has reviewed.
IngestHarmony(b) ==
    /\ b \notin unreviewed
    /\ unreviewed' = unreviewed \cup {b}
    /\ UNCHANGED <<status, content, reviews, req, endorsers>>

Background ==
    \/ \E p \in Payloads : CreateDraft(p)
    \/ \E b \in Bars : ConfirmHarmony(b) \/ IngestHarmony(b)

-----------------------------------------------------------------------------
Next ==
    \/ \E r \in Requests : Begin(r) \/ Continue(r)
    \/ Background

Spec == Init /\ [][Next]_vars

\* The same calls when no two of them overlap: one annotator, or people who
\* wait for each other.
Quiet == \A r \in Requests : req[r].at = "idle"

SerialNext ==
    \/ \E r \in Requests : (Quiet /\ Begin(r)) \/ Continue(r)
    \/ Quiet /\ Background

SerialSpec == Init /\ [][SerialNext]_vars

-----------------------------------------------------------------------------
(* Properties under any interleaving.                                      *)

\* The rule that nobody reviews their own work (_check_not_creator) holds for
\* every row ever kept in fragment_review.
IndependentReview == \A x \in reviews : MayReview(x.reviewer)

\* No review row survives its fragment, however late the vote comes: approve
\* and reject against delete.
ReviewsNeedFragment == ~Live => reviews = {}

\* Even when requests overlap, a fragment is approved only after somebody
\* entitled to review it has voted for some version of it: approve()'s phases
\* against edits that delete the votes between them.
EarnedApproval == status = "approved" => \E u \in endorsers : MayReview(u)

\* Nobody, admins included, gets past the first check of the gate: whatever
\* step makes a fragment approved ends an approve() whose own reading of the
\* summary had its key reviewed.
GateNotBypassed ==
    [][status # "approved" /\ status' = "approved" =>
         \E r \in Requests : req[r].at = "flip" /\ req'[r].at = "idle"
                             /\ KeyGate(req[r].content)]_vars

-----------------------------------------------------------------------------
(* Properties of requests that do not overlap.                             *)

\* Prior approval does not survive a change to the analysis: an approved
\* fragment has an approving review, by somebody entitled, of the very content
\* it shows.
ApprovedContentReviewed ==
    status = "approved" =>
        \E x \in reviews : x.decision = "approved" /\ x.current /\ MayReview(x.reviewer)

\* Every sub-part lies within its parent.
StagesContained == Contained(content)

\* A rejection stands until the creator revises: no approval overrides it.
RejectionStands == [][status = "rejected" => status' # "approved"]_vars

\* Sub-parts never go with their parent unless the caller confirmed it.
CascadeConfirmed ==
    [][Live /\ status' = "deleted" /\ content.parts # {} =>
         \E r \in Requests : req[r].at = "delete" /\ req'[r].at = "idle"
                             /\ req[r].confirm]_vars

Workflow == INSTANCE ReviewWorkflow
    WITH status <- status, content <- content, reviews <- reviews, unreviewed <- unreviewed

\* One at a time, the calls do exactly what the workflow promises.
RefinesWorkflow == Workflow!Spec

=============================================================================
