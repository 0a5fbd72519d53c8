------------------------ MODULE FragmentReviewProofs -----------------------
(***************************************************************************)
(* What FragmentReview guarantees for every set of editors, every range of *)
(* payloads and every number of requests in flight: first under any        *)
(* interleaving (Spec), then for requests that do not overlap (SerialSpec).*)
(***************************************************************************)
EXTENDS FragmentReview, TLAPS

-----------------------------------------------------------------------------
(* Facts about the rules.                                                  *)

LEMMA BlankContent == Blank \in Content /\ Contained(Blank)
  BY RulesAssumption DEF Blank, Content, Contained, Bars

LEMMA PayloadContent == \A p \in Payloads : p \in Content
  BY RulesAssumption

\* A row read once and saved over by anybody is still a row.
LEMMA OverlayContent ==
    ASSUME NEW c \in Content, NEW read \in Content, NEW sent \in Content
    PROVE  Overlay(c, read, sent) \in Content
  BY DEF Overlay, Column, Content

\* Saving over the row that was read stores exactly what was sent.
LEMMA OverlayOfRead ==
    ASSUME NEW read \in Content, NEW sent \in Content
    PROVE  Overlay(read, read, sent) = sent
  BY DEF Overlay, Column, Content

LEMMA ReopenedStatus ==
    ASSUME NEW st \in Statuses
    PROVE  /\ Reopened(st) \in Statuses
           /\ Reopened(st) = "approved" => st = "approved"
           /\ Reopened(st) # "approved"
  BY DEF Reopened, Statuses

-----------------------------------------------------------------------------
(* Type correctness.                                                       *)

\* Upserting keeps fragment_review a set of review rows.
LEMMA UpsertReviews ==
    ASSUME NEW rs \in SUBSET Review, NEW u \in Editors,
           NEW d \in {"approved", "rejected"}, NEW b \in BOOLEAN
    PROVE  Upsert(rs, u, d, b) \in SUBSET Review
  BY DEF Upsert, Review

LEMMA OutdatedReviews ==
    ASSUME NEW rs \in SUBSET Review
    PROVE  Outdated(rs) \in SUBSET Review
  BY DEF Outdated, Review

LEMMA IdleRequest == Idle \in Request
  BY BlankContent, RulesAssumption DEF Idle, Request, Stages, Statuses

\* A request that starts remembers the row as it is.
LEMMA BeginStep ==
    ASSUME NEW r \in Requests, TypeOK, Begin(r)
    PROVE  /\ Live
           /\ \E q \in Request :
                /\ req[r].at = "idle"
                /\ req' = [req EXCEPT ![r] = q]
                /\ q.status = status
                /\ q.content = content
                /\ \/ q.at = "edit" /\ q.payload \in Payloads /\ Contained(q.payload)
                                    /\ MayEdit(q.user)
                   \/ q.at = "submit" /\ status = "draft"
                   \/ q.at \in {"vote", "reject"} /\ status = "submitted" /\ MayReview(q.user)
                   \/ q.at = "delete" /\ MayDelete(q.user, status)
                                     /\ (content.parts = {} \/ q.confirm)
           /\ UNCHANGED <<status, content, reviews, unreviewed, endorsers>>
  <1> PICK u \in Editors :
        \/ \E p \in Payloads : BeginUpdate(r, u, p)
        \/ BeginSubmit(r, u)
        \/ BeginApprove(r, u)
        \/ BeginReject(r, u)
        \/ \E confirm \in BOOLEAN : BeginDelete(r, u, confirm)
    BY DEF Begin
  <1> DEFINE New(stage, p, confirm) ==
        [at |-> stage, user |-> u, status |-> status, content |-> content,
         payload |-> p, confirm |-> confirm]
  <1>1. ASSUME Live, NEW stage \in Stages, NEW p \in Content, NEW confirm \in BOOLEAN
        PROVE  New(stage, p, confirm) \in Request
    BY <1>1 DEF TypeOK, Live, Request
  <1>2. ASSUME NEW p \in Payloads, BeginUpdate(r, u, p)
        PROVE  Live /\ New("edit", p, FALSE) \in Request
    BY <1>1, <1>2, PayloadContent DEF BeginUpdate, Enter, Stages
  <1>3. ASSUME BeginSubmit(r, u)
        PROVE  Live /\ New("submit", Blank, FALSE) \in Request
    BY <1>1, <1>3, BlankContent DEF BeginSubmit, Enter, Stages
  <1>4. ASSUME BeginApprove(r, u)
        PROVE  Live /\ New("vote", Blank, FALSE) \in Request
    BY <1>1, <1>4, BlankContent DEF BeginApprove, Enter, Stages
  <1>5. ASSUME BeginReject(r, u)
        PROVE  Live /\ New("reject", Blank, FALSE) \in Request
    BY <1>1, <1>5, BlankContent DEF BeginReject, Enter, Stages
  <1>6. ASSUME NEW confirm \in BOOLEAN, BeginDelete(r, u, confirm)
        PROVE  Live /\ New("delete", Blank, confirm) \in Request
    BY <1>1, <1>6, BlankContent DEF BeginDelete, Enter, Stages
  <1>7. QED
    BY <1>2, <1>3, <1>4, <1>5, <1>6
    DEF BeginUpdate, BeginSubmit, BeginApprove, BeginReject, BeginDelete, Enter

LEMMA TypeStep == TypeOK /\ [Next]_vars => TypeOK'
  <1> SUFFICES ASSUME TypeOK, [Next]_vars PROVE TypeOK'
    OBVIOUS
  <1> USE DEF TypeOK
  <1>0. /\ Idle \in Request
        /\ \A r \in Requests, stage \in Stages : [req[r] EXCEPT !.at = stage] \in Request
    BY IdleRequest DEF Request
  <1>1. ASSUME NEW r \in Requests, Begin(r) PROVE TypeOK'
    BY <1>1, BeginStep
  <1>2. ASSUME NEW r \in Requests, SaveProse(r) PROVE TypeOK'
    BY <1>0, <1>2 DEF SaveProse, Finish
  <1>3. ASSUME NEW r \in Requests, SaveAnalysis(r) PROVE TypeOK'
    <2>1. req[r] \in Request
      OBVIOUS
    <2>2. content' \in Content
      BY <1>3, <2>1, OverlayContent DEF SaveAnalysis, Request
    <2>3. status' \in Statuses
      BY <1>3, <2>1, ReopenedStatus DEF SaveAnalysis, Request, Column, Live
    <2>4. reviews' \in SUBSET Review
      BY <1>3, OutdatedReviews DEF SaveAnalysis
    <2>5. req' \in [Requests -> Request]
      BY <1>0, <1>3 DEF SaveAnalysis, MoveTo, Finish, Stages
    <2>6. QED
      BY <1>3, <2>2, <2>3, <2>4, <2>5 DEF SaveAnalysis
  <1>4. ASSUME NEW r \in Requests, SubmitDraft(r) PROVE TypeOK'
    BY <1>0, <1>4 DEF SubmitDraft, MoveTo, Column, Statuses, Stages
  <1>5. ASSUME NEW r \in Requests, DispatchPreview(r) PROVE TypeOK'
    BY <1>0, <1>5 DEF DispatchPreview, Finish
  <1>6. ASSUME NEW r \in Requests, RecordVote(r) PROVE TypeOK'
    <2>1. req[r].user \in Editors
      BY DEF Request
    <2>2. reviews' \in SUBSET Review
      BY <1>6, <2>1, UpsertReviews DEF RecordVote
    <2>3. req' \in [Requests -> Request]
      BY <1>0, <1>6 DEF RecordVote, MoveTo, Stages
    <2>4. QED
      BY <1>6, <2>1, <2>2, <2>3 DEF RecordVote
  <1>7. ASSUME NEW r \in Requests, CountApprovals(r) PROVE TypeOK'
    BY <1>0, <1>7 DEF CountApprovals, MoveTo, Stages
  <1>8. ASSUME NEW r \in Requests, AwaitMoreApprovals(r) PROVE TypeOK'
    BY <1>0, <1>8 DEF AwaitMoreApprovals, Finish
  <1>9. ASSUME NEW r \in Requests, PassGate(r) PROVE TypeOK'
    BY <1>0, <1>9 DEF PassGate, MoveTo, Stages
  <1>10. ASSUME NEW r \in Requests, FailGate(r) PROVE TypeOK'
    BY <1>0, <1>10 DEF FailGate, Finish
  <1>11. ASSUME NEW r \in Requests, FlipToApproved(r) PROVE TypeOK'
    BY <1>0, <1>11 DEF FlipToApproved, Finish, Column, Statuses
  <1>12. ASSUME NEW r \in Requests, RejectFragment(r) PROVE TypeOK'
    <2>1. req[r].user \in Editors
      BY DEF Request
    <2>2. reviews' \in SUBSET Review
      BY <1>12, <2>1, UpsertReviews DEF RejectFragment
    <2>3. QED
      BY <1>0, <1>12, <2>2 DEF RejectFragment, Finish, Column, Statuses
  <1>13. ASSUME NEW r \in Requests, DeleteFragment(r) PROVE TypeOK'
    BY <1>0, <1>13, BlankContent DEF DeleteFragment, Finish
  <1>14. ASSUME NEW r \in Requests, Abort(r) PROVE TypeOK'
    BY <1>0, <1>14 DEF Abort, Finish
  <1>15. ASSUME Background PROVE TypeOK'
    BY <1>15, PayloadContent
    DEF Background, CreateDraft, ConfirmHarmony, IngestHarmony, Statuses
  <1>16. CASE UNCHANGED vars
    BY <1>16 DEF vars
  <1>17. QED
    BY <1>1, <1>2, <1>3, <1>4, <1>5, <1>6, <1>7, <1>8, <1>9, <1>10, <1>11, <1>12,
       <1>13, <1>14, <1>15, <1>16 DEF Next, Continue

\* Every variable keeps its type, whatever requests overlap.
THEOREM TypeCorrect == Spec => []TypeOK
  <1>1. Init => TypeOK
    BY BlankContent, IdleRequest DEF Init, TypeOK
  <1>2. QED
    BY <1>1, TypeStep, PTL DEF Spec

-----------------------------------------------------------------------------
(* Requests that overlap in any way.                                       *)
(*                                                                         *)
(* The row tells little about what a request in flight has done, so the    *)
(* invariant follows the requests: who is entitled to decide, who has      *)
(* voted, and which of them has its key check behind it.                   *)

Deciding == {"vote", "count", "gate", "flip", "reject"}

RequestsInv ==
    \A r \in Requests :
        /\ req[r].at \in Deciding => MayReview(req[r].user)
        /\ req[r].at \in {"count", "gate", "flip"} => req[r].user \in endorsers
        /\ req[r].at = "flip" => KeyGate(req[r].content)

InterleavedInv ==
    /\ TypeOK
    /\ RequestsInv
    /\ IndependentReview
    /\ ReviewsNeedFragment
    /\ EarnedApproval

\* A request that goes on or ends leaves the requests' part of the invariant
\* to what it adds itself.
LEMMA RequestsStep ==
    ASSUME TypeOK, RequestsInv, NEW r \in Requests, NEW q \in Request,
           req' = [req EXCEPT ![r] = q],
           endorsers \subseteq endorsers',
           q.at \in Deciding => MayReview(q.user),
           q.at \in {"count", "gate", "flip"} => q.user \in endorsers',
           q.at = "flip" => KeyGate(q.content)
    PROVE  RequestsInv'
  <1> SUFFICES ASSUME NEW s \in Requests
               PROVE  /\ req'[s].at \in Deciding => MayReview(req'[s].user)
                      /\ req'[s].at \in {"count", "gate", "flip"} => req'[s].user \in endorsers'
                      /\ req'[s].at = "flip" => KeyGate(req'[s].content)
    BY DEF RequestsInv, KeyGate, MayReview
  <1>1. CASE s = r
    BY <1>1 DEF TypeOK
  <1>2. CASE s # r
    BY <1>2 DEF TypeOK, RequestsInv
  <1>3. QED
    BY <1>1, <1>2

LEMMA RequestsFinish ==
    ASSUME TypeOK, RequestsInv, NEW r \in Requests, Finish(r), endorsers' = endorsers
    PROVE  RequestsInv'
  BY RequestsStep, IdleRequest DEF Finish, Idle, Deciding

LEMMA RequestsMove ==
    ASSUME TypeOK, RequestsInv, NEW r \in Requests, NEW stage \in Stages, MoveTo(r, stage),
           endorsers \subseteq endorsers',
           stage \in Deciding => req[r].at \in Deciding,
           stage \in {"count", "gate", "flip"} => req[r].user \in endorsers',
           stage = "flip" => KeyGate(req[r].content)
    PROVE  RequestsInv'
  <1> DEFINE q == [req[r] EXCEPT !.at = stage]
  <1>1. req[r] \in Request
    BY DEF TypeOK
  <1>2. /\ q \in Request
        /\ q.at = stage /\ q.user = req[r].user /\ q.content = req[r].content
    BY <1>1 DEF Request
  <1>3. req' = [req EXCEPT ![r] = q]
    BY DEF MoveTo
  <1>4. stage \in Deciding => MayReview(req[r].user)
    BY DEF RequestsInv
  <1> HIDE DEF q
  <1>5. QED
    BY <1>2, <1>3, <1>4, RequestsStep

\* The votes a step may leave behind: upserting an entitled reviewer's row,
\* outdating or deleting rows never adds a row of anybody else.
LEMMA ReviewersKept ==
    ASSUME IndependentReview
    PROVE  /\ \A u, d, b : MayReview(u) =>
                \A x \in Upsert(reviews, u, d, b) : MayReview(x.reviewer)
           /\ reviews \in SUBSET Review => \A x \in Outdated(reviews) : MayReview(x.reviewer)
  <1>1. \A u, d, b : MayReview(u) =>
                \A x \in Upsert(reviews, u, d, b) : MayReview(x.reviewer)
    BY DEF IndependentReview, Upsert
  <1>2. reviews \in SUBSET Review => \A x \in Outdated(reviews) : MayReview(x.reviewer)
    BY DEF IndependentReview, Outdated, Review
  <1>3. QED
    BY <1>1, <1>2

LEMMA InterleavedStep == InterleavedInv /\ [Next]_vars => InterleavedInv'
  <1> SUFFICES ASSUME InterleavedInv, [Next]_vars PROVE InterleavedInv'
    OBVIOUS
  <1>0. /\ TypeOK /\ RequestsInv /\ IndependentReview /\ ReviewsNeedFragment /\ EarnedApproval
        /\ TypeOK'
        /\ \A r \in Requests : req[r] \in Request
    BY TypeStep DEF InterleavedInv, TypeOK
  <1> DEFINE Rest == IndependentReview' /\ ReviewsNeedFragment' /\ EarnedApproval'
  <1> SUFFICES RequestsInv' /\ Rest
    BY <1>0 DEF InterleavedInv
  <1>A. ASSUME status' = status, reviews' = reviews, endorsers' = endorsers
        PROVE  Rest
    BY <1>0, <1>A DEF IndependentReview, ReviewsNeedFragment, EarnedApproval, Live
  <1>1. ASSUME NEW r \in Requests, Begin(r) PROVE RequestsInv' /\ Rest
    <2>1. Rest
      BY <1>0, <1>1, <1>A, BeginStep
    <2>2. PICK q \in Request :
                /\ req' = [req EXCEPT ![r] = q]
                /\ \/ q.at = "edit"
                   \/ q.at = "submit"
                   \/ q.at \in {"vote", "reject"} /\ MayReview(q.user)
                   \/ q.at = "delete"
      BY <1>0, <1>1, BeginStep
    <2>3. QED
      BY <1>0, <1>1, <2>1, <2>2, BeginStep, RequestsStep DEF Deciding
  <1>2. ASSUME NEW r \in Requests, SaveProse(r) PROVE RequestsInv' /\ Rest
    BY <1>0, <1>2, <1>A, RequestsFinish DEF SaveProse
  <1>3. ASSUME NEW r \in Requests, SaveAnalysis(r) PROVE RequestsInv' /\ Rest
    <2>1. RequestsInv'
      BY <1>0, <1>3, RequestsFinish, RequestsMove DEF SaveAnalysis, Deciding, Stages
    <2>2. status' \in Statuses /\ (status' = "approved" => status = "approved")
      BY <1>0, <1>3, ReopenedStatus DEF SaveAnalysis, Column, Live, Request
    <2>3. \A x \in reviews' : MayReview(x.reviewer)
      BY <1>0, <1>3, ReviewersKept DEF SaveAnalysis, TypeOK
    <2>4. QED
      BY <1>0, <1>3, <2>1, <2>2, <2>3
      DEF SaveAnalysis, IndependentReview, ReviewsNeedFragment, EarnedApproval, Live
  <1>4. ASSUME NEW r \in Requests, SubmitDraft(r) PROVE RequestsInv' /\ Rest
    <2>1. RequestsInv'
      BY <1>0, <1>4, RequestsMove DEF SubmitDraft, Deciding, Stages
    <2>2. QED
      BY <1>0, <1>4, <2>1
      DEF SubmitDraft, Column, IndependentReview, ReviewsNeedFragment, EarnedApproval, Live,
          Statuses
  <1>5. ASSUME NEW r \in Requests, DispatchPreview(r) PROVE RequestsInv' /\ Rest
    BY <1>0, <1>5, <1>A, RequestsFinish DEF DispatchPreview
  <1>6. ASSUME NEW r \in Requests, RecordVote(r) PROVE RequestsInv' /\ Rest
    <2>1. MayReview(req[r].user)
      BY <1>0, <1>6 DEF RecordVote, RequestsInv, Deciding
    <2>2. RequestsInv'
      BY <1>0, <1>6, RequestsMove DEF RecordVote, Deciding, Stages
    <2>3. \A x \in reviews' : MayReview(x.reviewer)
      BY <1>0, <1>6, <2>1, ReviewersKept DEF RecordVote
    <2>4. QED
      BY <1>0, <1>6, <2>2, <2>3
      DEF RecordVote, IndependentReview, ReviewsNeedFragment, EarnedApproval, Live
  <1>7. ASSUME NEW r \in Requests, CountApprovals(r) PROVE RequestsInv' /\ Rest
    <2>1. RequestsInv'
      BY <1>0, <1>7, RequestsMove DEF CountApprovals, Deciding, Stages, RequestsInv
    <2>2. QED
      BY <1>7, <1>A, <2>1 DEF CountApprovals
  <1>8. ASSUME NEW r \in Requests, AwaitMoreApprovals(r) PROVE RequestsInv' /\ Rest
    BY <1>0, <1>8, <1>A, RequestsFinish DEF AwaitMoreApprovals
  <1>9. ASSUME NEW r \in Requests, PassGate(r) PROVE RequestsInv' /\ Rest
    <2>1. RequestsInv'
      BY <1>0, <1>9, RequestsMove DEF PassGate, Passes, Deciding, Stages, RequestsInv
    <2>2. QED
      BY <1>9, <1>A, <2>1 DEF PassGate
  <1>10. ASSUME NEW r \in Requests, FailGate(r) PROVE RequestsInv' /\ Rest
    BY <1>0, <1>10, <1>A, RequestsFinish DEF FailGate
  <1>11. ASSUME NEW r \in Requests, FlipToApproved(r) PROVE RequestsInv' /\ Rest
    <2>1. req[r].user \in endorsers /\ MayReview(req[r].user)
      BY <1>0, <1>11 DEF FlipToApproved, RequestsInv, Deciding
    <2>2. RequestsInv'
      BY <1>0, <1>11, RequestsFinish DEF FlipToApproved
    <2>3. QED
      BY <1>0, <1>11, <2>1, <2>2
      DEF FlipToApproved, Column, IndependentReview, ReviewsNeedFragment, EarnedApproval,
          Live, Statuses
  <1>12. ASSUME NEW r \in Requests, RejectFragment(r) PROVE RequestsInv' /\ Rest
    <2>1. MayReview(req[r].user)
      BY <1>0, <1>12 DEF RejectFragment, RequestsInv, Deciding
    <2>2. RequestsInv'
      BY <1>0, <1>12, RequestsFinish DEF RejectFragment
    <2>3. \A x \in reviews' : MayReview(x.reviewer)
      BY <1>0, <1>12, <2>1, ReviewersKept DEF RejectFragment
    <2>4. QED
      BY <1>0, <1>12, <2>2, <2>3
      DEF RejectFragment, Column, IndependentReview, ReviewsNeedFragment, EarnedApproval,
          Live, Statuses
  <1>13. ASSUME NEW r \in Requests, DeleteFragment(r) PROVE RequestsInv' /\ Rest
    <2>1. RequestsInv'
      BY <1>0, <1>13, RequestsFinish DEF DeleteFragment
    <2>2. QED
      BY <1>13, <2>1
      DEF DeleteFragment, IndependentReview, ReviewsNeedFragment, EarnedApproval
  <1>14. ASSUME NEW r \in Requests, Abort(r) PROVE RequestsInv' /\ Rest
    BY <1>0, <1>14, <1>A, RequestsFinish DEF Abort
  <1>15. ASSUME Background PROVE RequestsInv' /\ Rest
    <2>1. req' = req /\ endorsers' = endorsers /\ reviews' = reviews
      BY <1>15 DEF Background, CreateDraft, ConfirmHarmony, IngestHarmony
    <2>2. status' = status \/ status' = "draft"
      BY <1>15 DEF Background, CreateDraft, ConfirmHarmony, IngestHarmony
    <2>3. QED
      BY <1>0, <2>1, <2>2
      DEF RequestsInv, IndependentReview, ReviewsNeedFragment, EarnedApproval, Live, Statuses
  <1>16. CASE UNCHANGED vars
    BY <1>0, <1>16, <1>A DEF vars, RequestsInv
  <1>17. QED
    BY <1>1, <1>2, <1>3, <1>4, <1>5, <1>6, <1>7, <1>8, <1>9, <1>10, <1>11, <1>12,
       <1>13, <1>14, <1>15, <1>16 DEF Next, Continue

LEMMA Interleaved == Spec => []InterleavedInv
  <1>1. Init => InterleavedInv
    BY BlankContent, IdleRequest
    DEF Init, TypeOK, InterleavedInv, RequestsInv, IndependentReview, ReviewsNeedFragment,
        EarnedApproval, Idle, Deciding
  <1>2. QED
    BY <1>1, InterleavedStep, PTL DEF Spec

\* Nobody but an admin ever has a review row on their own fragment.
THEOREM Independence == Spec => []IndependentReview
  BY Interleaved, PTL DEF InterleavedInv

\* However a vote races a deletion, no review row is left without its fragment.
THEOREM NoOrphanReviews == Spec => []ReviewsNeedFragment
  BY Interleaved, PTL DEF InterleavedInv

\* However the phases of approve() interleave with edits, no fragment is
\* approved that nobody entitled has ever voted for.
THEOREM ApprovalIsEarned == Spec => []EarnedApproval
  BY Interleaved, PTL DEF InterleavedInv

\* Only the last phase of an approve() whose own reading passed the key check
\* makes a fragment approved.
THEOREM KeyGateHolds == Spec => GateNotBypassed
  <1> DEFINE Flips == status # "approved" /\ status' = "approved" =>
                        \E r \in Requests : req[r].at = "flip" /\ req'[r].at = "idle"
                                            /\ KeyGate(req[r].content)
  <1>1. InterleavedInv /\ [Next]_vars => [Flips]_vars
    <2> SUFFICES ASSUME InterleavedInv, Next, status # "approved", status' = "approved"
                 PROVE  \E r \in Requests : req[r].at = "flip" /\ req'[r].at = "idle"
                                             /\ KeyGate(req[r].content)
      BY DEF vars
    <2>1. ~Background
      BY DEF Background, CreateDraft, ConfirmHarmony, IngestHarmony
    <2>2. PICK r \in Requests : Begin(r) \/ Continue(r)
      BY <2>1 DEF Next
    <2>3. ~Begin(r) /\ req[r] \in Request
      BY BeginStep DEF InterleavedInv, TypeOK
    <2>4. ~SaveAnalysis(r)
      BY <2>3, ReopenedStatus DEF SaveAnalysis, Column, Request
    <2>5. FlipToApproved(r)
      BY <2>2, <2>3, <2>4
      DEF Continue, SaveProse, SubmitDraft, DispatchPreview, RecordVote, CountApprovals,
          AwaitMoreApprovals, PassGate, FailGate, RejectFragment, DeleteFragment, Abort, Column
    <2>6. QED
      BY <2>5 DEF FlipToApproved, Finish, Idle, InterleavedInv, TypeOK, RequestsInv
  <1>2. QED
    BY <1>1, Interleaved, PTL DEF Spec, GateNotBypassed


-----------------------------------------------------------------------------
(* Requests that do not overlap.                                           *)
(*                                                                         *)
(* With one request in flight the row is what that request read, so each   *)
(* stage of it says what has been checked already: the status, the caller, *)
(* the vote that phase 1 left, the gate that phase 2 passed.               *)

OneAtATime == \A r, s \in Requests : req[r].at # "idle" /\ req[s].at # "idle" => r = s

\* Between two of its spans a request finds the row as it left it.
RowAsRead ==
    \A r \in Requests : req[r].at \notin {"idle", "dispatch"} =>
        /\ status = req[r].status
        /\ content = req[r].content

OwnVote(u) == [reviewer |-> u, decision |-> "approved", current |-> TRUE]

\* q is a request in flight; c, rs and un are the content, the reviews and the
\* unreviewed measures it works with.
Checked(q, c, rs, un) ==
    /\ q.at = "edit" => q.payload \in Payloads /\ Contained(q.payload)
    /\ q.at = "submit" => q.status = "draft"
    /\ q.at \in Deciding => q.status = "submitted" /\ MayReview(q.user)
    /\ q.at \in {"count", "gate", "flip"} => OwnVote(q.user) \in rs
    /\ q.at = "flip" => KeyGate(c) /\ HarmonyGate(c, c.gated, un)
    /\ q.at = "delete" => MayDelete(q.user, q.status) /\ (q.content.parts = {} \/ q.confirm)

\* The requests' part of the invariant.
InFlightInv ==
    /\ OneAtATime
    /\ RowAsRead
    /\ \A r \in Requests : Checked(req[r], content, reviews, unreviewed)

SerialInv ==
    /\ TypeOK
    /\ InFlightInv
    /\ ApprovedContentReviewed
    /\ StagesContained

\* While r is in flight, or when nothing is, a step of r leaves the requests'
\* part of the invariant to what r itself has checked and sees.
LEMMA InFlightStep ==
    ASSUME TypeOK, InFlightInv, NEW r \in Requests, req[r].at # "idle" \/ Quiet,
           NEW q \in Request, req' = [req EXCEPT ![r] = q],
           q.at \notin {"idle", "dispatch"} => status' = q.status /\ content' = q.content,
           Checked(q, content', reviews', unreviewed')
    PROVE  InFlightInv'
  <1>1. \A s \in Requests : s # r => req'[s].at = "idle"
    BY DEF InFlightInv, OneAtATime, Quiet, TypeOK
  <1>2. req'[r] = q
    BY DEF TypeOK
  <1>3. OneAtATime'
    BY <1>1 DEF OneAtATime
  <1>4. RowAsRead'
    BY <1>1, <1>2 DEF RowAsRead
  <1>5. ASSUME NEW s \in Requests
        PROVE  Checked(req'[s], content', reviews', unreviewed')
    <2>1. CASE s = r
      BY <1>2, <2>1
    <2>2. CASE s # r
      BY <1>1, <2>2 DEF Checked, Deciding
    <2>3. QED
      BY <2>1, <2>2
  <1>6. QED
    BY <1>3, <1>4, <1>5 DEF InFlightInv

LEMMA InFlightFinish ==
    ASSUME TypeOK, InFlightInv, NEW r \in Requests, req[r].at # "idle", Finish(r)
    PROVE  InFlightInv'
  BY InFlightStep, IdleRequest DEF Finish, Idle, Checked, Deciding

\* The same for a request that moves on to its next stage.
LEMMA InFlightMove ==
    ASSUME TypeOK, InFlightInv, NEW r \in Requests, req[r].at # "idle",
           NEW stage \in Stages, MoveTo(r, stage),
           \/ stage = "dispatch"
           \/ /\ stage \in {"count", "gate", "flip"}
              /\ req[r].at \in Deciding
              /\ status' = status
              /\ content' = content
              /\ OwnVote(req[r].user) \in reviews'
              /\ stage = "flip" =>
                    KeyGate(content') /\ HarmonyGate(content', content'.gated, unreviewed')
    PROVE  InFlightInv'
  <1> DEFINE q == [req[r] EXCEPT !.at = stage]
  <1>1. req[r] \in Request
    BY DEF TypeOK
  <1>2. /\ q \in Request
        /\ q.at = stage /\ q.user = req[r].user
        /\ q.content = req[r].content /\ q.status = req[r].status
    BY <1>1 DEF Request
  <1>3. req' = [req EXCEPT ![r] = q]
    BY DEF MoveTo
  <1>4. req[r].at \in Deciding => /\ req[r].status = "submitted" /\ MayReview(req[r].user)
                                  /\ status = req[r].status /\ content = req[r].content
    BY DEF InFlightInv, RowAsRead, Checked, Deciding
  <1> HIDE DEF q
  <1>5. Checked(q, content', reviews', unreviewed')
    BY <1>2, <1>4 DEF Checked, Deciding
  <1>6. q.at \notin {"idle", "dispatch"} => status' = q.status /\ content' = q.content
    BY <1>2, <1>4
  <1>7. QED
    BY <1>2, <1>3, <1>5, <1>6, InFlightStep

\* What a request in flight knows about the row it is about to change.
LEMMA RowOfRequest ==
    ASSUME SerialInv, NEW r \in Requests, req[r].at \notin {"idle", "dispatch"}
    PROVE  /\ req[r] \in Request
           /\ req[r].status = status
           /\ req[r].content = content
           /\ status \in Statuses
           /\ Checked(req[r], content, reviews, unreviewed)
  BY DEF SerialInv, InFlightInv, RowAsRead, TypeOK, Request

LEMMA SerialStep == SerialInv /\ [SerialNext]_vars => SerialInv'
  <1> SUFFICES ASSUME SerialInv, [SerialNext]_vars PROVE SerialInv'
    OBVIOUS
  <1>0. /\ TypeOK /\ InFlightInv /\ ApprovedContentReviewed /\ StagesContained
        /\ TypeOK'
    BY TypeStep DEF SerialInv, SerialNext, Next
  <1> DEFINE Good == InFlightInv' /\ ApprovedContentReviewed' /\ StagesContained'
  <1> SUFFICES Good
    BY <1>0 DEF SerialInv
  <1>A. ASSUME status' = status, content' = content, reviews' = reviews
        PROVE  ApprovedContentReviewed' /\ StagesContained'
    BY <1>0, <1>A DEF ApprovedContentReviewed, StagesContained
  <1>1. ASSUME NEW r \in Requests, Quiet, Begin(r) PROVE Good
    <2>1. PICK q \in Request :
                /\ req' = [req EXCEPT ![r] = q]
                /\ q.status = status /\ q.content = content
                /\ Checked(q, content, reviews, unreviewed)
      BY <1>0, <1>1, BeginStep DEF Checked, Deciding
    <2>2. UNCHANGED <<status, content, reviews, unreviewed>>
      BY <1>0, <1>1, BeginStep
    <2>3. InFlightInv'
      BY <1>0, <1>1, <2>1, <2>2, InFlightStep
    <2>4. QED
      BY <1>A, <2>2, <2>3
  <1>2. ASSUME NEW r \in Requests, SaveProse(r) PROVE Good
    BY <1>0, <1>2, <1>A, InFlightFinish DEF SaveProse
  <1>3. ASSUME NEW r \in Requests, SaveAnalysis(r) PROVE Good
    <2>1. InFlightInv'
      BY <1>0, <1>3, InFlightFinish, InFlightMove DEF SaveAnalysis, Stages
    <2>2. status' # "approved"
      BY <1>3, RowOfRequest, ReopenedStatus DEF SaveAnalysis, Column
    <2>3. content' = req[r].payload /\ Contained(req[r].payload)
      BY <1>3, RowOfRequest, OverlayOfRead DEF SaveAnalysis, Checked, Request
    <2>4. QED
      BY <2>1, <2>2, <2>3 DEF ApprovedContentReviewed, StagesContained
  <1>4. ASSUME NEW r \in Requests, SubmitDraft(r) PROVE Good
    <2>1. InFlightInv'
      BY <1>0, <1>4, InFlightMove DEF SubmitDraft, Stages
    <2>2. QED
      BY <1>0, <1>4, <2>1, RowOfRequest
      DEF SubmitDraft, Checked, Column, ApprovedContentReviewed, StagesContained
  <1>5. ASSUME NEW r \in Requests, DispatchPreview(r) PROVE Good
    BY <1>0, <1>5, <1>A, InFlightFinish DEF DispatchPreview
  <1>6. ASSUME NEW r \in Requests, RecordVote(r) PROVE Good
    <2>1. status = "submitted" /\ OwnVote(req[r].user) \in reviews'
      BY <1>6, RowOfRequest DEF RecordVote, Checked, Deciding, Upsert, OwnVote
    <2>2. InFlightInv'
      BY <1>0, <1>6, <2>1, InFlightMove DEF RecordVote, Stages, Deciding
    <2>3. QED
      BY <1>0, <1>6, <2>1, <2>2 DEF RecordVote, ApprovedContentReviewed, StagesContained
  <1>7. ASSUME NEW r \in Requests, CountApprovals(r) PROVE Good
    <2>1. OwnVote(req[r].user) \in reviews
      BY <1>7, RowOfRequest DEF CountApprovals, Checked
    <2>2. InFlightInv'
      BY <1>0, <1>7, <2>1, InFlightMove DEF CountApprovals, Stages, Deciding
    <2>3. QED
      BY <1>7, <1>A, <2>2 DEF CountApprovals
  <1>8. ASSUME NEW r \in Requests, AwaitMoreApprovals(r) PROVE Good
    BY <1>0, <1>8, <1>A, InFlightFinish DEF AwaitMoreApprovals
  <1>9. ASSUME NEW r \in Requests, PassGate(r) PROVE Good
    <2>1. /\ OwnVote(req[r].user) \in reviews
          /\ KeyGate(content) /\ HarmonyGate(content, content.gated, unreviewed)
      BY <1>9, RowOfRequest DEF PassGate, Passes, Checked
    <2>2. InFlightInv'
      BY <1>0, <1>9, <2>1, InFlightMove DEF PassGate, Stages, Deciding
    <2>3. QED
      BY <1>9, <1>A, <2>2 DEF PassGate
  <1>10. ASSUME NEW r \in Requests, FailGate(r) PROVE Good
    BY <1>0, <1>10, <1>A, InFlightFinish DEF FailGate
  <1>11. ASSUME NEW r \in Requests, FlipToApproved(r) PROVE Good
    <2>1. OwnVote(req[r].user) \in reviews /\ MayReview(req[r].user)
      BY <1>11, RowOfRequest DEF FlipToApproved, Checked, Deciding
    <2>2. InFlightInv'
      BY <1>0, <1>11, InFlightFinish DEF FlipToApproved
    <2>3. QED
      BY <1>0, <1>11, <2>1, <2>2
      DEF FlipToApproved, OwnVote, ApprovedContentReviewed, StagesContained
  <1>12. ASSUME NEW r \in Requests, RejectFragment(r) PROVE Good
    <2>1. InFlightInv' /\ status = "submitted" /\ req[r].status = status
      BY <1>0, <1>12, InFlightFinish, RowOfRequest DEF RejectFragment, Checked, Deciding
    <2>2. QED
      BY <1>0, <1>12, <2>1
      DEF RejectFragment, Column, ApprovedContentReviewed, StagesContained
  <1>13. ASSUME NEW r \in Requests, DeleteFragment(r) PROVE Good
    BY <1>0, <1>13, InFlightFinish, BlankContent
    DEF DeleteFragment, ApprovedContentReviewed, StagesContained
  <1>14. ASSUME NEW r \in Requests, Abort(r) PROVE Good
    BY <1>0, <1>14, <1>A, InFlightFinish DEF Abort
  <1>15. ASSUME Quiet, Background PROVE Good
    <2>1. InFlightInv'
      BY <1>0, <1>15
      DEF InFlightInv, OneAtATime, RowAsRead, Checked, Deciding, Quiet, Background,
          CreateDraft, ConfirmHarmony, IngestHarmony
    <2>2. QED
      BY <1>0, <1>15, <2>1
      DEF Background, CreateDraft, ConfirmHarmony, IngestHarmony,
          ApprovedContentReviewed, StagesContained
  <1>16. CASE UNCHANGED vars
    BY <1>0, <1>16, <1>A DEF vars, InFlightInv, OneAtATime, RowAsRead
  <1>17. QED
    BY <1>1, <1>2, <1>3, <1>4, <1>5, <1>6, <1>7, <1>8, <1>9, <1>10, <1>11, <1>12,
       <1>13, <1>14, <1>15, <1>16 DEF SerialNext, Continue

LEMMA Serial == SerialSpec => []SerialInv
  <1>1. Init => SerialInv
    <2> SUFFICES ASSUME Init PROVE SerialInv
      OBVIOUS
    <2>1. TypeOK
      BY BlankContent, IdleRequest DEF Init, TypeOK
    <2>2. \A r \in Requests : req[r].at = "idle"
      BY DEF Init, Idle
    <2>3. InFlightInv
      BY <2>2 DEF InFlightInv, OneAtATime, RowAsRead, Checked, Deciding
    <2>4. ApprovedContentReviewed /\ StagesContained
      BY BlankContent DEF Init, ApprovedContentReviewed, StagesContained
    <2>5. QED
      BY <2>1, <2>3, <2>4 DEF SerialInv
  <1>2. QED
    BY <1>1, SerialStep, PTL DEF SerialSpec

\* Requests that wait for each other never show an approval of other content
\* than the one that was reviewed.
THEOREM ApprovalMatchesContent == SerialSpec => []ApprovedContentReviewed
  BY Serial, PTL DEF SerialInv

\* Requests that wait for each other never leave a sub-part outside its parent.
THEOREM StagesStayInside == SerialSpec => []StagesContained
  BY Serial, PTL DEF SerialInv

\* Requests that wait for each other never turn a rejection into an approval.
THEOREM RejectionHolds == SerialSpec => RejectionStands
  <1>1. SerialInv /\ [SerialNext]_vars => [status = "rejected" => status' # "approved"]_vars
    <2> SUFFICES ASSUME SerialInv, SerialNext, status = "rejected", status' = "approved"
                 PROVE  FALSE
      BY DEF vars
    <2>1. ~Background
      BY DEF Background, CreateDraft, ConfirmHarmony, IngestHarmony
    <2>2. PICK r \in Requests : Begin(r) \/ Continue(r)
      BY <2>1 DEF SerialNext
    <2>3. ~Begin(r)
      BY BeginStep DEF SerialInv
    <2>4. ~SaveAnalysis(r)
      BY RowOfRequest, ReopenedStatus DEF SaveAnalysis, Column
    <2>5. FlipToApproved(r)
      BY <2>2, <2>3, <2>4
      DEF Continue, SaveProse, SubmitDraft, DispatchPreview, RecordVote, CountApprovals,
          AwaitMoreApprovals, PassGate, FailGate, RejectFragment, DeleteFragment, Abort, Column
    <2>6. QED
      BY <2>5, RowOfRequest DEF FlipToApproved, Checked, Deciding
  <1>2. QED
    BY <1>1, Serial, PTL DEF SerialSpec, RejectionStands

\* Requests that wait for each other never delete sub-parts unasked.
THEOREM CascadeIsConfirmed == SerialSpec => CascadeConfirmed
  <1> DEFINE Asked == Live /\ status' = "deleted" /\ content.parts # {} =>
                        \E r \in Requests : req[r].at = "delete" /\ req'[r].at = "idle"
                                            /\ req[r].confirm
  <1>1. SerialInv /\ [SerialNext]_vars => [Asked]_vars
    <2> SUFFICES ASSUME SerialInv, SerialNext, Live, status' = "deleted", content.parts # {}
                 PROVE  \E r \in Requests : req[r].at = "delete" /\ req'[r].at = "idle"
                                            /\ req[r].confirm
      BY DEF vars
    <2>0. status # "deleted"
      BY DEF Live, Statuses
    <2>1. ~Background
      BY <2>0 DEF Background, CreateDraft, ConfirmHarmony, IngestHarmony
    <2>2. PICK r \in Requests : Begin(r) \/ Continue(r)
      BY <2>1 DEF SerialNext
    <2>3. ~Begin(r)
      BY <2>0, BeginStep DEF SerialInv
    <2>4. ~SaveAnalysis(r)
      BY <2>0, RowOfRequest, ReopenedStatus DEF SaveAnalysis, Column, Statuses
    <2>5. DeleteFragment(r)
      BY <2>0, <2>2, <2>3, <2>4
      DEF Continue, SaveProse, SubmitDraft, DispatchPreview, RecordVote, CountApprovals,
          AwaitMoreApprovals, PassGate, FailGate, FlipToApproved, RejectFragment, Abort, Column
    <2>6. req[r].at = "delete" /\ req[r].confirm
      BY <2>5, RowOfRequest DEF DeleteFragment, Checked
    <2>7. req'[r].at = "idle"
      BY <2>5 DEF DeleteFragment, Finish, Idle, SerialInv, TypeOK
    <2>8. QED
      BY <2>6, <2>7
  <1>2. QED
    BY <1>1, Serial, PTL DEF SerialSpec, CascadeConfirmed

-----------------------------------------------------------------------------
(* Refinement: every call made alone is one step of the workflow, taken    *)
(* when its last write commits; its reads and checks stutter.              *)

LEMMA WorkflowStep == SerialInv /\ [SerialNext]_vars => [Workflow!Next]_(Workflow!vars)
  <1> SUFFICES ASSUME SerialInv, [SerialNext]_vars, ~UNCHANGED Workflow!vars
               PROVE  Workflow!Next
    OBVIOUS
  <1>0. TypeOK /\ ~UNCHANGED <<status, content, reviews, unreviewed>>
    BY DEF SerialInv, Workflow!vars
  <1>1. CASE Background
    <2>1. ASSUME NEW p \in Payloads, CreateDraft(p) PROVE Workflow!Create
      BY <2>1 DEF CreateDraft, Workflow!Create, Contained, Workflow!Contained
    <2>2. ASSUME NEW b \in Bars, ConfirmHarmony(b) \/ IngestHarmony(b)
          PROVE  Workflow!HarmonyChange
      BY <1>0, <2>2
      DEF ConfirmHarmony, IngestHarmony, Workflow!HarmonyChange, TypeOK, Bars, Workflow!Bars
    <2>3. QED
      BY <1>1, <2>1, <2>2 DEF Background, Workflow!Next
  <1>2. ASSUME NEW r \in Requests, Begin(r) PROVE FALSE
    BY <1>0, <1>2, BeginStep
  <1>3. ASSUME NEW r \in Requests, SaveAnalysis(r) PROVE Workflow!Revise
    <2>1. req[r].payload \in Payloads /\ Contained(req[r].payload)
      BY <1>3, RowOfRequest DEF SaveAnalysis, Checked
    <2>2. content' = req[r].payload
      BY <1>3, RowOfRequest, OverlayOfRead DEF SaveAnalysis, Request
    <2>3. status \in Statuses /\ status' = Reopened(status)
      BY <1>3, RowOfRequest DEF SaveAnalysis, Column
    <2>4. /\ reviews' = IF status \in UnderReview THEN {} ELSE Outdated(reviews)
          /\ UNCHANGED unreviewed
      BY <1>3, RowOfRequest DEF SaveAnalysis
    <2>5. QED
      BY <2>1, <2>2, <2>3, <2>4
      DEF Workflow!Revise, Workflow!Live, Workflow!Statuses, Statuses, Contained,
          Workflow!Contained, Reopened, Workflow!Reopened, UnderReview, Workflow!UnderReview,
          Outdated, Workflow!Outdated
  <1>4. ASSUME NEW r \in Requests, SubmitDraft(r) PROVE Workflow!Submit
    BY <1>4, RowOfRequest DEF SubmitDraft, Checked, Column, Workflow!Submit
  <1>5. ASSUME NEW r \in Requests, RecordVote(r) PROVE Workflow!Decide(req[r].user, "approved")
    BY <1>5, RowOfRequest
    DEF RecordVote, Checked, Deciding, Workflow!Decide, Upsert, Workflow!Upsert,
        MayReview, Workflow!MayReview
  <1>6. ASSUME NEW r \in Requests, RejectFragment(r)
        PROVE  Workflow!Decide(req[r].user, "rejected")
    BY <1>6, RowOfRequest
    DEF RejectFragment, Checked, Deciding, Column, Workflow!Decide, Upsert, Workflow!Upsert,
        MayReview, Workflow!MayReview
  <1>7. ASSUME NEW r \in Requests, FlipToApproved(r) PROVE Workflow!Accept
    <2>1. /\ status = "submitted" /\ status' = "approved"
          /\ UNCHANGED <<content, reviews, unreviewed>>
      BY <1>7, RowOfRequest DEF FlipToApproved, Checked, Deciding, Column
    <2>2. Workflow!Endorsed
      BY <1>7, RowOfRequest
      DEF FlipToApproved, Checked, Deciding, OwnVote, Workflow!Endorsed,
          MayReview, Workflow!MayReview
    <2>3. Workflow!KeyGate(content) /\ Workflow!HarmonyGate(content, content.gated, unreviewed)
      BY <1>7, RowOfRequest
      DEF FlipToApproved, Checked, KeyGate, HarmonyGate, Workflow!KeyGate, Workflow!HarmonyGate
    <2>4. QED
      BY <2>1, <2>2, <2>3 DEF Workflow!Accept
  <1>8. ASSUME NEW r \in Requests, DeleteFragment(r) PROVE Workflow!Delete
    <2>1. status \in Statuses /\ req[r].user \in Editors /\ MayDelete(req[r].user, status)
      BY <1>8, RowOfRequest DEF DeleteFragment, Checked, Request
    <2>2. QED
      BY <1>8, <2>1
      DEF DeleteFragment, Workflow!Delete, Workflow!Live, Workflow!Statuses, Statuses,
          MayDelete, Workflow!MayDelete, Blank, Workflow!Blank
  <1>9. ASSUME NEW r \in Requests, Continue(r) PROVE Workflow!Next
    <2>1. req[r].user \in Editors
      BY <1>0 DEF TypeOK, Request
    <2>2. CASE SaveAnalysis(r) \/ SubmitDraft(r) \/ RecordVote(r) \/ RejectFragment(r)
                 \/ FlipToApproved(r) \/ DeleteFragment(r)
      BY <1>3, <1>4, <1>5, <1>6, <1>7, <1>8, <2>1, <2>2 DEF Workflow!Next
    <2>3. CASE SaveProse(r) \/ DispatchPreview(r) \/ CountApprovals(r)
                 \/ AwaitMoreApprovals(r) \/ PassGate(r) \/ FailGate(r) \/ Abort(r)
      BY <1>0, <2>3
      DEF SaveProse, DispatchPreview, CountApprovals, AwaitMoreApprovals, PassGate, FailGate,
          Abort
    <2>4. QED
      BY <1>9, <2>2, <2>3 DEF Continue
  <1>10. CASE UNCHANGED vars
    BY <1>0, <1>10 DEF vars
  <1>11. QED
    BY <1>1, <1>2, <1>9, <1>10 DEF SerialNext

\* Requests that wait for each other implement the review workflow, whatever
\* the editors, the payloads and the number of requests.
THEOREM Refinement == SerialSpec => RefinesWorkflow
  <1>1. Init => Workflow!Init
    BY DEF Init, Workflow!Init, Blank, Workflow!Blank
  <1>2. QED
    BY <1>1, Serial, WorkflowStep, PTL DEF SerialSpec, RefinesWorkflow, Workflow!Spec

=============================================================================
