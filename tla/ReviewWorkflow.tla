--------------------------- MODULE ReviewWorkflow --------------------------
(***************************************************************************)
(* What the review of one fragment promises, each call a single step: the  *)
(* state machine draft -> submitted -> approved / rejected -> draft, the   *)
(* revision table of FragmentService.update, the permission matrix of      *)
(* FragmentService.delete and the approval rule.  FragmentReview takes the *)
(* same calls apart into their transactions.                               *)
(***************************************************************************)
EXTENDS FragmentRules

VARIABLES
    status,     \* fragment.status, or "absent" before and "deleted" after
    content,    \* the analytic content of the row
    reviews,    \* fragment_review rows; `current` tells whether the decision
                \* was made on the content the row holds now
    unreviewed  \* measures with a harmony event that nobody has reviewed

vars == <<status, content, reviews, unreviewed>>

Live == status \in Statuses

\* An approval of this very content by somebody who is allowed to review it.
Endorsed ==
    \E x \in reviews : x.decision = "approved" /\ x.current /\ MayReview(x.reviewer)

Init ==
    /\ status = "absent"
    /\ content = Blank
    /\ reviews = {}
    /\ unreviewed = {}

Create ==
    /\ status = "absent"
    /\ status' = "draft"
    /\ content' \in Payloads
    /\ Contained(content')
    /\ UNCHANGED <<reviews, unreviewed>>

\* An analytic edit stores exactly what was sent.  Approval does not survive
\* it, and neither do the reviews of a fragment under review.
Revise ==
    /\ Live
    /\ content' \in Payloads
    /\ Contained(content')
    /\ status' = Reopened(status)
    /\ reviews' = IF status \in UnderReview THEN {} ELSE Outdated(reviews)
    /\ UNCHANGED unreviewed

Submit ==
    /\ status = "draft"
    /\ status' = "submitted"
    /\ UNCHANGED <<content, reviews, unreviewed>>

Decide(u, decision) ==
    /\ status = "submitted"
    /\ MayReview(u)
    /\ reviews' = Upsert(reviews, u, decision, TRUE)
    /\ status' = IF decision = "rejected" THEN "rejected" ELSE status
    /\ UNCHANGED <<content, unreviewed>>

Accept ==
    /\ status = "submitted"
    /\ Endorsed
    /\ KeyGate(content)
    /\ HarmonyGate(content, content.gated, unreviewed)
    /\ status' = "approved"
    /\ UNCHANGED <<content, reviews, unreviewed>>

Delete ==
    /\ Live
    /\ \E u \in Editors : MayDelete(u, status)
    /\ status' = "deleted"
    /\ content' = Blank
    /\ reviews' = {}
    /\ UNCHANGED unreviewed

\* Harmony review is a matter of the movement, not of the fragment.
HarmonyChange ==
    /\ unreviewed' \in SUBSET Bars
    /\ UNCHANGED <<status, content, reviews>>

Next ==
    \/ Create
    \/ Revise
    \/ Submit
    \/ \E u \in Editors, decision \in {"approved", "rejected"} : Decide(u, decision)
    \/ Accept
    \/ Delete
    \/ HarmonyChange

Spec == Init /\ [][Next]_vars

=============================================================================
