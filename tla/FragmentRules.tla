--------------------------- MODULE FragmentRules ---------------------------
(***************************************************************************)
(* The rules of services/fragments.py that are pure functions of a         *)
(* fragment row: who may do what, what an edit does to the row, and what   *)
(* the approval gate asks.  FragmentReview runs them request by request,   *)
(* ReviewWorkflow states what they promise when taken one at a time.       *)
(***************************************************************************)
EXTENDS FragmentStatus, Integers, FiniteSets

CONSTANTS
    Editors,    \* users who pass require_role(EDITOR, ADMIN)
    Admins,     \* the editors who hold the admin role
    Creator,    \* fragment.created_by of the fragment under study
    NBars,      \* measures of the movement, as document-order mc positions
    Payloads,   \* the analytic contents that clients send
    Threshold   \* _APPROVAL_THRESHOLD

Bars == 1..NBars

\* The analytic content of a fragment, reduced to what the rules tell apart:
\* mc_start and mc_end (two columns), whether summary.actual_key needs no
\* review (one JSONB column), whether one of its concepts declares a
\* harmony_gate (the concept tag rows), and the measures its one-measure
\* sub-parts sit in (the child rows).  Prose is not analytic and is left out.
Content == [from : Bars, to : Bars, keyReviewed : BOOLEAN, gated : BOOLEAN,
            parts : SUBSET Bars]

\* Stands for the content where there is no row.
Blank == [from |-> 1, to |-> 1, keyReviewed |-> FALSE, gated |-> FALSE, parts |-> {}]

\* _assert_contained: every sub-part starts and ends inside its parent.
Contained(c) == \A b \in c.parts : c.from <= b /\ b <= c.to

ASSUME RulesAssumption ==
    /\ NBars \in Nat \ {0}
    /\ Creator \in Editors
    /\ Admins \subseteq Editors
    /\ Payloads \subseteq Content
    /\ Threshold \in Nat \ {0}

-----------------------------------------------------------------------------
(* Permissions.                                                            *)

\* _check_not_creator, which approve and reject skip for an admin.
MayReview(u) == u # Creator \/ u \in Admins

\* _check_edit_permission.
MayEdit(u) == u = Creator \/ u \in Admins

\* _check_delete_permission.
MayDelete(u, st) == u \in Admins \/ (u = Creator /\ st # "approved")

-----------------------------------------------------------------------------
(* Edits.                                                                  *)

\* What a row holding `current` becomes when a transaction that read `read`
\* saves `sent`: columns are diffed, tags and sub-parts are deleted and
\* inserted again from the payload.
Overlay(current, read, sent) ==
    [from        |-> Column(current.from, read.from, sent.from),
     to          |-> Column(current.to, read.to, sent.to),
     keyReviewed |-> Column(current.keyReviewed, read.keyReviewed, sent.keyReviewed),
     gated       |-> sent.gated,
     parts       |-> sent.parts]

\* The range test of update() that re-triggers the preview (ADR-008).
RangeChanged(read, sent) == read.from # sent.from \/ read.to # sent.to

-----------------------------------------------------------------------------
(* Reviews and the approval gate.                                          *)

\* _count_approvals: approving rows, the creator's own excluded.
Approvals(reviews) ==
    Cardinality({x \in reviews : x.decision = "approved" /\ x.reviewer # Creator})

\* _upsert_review: u's decision replaces the one u made before, and rests on
\* the content as long as `current` holds.
Upsert(reviews, u, decision, current) ==
    {x \in reviews : x.reviewer # u}
      \cup {[reviewer |-> u, decision |-> decision, current |-> current]}

\* The review rows once the content they rest on has been replaced.
Outdated(reviews) == {[x EXCEPT !.current = FALSE] : x \in reviews}

\* _run_approval_gate, first check.
KeyGate(c) == c.keyReviewed

\* _run_approval_gate, second check: events are sliced by the range of c, the
\* concept tags are read afresh.
HarmonyGate(c, gated, unreviewed) ==
    gated => unreviewed \cap (c.from .. c.to) = {}

=============================================================================
