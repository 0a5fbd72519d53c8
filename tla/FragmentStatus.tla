--------------------------- MODULE FragmentStatus --------------------------
(* The status column of a fragment row and how saving an edit changes it.  *)

Statuses == {"draft", "submitted", "approved", "rejected"}

\* The statuses whose review rows an analytic edit deletes, and the ones a
\* preview is rendered for.
UnderReview == {"submitted", "approved"}

\* Fault: an approved fragment keeps its status when its content is replaced.
ReopenedStillApproved(st) == IF st = "rejected" THEN "draft" ELSE st

\* Fault: a status that the state machine does not have.
ReopenedForRevision(st) == IF st = "rejected" THEN "revision" ELSE st

\* The status update() leaves after an analytic edit of a row it read as st.
Reopened(st) ==
    CASE st = "rejected" -> "draft"
      [] st = "approved" -> "submitted"
      [] OTHER           -> st

\* One column of the UPDATE that the ORM's unit of work emits: it is written
\* only when the value assigned differs from the value this transaction read.
Column(current, read, assigned) == IF assigned # read THEN assigned ELSE current

=============================================================================
