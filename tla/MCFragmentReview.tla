-------------------------- MODULE MCFragmentReview -------------------------
(* Instances of FragmentReview for TLC.                                    *)
EXTENDS FragmentReview

CONSTANTS ann, ben, root    \* the annotator, another editor, an admin

MCEditors == {ann, ben, root}
MCAdmins == {root}

Payload(from, to, keyReviewed, gated, parts) ==
    [from |-> from, to |-> to, keyReviewed |-> keyReviewed, gated |-> gated,
     parts |-> parts]

\* One measure: a gated reading whose key nobody has confirmed, and the same
\* with the key confirmed and a stage marked.
OneBarPayloads ==
    {Payload(1, 1, FALSE, TRUE, {}), Payload(1, 1, TRUE, TRUE, {1})}

\* Two measures: the whole range without and with a stage in measure 2, and
\* measure 1 alone, without a stage and with one outside it.
TwoBarPayloads ==
    {Payload(1, 2, TRUE, FALSE, {}), Payload(1, 2, TRUE, TRUE, {2}),
     Payload(1, 1, FALSE, TRUE, {}), Payload(1, 1, TRUE, FALSE, {2})}
=============================================================================
