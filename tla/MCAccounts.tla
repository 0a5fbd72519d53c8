------------------------------ MODULE MCAccounts -----------------------------
(* Instances of Accounts for TLC.                                          *)
EXTENDS Accounts, TLC

CONSTANTS ann, root, a1, a2

MCPeople == {ann, root}
MCEmail == [p \in MCPeople |-> IF p = root THEN a2 ELSE a1]
MCFounders == {root}

\* Requests differ by nothing but their slot.
AnyRequest == Permutations(Requests)
=============================================================================
