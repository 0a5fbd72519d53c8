---------------------------- MODULE AccountsProofs ---------------------------
(***************************************************************************)
(* Proofs about Accounts, for any number of people, addresses, roles,      *)
(* fragments, reports and requests in flight.                              *)
(***************************************************************************)
EXTENDS Accounts, TLAPS

-----------------------------------------------------------------------------
(* Shapes.                                                                 *)

LEMMA RequestShape ==
    ASSUME TypeOK, NEW r \in Requests
    PROVE  /\ req[r].at \in {"idle", "ready", "resolve", "reassign", "drop", "auth"}
           /\ req[r].at # "idle" => req[r].user \in People
           /\ req[r].at = "resolve" => req[r].report \in Reports
           /\ req[r].at = "drop" => req[r].moved \subseteq Credit /\ req[r].granted \subseteq Grant
  <1>1. req[r] \in Request
    BY DEF TypeOK
  <1>2. QED
    BY <1>1 DEF Request

\* The system user is a subject like others, and none of the people.
LEMMA Inheritance ==
    /\ \A c \in Credit : /\ Inherited(c) \in Credit
                         /\ Inherited(c).by = System
                         /\ Inherited(c).kind = c.kind /\ Inherited(c).item = c.item
    /\ \A g \in Grant : /\ Inherited(g) \in Grant
                        /\ Inherited(g).by = System /\ Inherited(g).user = g.user
    /\ System \notin People /\ Nobody \notin People /\ System # Nobody
  BY AccountsAssumption DEF Inherited, Credit, Grant, Subjects

LEMMA RequestForms ==
    /\ Idle \in Request
    /\ \A p \in People :
         /\ \A R \in SUBSET Roles : [at |-> "ready", user |-> p, roles |-> R] \in Request
         /\ \A i \in Reports : [at |-> "resolve", user |-> p, report |-> i] \in Request
         /\ [at |-> "reassign", user |-> p] \in Request
         /\ [at |-> "auth", user |-> p] \in Request
         /\ \A C \in SUBSET Credit, G \in SUBSET Grant :
              [at |-> "drop", user |-> p, moved |-> C, granted |-> G] \in Request
  BY DEF Idle, Request

LEMMA Replaced ==
    ASSUME NEW r \in Requests, req \in [Requests -> Request], NEW x \in Request,
           req' = [req EXCEPT ![r] = x]
    PROVE  /\ req' \in [Requests -> Request]
           /\ req'[r] = x /\ \A s \in Requests : s # r => req'[s] = req[s]
  OBVIOUS

LEMMA ReportShape ==
    ASSUME TypeOK, NEW i \in Reports, reports[i] # NoRow
    PROVE  reports[i] \in Report
  BY DEF TypeOK

-----------------------------------------------------------------------------
(* Type correctness.                                                       *)

LEMMA TypeInit == Init => TypeOK
  <1> SUFFICES ASSUME Init PROVE TypeOK
    OBVIOUS
  <1>1. grants \subseteq Grant
    BY AccountsAssumption DEF Init, Grant, Subjects
  <1>2. req \in [Requests -> Request]
    BY RequestForms DEF Init
  <1>3. QED
    BY <1>1, <1>2, AccountsAssumption DEF Init, TypeOK

LEMMA TypeSession == TypeOK /\ Session => TypeOK'
  BY DEF Session, Register, OpenSession, EnsureAppUser, Expire, TypeOK

LEMMA TypeHandle ==
    ASSUME TypeOK, NEW r \in Requests, Handle(r)
    PROVE  TypeOK'
  <1> req \in [Requests -> Request] /\ Idle \in Request
    BY RequestForms DEF TypeOK
  <1>0. /\ req[r].at # "idle" => req[r].user \in People
        /\ req[r].at = "resolve" => req[r].report \in Reports
        /\ req[r].at = "drop" => req[r].moved \subseteq Credit /\ req[r].granted \subseteq Grant
    BY RequestShape
  <1>1. ASSUME NEW p \in People, Authenticate(r, p)
        PROVE  TypeOK'
    <2>1. RolesOf(p) \in SUBSET Roles
      BY DEF RolesOf, TypeOK, Grant
    <2>2. [at |-> "ready", user |-> p, roles |-> RolesOf(p)] \in Request
      BY <2>1, RequestForms
    <2>3. req' \in [Requests -> Request]
      BY <1>1, <2>2, Replaced DEF Authenticate
    <2>4. QED
      BY <1>1, <2>3 DEF Authenticate, EnsureAppUser, TypeOK
  <1>2. CASE Leave(r)
    BY <1>2 DEF Leave, TypeOK
  <1>3. ASSUME NEW k \in Kinds, NEW i \in Items, Contribute(r, k, i)
        PROVE  TypeOK'
    <2>1. [kind |-> k, item |-> i, by |-> req[r].user] \in Credit
      BY <1>0, <1>3 DEF Contribute, Credit, Subjects
    <2>2. QED
      BY <1>3, <2>1 DEF Contribute, TypeOK
  <1>4. ASSUME NEW u \in People, NEW role \in Roles, GrantRole(r, u, role)
        PROVE  TypeOK'
    <2>1. [user |-> u, role |-> role, by |-> req[r].user] \in Grant
      BY <1>0, <1>4 DEF GrantRole, Grant, Subjects
    <2>2. QED
      BY <1>4, <2>1 DEF GrantRole, TypeOK
  <1>5. ASSUME NEW u \in People, NEW role \in Roles, RevokeRole(r, u, role)
        PROVE  TypeOK'
    BY <1>5 DEF RevokeRole, TypeOK
  <1>6. ASSUME NEW i \in Reports, FileReport(r, i)
        PROVE  TypeOK'
    <2>1. [by |-> req[r].user, status |-> "open", resolvedBy |-> Nobody] \in Report
      BY <1>0, <1>6 DEF FileReport, Report
    <2>2. QED
      BY <1>6, <2>1 DEF FileReport, TypeOK
  <1>7. ASSUME NEW i \in Reports, ReadReport(r, i)
        PROVE  TypeOK'
    <2>1. [at |-> "resolve", user |-> req[r].user, report |-> i] \in Request
      BY <1>0, <1>7, RequestForms DEF ReadReport
    <2>2. req' = [req EXCEPT ![r] = [at |-> "resolve", user |-> req[r].user, report |-> i]]
      BY <1>7 DEF ReadReport
    <2>3. req' \in [Requests -> Request]
      BY <2>1, <2>2, Replaced
    <2>4. QED
      BY <1>7, <2>3 DEF ReadReport, TypeOK
  <1>8. CASE ResolveReport(r)
    <2> DEFINE i == req[r].report
    <2>1. i \in Reports /\ reports[i] \in Report /\ req[r].user \in Subjects
      BY <1>0, <1>8, ReportShape DEF ResolveReport, Subjects
    <2>2. [[reports[i] EXCEPT !.status = "dismissed"] EXCEPT !.resolvedBy = req[r].user] \in Report
      BY <2>1 DEF Report
    <2>3. reports' \in [Reports -> Report \cup {NoRow}]
      BY <1>8, <2>1, <2>2 DEF ResolveReport, TypeOK
    <2>4. QED
      BY <1>8, <2>3 DEF ResolveReport, TypeOK
  <1>9. CASE BeginDeletion(r)
    <2>1. [at |-> "reassign", user |-> req[r].user] \in Request
      BY <1>0, <1>9, RequestForms DEF BeginDeletion
    <2>2. req' = [req EXCEPT ![r] = [at |-> "reassign", user |-> req[r].user]]
      BY <1>9 DEF BeginDeletion
    <2>3. req' \in [Requests -> Request]
      BY <2>1, <2>2, Replaced
    <2>4. QED
      BY <1>9, <2>3 DEF BeginDeletion, TypeOK
  <1>10. CASE Reassign(r)
    <2> DEFINE mine == {c \in record : c.by = req[r].user}
               given == {g \in grants : g.by = req[r].user}
               x == [at |-> "drop", user |-> req[r].user, moved |-> mine, granted |-> given]
    <2>1. mine \in SUBSET Credit /\ given \in SUBSET Grant /\ req[r].user \in People
      BY <1>0, <1>10 DEF TypeOK, Reassign
    <2>2. x \in Request
      BY <2>1, RequestForms
    <2>3. req' = [req EXCEPT ![r] = x]
      BY <1>10 DEF Reassign
    <2>4. req' \in [Requests -> Request]
      BY <2>2, <2>3, Replaced
    <2>5. QED
      BY <1>10, <2>4 DEF Reassign, TypeOK
  <1>11. CASE DropAccount(r)
    <2>1. record' \subseteq Credit
      BY <1>0, <1>11, Inheritance DEF DropAccount, TypeOK
    <2>2. grants' \subseteq Grant
      BY <1>0, <1>11, Inheritance DEF DropAccount, TypeOK
    <2>3. reports' \in [Reports -> Report \cup {NoRow}]
      BY <1>11 DEF DropAccount, TypeOK
    <2>4. [at |-> "auth", user |-> req[r].user] \in Request
      BY <1>0, <1>11, RequestForms DEF DropAccount
    <2>5. req' \in [Requests -> Request]
      BY <1>11, <2>4, Replaced DEF DropAccount
    <2>6. QED
      BY <1>11, <2>1, <2>2, <2>3, <2>5 DEF DropAccount, TypeOK
  <1>12. CASE RemoveAuthUser(r)
    BY <1>0, <1>12 DEF RemoveAuthUser, TypeOK
  <1>13. QED
    BY <1>1, <1>2, <1>3, <1>4, <1>5, <1>6, <1>7, <1>8, <1>9, <1>10, <1>11, <1>12 DEF Handle

\* Every reachable state is well typed (the rows, grants, reports and requests
\* of users.py, account_deletion.py and moderation.py).
THEOREM TypeCorrect == Spec => []TypeOK
  <1>1. TypeOK /\ [Next]_vars => TypeOK'
    <2>1. TypeOK /\ UNCHANGED vars => TypeOK'
      BY DEF vars, TypeOK
    <2>2. QED
      BY <2>1, TypeSession, TypeHandle DEF Next
  <1>2. QED
    BY <1>1, TypeInit, PTL DEF Spec

-----------------------------------------------------------------------------
(* Nothing is left without an owner.  With the types it is inductive: what  *)
(* points at an account is written only while the account is there, and the *)
(* deletion is refused by whatever was not moved and does not cascade.      *)

OwnedInv == TypeOK /\ NothingOwnerless

LEMMA OwnedInit == Init => NothingOwnerless
  BY AccountsAssumption DEF Init, NothingOwnerless, Subjects, NoRow

LEMMA OwnedSession == OwnedInv /\ Session => NothingOwnerless'
  BY DEF OwnedInv, Session, Register, OpenSession, EnsureAppUser, Expire, NothingOwnerless

LEMMA OwnedHandle ==
    ASSUME OwnedInv, NEW r \in Requests, Handle(r)
    PROVE  NothingOwnerless'
  <1>0. /\ TypeOK /\ NothingOwnerless
        /\ req[r].at # "idle" => req[r].user \in People
        /\ req[r].at = "resolve" => req[r].report \in Reports
        /\ req[r].at = "drop" => req[r].moved \subseteq Credit /\ req[r].granted \subseteq Grant
    BY RequestShape DEF OwnedInv
  <1>1. ASSUME NEW p \in People, Authenticate(r, p)
        PROVE  NothingOwnerless'
    BY <1>0, <1>1 DEF Authenticate, EnsureAppUser, NothingOwnerless
  <1>2. CASE Leave(r) \/ BeginDeletion(r) \/ Reassign(r) \/ RemoveAuthUser(r)
    BY <1>0, <1>2 DEF Leave, BeginDeletion, Reassign, RemoveAuthUser, NothingOwnerless
  <1>3. ASSUME NEW k \in Kinds, NEW i \in Items, Contribute(r, k, i)
        PROVE  NothingOwnerless'
    BY <1>0, <1>3 DEF Contribute, NothingOwnerless
  <1>4. ASSUME NEW u \in People, NEW role \in Roles, GrantRole(r, u, role)
        PROVE  NothingOwnerless'
    BY <1>0, <1>4, Inheritance DEF GrantRole, HasRow, NothingOwnerless
  <1>5. ASSUME NEW u \in People, NEW role \in Roles, RevokeRole(r, u, role)
        PROVE  NothingOwnerless'
    BY <1>0, <1>5 DEF RevokeRole, NothingOwnerless
  <1>6. ASSUME NEW i \in Reports, FileReport(r, i)
        PROVE  NothingOwnerless'
    <2>1. \A j \in Reports : reports'[j] = reports[j] \/
             /\ reports'[j].by = req[r].user /\ reports'[j].resolvedBy = Nobody
      BY <1>0, <1>6 DEF FileReport, TypeOK
    <2>2. QED
      BY <1>0, <1>6, <2>1, Inheritance DEF FileReport, NothingOwnerless
  <1>7. ASSUME NEW i \in Reports, ReadReport(r, i)
        PROVE  NothingOwnerless'
    BY <1>0, <1>7 DEF ReadReport, NothingOwnerless
  <1>8. CASE ResolveReport(r)
    <2>1. req[r].user \in account
      BY <1>0, <1>8, Inheritance DEF ResolveReport, HasRow
    <2>2. reports[req[r].report] \in Report
      BY <1>0, <1>8, ReportShape DEF ResolveReport
    <2>3. \A j \in Reports : reports'[j] = reports[j] \/
             /\ reports[j] # NoRow
             /\ reports'[j].by = reports[j].by /\ reports'[j].resolvedBy = req[r].user
      BY <1>0, <1>8, <2>2 DEF ResolveReport, TypeOK, Report
    <2>4. UNCHANGED <<account, record, grants>>
      BY <1>8 DEF ResolveReport
    <2>5. ASSUME NEW p \in People \ account', NEW j \in Reports, reports'[j] # NoRow
          PROVE  p \notin {reports'[j].by, reports'[j].resolvedBy}
      BY <1>0, <2>1, <2>3, <2>4, <2>5 DEF NothingOwnerless
    <2>6. QED
      BY <1>0, <2>4, <2>5 DEF NothingOwnerless
  <1>9. CASE DropAccount(r)
    <2> DEFINE q == req[r].user
    <2>0. /\ q \in People /\ account' = account \ {q}
          /\ req[r].moved \subseteq Credit /\ req[r].granted \subseteq Grant
      BY <1>0, <1>9 DEF DropAccount
    <2>1. ASSUME NEW p \in People \ account', NEW c \in record'
          PROVE  c.by # p
      <3>1. CASE c \in record \ req[r].moved
        BY <1>0, <1>9, <2>0, <2>1, <3>1 DEF DropAccount, Blockers, NothingOwnerless
      <3>2. CASE \E d \in req[r].moved : c = Inherited(d)
        BY <2>0, <2>1, <3>2, Inheritance
      <3>3. QED
        BY <1>9, <2>1, <3>1, <3>2 DEF DropAccount
    <2>2. ASSUME NEW p \in People \ account', NEW h \in grants'
          PROVE  p \notin {h.user, h.by}
      <3>1. PICK g \in grants : /\ g.user # q
                                /\ h = IF g \in req[r].granted THEN Inherited(g) ELSE g
        BY <1>9, <2>2 DEF DropAccount
      <3>2. g \in Grant
        BY <1>0 DEF TypeOK
      <3>3. p # q => p \notin {g.user, g.by}
        BY <1>0, <2>0, <2>2 DEF NothingOwnerless
      <3>4. CASE g \in req[r].granted
        BY <2>2, <3>1, <3>2, <3>3, <3>4, Inheritance
      <3>5. CASE g \notin req[r].granted
        BY <1>9, <3>1, <3>3, <3>5 DEF DropAccount, Blockers
      <3>6. QED
        BY <3>4, <3>5
    <2>3. ASSUME NEW p \in People \ account', NEW i \in Reports, reports'[i] # NoRow
          PROVE  p \notin {reports'[i].by, reports'[i].resolvedBy}
      <3>1. reports'[i] = reports[i] /\ reports[i] # NoRow /\ reports[i].by # q
        BY <1>0, <1>9, <2>3 DEF DropAccount, TypeOK
      <3>2. CASE p = q
        BY <1>9, <3>1, <3>2 DEF DropAccount, Blockers
      <3>3. CASE p # q
        BY <1>0, <2>0, <2>3, <3>1, <3>3 DEF NothingOwnerless
      <3>4. QED
        BY <3>2, <3>3
    <2>4. QED
      BY <2>1, <2>2, <2>3 DEF NothingOwnerless
  <1>10. QED
    BY <1>1, <1>2, <1>3, <1>4, <1>5, <1>6, <1>7, <1>8, <1>9 DEF Handle

\* However deletions meet the requests of the same account, what a deleted
\* account leaves is attributed to the system user or to nobody (delete_account
\* of account_deletion.py, and the foreign keys it leaves to the DELETE).
THEOREM NothingIsOwnerless == Spec => []NothingOwnerless
  <1>1. Init => OwnedInv
    BY TypeInit, OwnedInit DEF OwnedInv
  <1>2. OwnedInv /\ [Next]_vars => OwnedInv'
    <2>1. OwnedInv /\ UNCHANGED vars => OwnedInv'
      BY DEF vars, OwnedInv, TypeOK, NothingOwnerless
    <2>2. QED
      BY <2>1, TypeSession, TypeHandle, OwnedSession, OwnedHandle DEF Next, OwnedInv
  <1>3. OwnedInv => NothingOwnerless
    BY DEF OwnedInv
  <1>4. QED
    BY <1>1, <1>2, <1>3, PTL DEF Spec

-----------------------------------------------------------------------------
(* The editorial record.  A deletion writes what it has read earlier, so    *)
(* its steps need to know that the rows it moves are still there and that   *)
(* their place in the system user's record is still free: rows that are     *)
(* being moved are locked, and an UPDATE waits for a conflicting one.       *)

Dropping(r) == req[r].at = "drop"

\* fragment.created_by: a fragment has one creator.
OneCreator ==
    \A c, d \in record : c.kind = "fragment" /\ d.kind = "fragment" /\ c.item = d.item => c = d

MovesFit ==
    \A r \in Requests : Dropping(r) =>
        /\ req[r].moved \subseteq record
        /\ \A c \in req[r].moved : /\ c.by = req[r].user
                                   /\ c.kind = "review" => Inherited(c) \notin record

\* Of two deletions under way, neither moves what the other moves, nor to the
\* same place.
MovesApart ==
    \A r, s \in Requests : r # s /\ Dropping(r) /\ Dropping(s) =>
        /\ req[r].moved \cap req[s].moved = {}
        /\ \A c \in req[r].moved, d \in req[s].moved :
             c.kind = "review" => Inherited(c) # Inherited(d)

RecordInv == TypeOK /\ OneCreator /\ MovesFit /\ MovesApart

\* What the deletion moves has a place of its own in the record it leaves.
LEMMA PlacesFree ==
    ASSUME RecordInv, NEW r \in Requests, Dropping(r), NEW c \in req[r].moved
    PROVE  Inherited(c) \notin record
  <1>0. TypeOK /\ req[r].user \in People
    BY RequestShape DEF RecordInv, Dropping
  <1>1. /\ c \in record /\ c \in Credit /\ c.by \in People
        /\ c.kind = "review" => Inherited(c) \notin record
    BY <1>0 DEF RecordInv, MovesFit, TypeOK
  <1>2. CASE c.kind = "fragment"
    BY <1>1, <1>2, Inheritance DEF RecordInv, OneCreator
  <1>3. QED
    BY <1>1, <1>2 DEF Credit, Kinds

LEMMA RecordInit == Init => OneCreator /\ MovesFit /\ MovesApart
  BY DEF Init, OneCreator, MovesFit, MovesApart, Dropping, Idle

\* A step that leaves the record and begins no deletion leaves the invariant.
LEMMA RecordFrame ==
    ASSUME RecordInv, record' = record,
           \A s \in Requests : Dropping(s)' => Dropping(s) /\ req'[s] = req[s]
    PROVE  (OneCreator /\ MovesFit /\ MovesApart)'
  <1>1. OneCreator'
    BY DEF RecordInv, OneCreator
  <1>2. MovesFit'
    BY DEF RecordInv, MovesFit, Dropping
  <1>3. MovesApart'
    BY DEF RecordInv, MovesApart, Dropping
  <1>4. QED
    BY <1>1, <1>2, <1>3

LEMMA RecordHandle ==
    ASSUME RecordInv, NEW r \in Requests, Handle(r)
    PROVE  (OneCreator /\ MovesFit /\ MovesApart)'
  <1> req \in [Requests -> Request] /\ record \subseteq Credit
    BY DEF RecordInv, TypeOK
  <1>0. /\ req[r].at # "idle" => req[r].user \in People
        /\ req[r].at = "drop" => req[r].moved \subseteq Credit
    BY RequestShape DEF RecordInv
  <1>1. CASE /\ record' = record
             /\ \E x : x.at # "drop" /\ req' = [req EXCEPT ![r] = x]
    BY <1>1, RecordFrame DEF Dropping
  <1>2. ASSUME NEW k \in Kinds, NEW i \in Items, Contribute(r, k, i)
        PROVE  (OneCreator /\ MovesFit /\ MovesApart)'
    <2> DEFINE new == [kind |-> k, item |-> i, by |-> req[r].user]
    <2>1. /\ record' = record \cup {new} /\ req[r].user \in People
          /\ k = "fragment" => \A c \in record : c.kind = k => c.item # i
      BY <1>0, <1>2 DEF Contribute
    <2>2. \A s \in Requests : Dropping(s)' => Dropping(s) /\ req'[s] = req[s]
      BY <1>2 DEF Contribute, Dropping, Idle
    <2>3. OneCreator'
      BY <2>1 DEF RecordInv, OneCreator
    <2>4. \A s \in Requests : Dropping(s) =>
             \A c \in req[s].moved : Inherited(c) # new
      BY <2>1, Inheritance DEF RecordInv, MovesFit
    <2>5. MovesFit'
      BY <2>1, <2>2, <2>4 DEF RecordInv, MovesFit, Dropping
    <2>6. MovesApart'
      BY <2>2 DEF RecordInv, MovesApart, Dropping
    <2>7. QED
      BY <2>3, <2>5, <2>6
  <1>3. CASE Reassign(r)
    <2> DEFINE mine == {c \in record : c.by = req[r].user}
               given == {g \in grants : g.by = req[r].user}
               x == [at |-> "drop", user |-> req[r].user, moved |-> mine, granted |-> given]
    <2>1. /\ record' = record /\ req' = [req EXCEPT ![r] = x]
          /\ ~Dropping(r) /\ mine \cap Moved(r) = {}
          /\ \A c \in mine : c.kind = "review" =>
               Inherited(c) \notin record \cup {Inherited(d) : d \in Moved(r)}
      BY <1>3 DEF Reassign, Dropping
    <2>2. req'[r] = x /\ \A s \in Requests : s # r => req'[s] = req[s]
      BY <2>1
    <2>3. \A s \in Requests : s # r /\ Dropping(s) => req[s].moved \subseteq Moved(r)
      BY DEF Moved, Leaving, Dropping
    <2>4. OneCreator'
      BY <2>1 DEF RecordInv, OneCreator
    <2>5. MovesFit'
      BY <2>1, <2>2 DEF RecordInv, MovesFit, Dropping
    <2>6. \A s \in Requests : s # r /\ Dropping(s) =>
            /\ mine \cap req[s].moved = {}
            /\ \A c \in mine, d \in req[s].moved :
                 c.kind = "review" => Inherited(c) # Inherited(d)
      BY <2>1, <2>3
    <2>7. \A s \in Requests : s # r /\ Dropping(s) =>
            \A c \in mine, d \in req[s].moved :
                 d.kind = "review" => Inherited(d) # Inherited(c)
      <3> SUFFICES ASSUME NEW s \in Requests, s # r, Dropping(s),
                          NEW c \in mine, NEW d \in req[s].moved, d.kind = "review",
                          Inherited(d) = Inherited(c)
                   PROVE  FALSE
        OBVIOUS
      <3>1. c \in Credit /\ d \in Credit
        BY DEF RecordInv, MovesFit
      <3>2. c.kind = "review"
        BY <3>1, Inheritance
      <3>3. QED
        BY <2>6, <3>2
    <2>8. MovesApart'
      <3> SUFFICES ASSUME NEW s \in Requests, NEW t \in Requests, s # t,
                          Dropping(s)', Dropping(t)'
                   PROVE  /\ req'[s].moved \cap req'[t].moved = {}
                          /\ \A c \in req'[s].moved, d \in req'[t].moved :
                               c.kind = "review" => Inherited(c) # Inherited(d)
        BY DEF MovesApart
      <3>1. CASE s = r
        BY <2>2, <2>6, <3>1 DEF Dropping
      <3>2. CASE t = r
        BY <2>2, <2>6, <2>7, <3>2 DEF Dropping
      <3>3. CASE s # r /\ t # r
        BY <2>2, <3>3 DEF RecordInv, MovesApart, Dropping
      <3>4. QED
        BY <3>1, <3>2, <3>3
    <2>9. QED
      BY <2>4, <2>5, <2>8
  <1>4. CASE DropAccount(r)
    <2> DEFINE M == req[r].moved
    <2>1. /\ Dropping(r) /\ M \subseteq Credit /\ M \subseteq record
          /\ record' = (record \ M) \cup {Inherited(c) : c \in M}
          /\ \A s \in Requests : Dropping(s)' => s # r /\ Dropping(s) /\ req'[s] = req[s]
      BY <1>0, <1>4 DEF DropAccount, Dropping, RecordInv, MovesFit
    <2>2. \A c \in record' : \E d \in record :
            /\ d.kind = c.kind /\ d.item = c.item
            /\ c = IF d \in M THEN Inherited(d) ELSE d
      BY <2>1, Inheritance
    <2>3. OneCreator'
      BY <2>2 DEF RecordInv, OneCreator
    <2>4. MovesFit'
      <3> SUFFICES ASSUME NEW s \in Requests, Dropping(s)'
                   PROVE  /\ req'[s].moved \subseteq record'
                          /\ \A c \in req'[s].moved :
                               /\ c.by = req'[s].user
                               /\ c.kind = "review" => Inherited(c) \notin record'
        BY DEF MovesFit
      <3>1. /\ s # r /\ Dropping(s) /\ req'[s] = req[s]
            /\ req[s].moved \subseteq record /\ req[s].moved \cap M = {}
        BY <2>1 DEF RecordInv, MovesFit, MovesApart
      <3>2. ASSUME NEW c \in req[s].moved, c.kind = "review"
            PROVE  Inherited(c) \notin record'
        <4>1. Inherited(c) \notin record
          BY <3>1, <3>2 DEF RecordInv, MovesFit
        <4>2. ASSUME NEW d \in req[r].moved PROVE Inherited(c) # Inherited(d)
          BY <2>1, <3>1, <3>2 DEF RecordInv, MovesApart
        <4>3. QED
          BY <2>1, <4>1, <4>2
      <3>3. \A c \in req[s].moved : c.by = req[s].user
        BY <3>1 DEF RecordInv, MovesFit
      <3>4. req[s].moved \subseteq record'
        BY <2>1, <3>1
      <3>5. QED
        BY <3>1, <3>2, <3>3, <3>4
    <2>5. MovesApart'
      BY <2>1 DEF RecordInv, MovesApart, Dropping
    <2>6. QED
      BY <2>3, <2>4, <2>5
  <1>5. QED
    BY <1>1, <1>2, <1>3, <1>4 DEF Handle, Authenticate, Leave, GrantRole, RevokeRole,
       FileReport, ReadReport, ResolveReport, BeginDeletion, RemoveAuthUser, Idle

LEMMA RecordSession == RecordInv /\ Session => (OneCreator /\ MovesFit /\ MovesApart)'
  BY RecordFrame DEF Session, Register, OpenSession, EnsureAppUser, Expire, Dropping

LEMMA RecordAlways == Spec => []RecordInv
  <1>1. Init => RecordInv
    BY TypeInit, RecordInit DEF RecordInv
  <1>2. RecordInv /\ [Next]_vars => RecordInv'
    <2>1. RecordInv /\ UNCHANGED vars => RecordInv'
      BY DEF vars, RecordInv, TypeOK, OneCreator, MovesFit, MovesApart, Dropping
    <2>2. RecordInv /\ Next => TypeOK'
      BY TypeSession, TypeHandle DEF Next, RecordInv
    <2>3. QED
      BY <2>1, <2>2, RecordSession, RecordHandle DEF Next, RecordInv
  <1>3. QED
    BY <1>1, <1>2, PTL DEF Spec

\* Deletions rewrite attributions but lose no part of the record, in any number
\* at once (_reassign and UNIQUE(fragment_id, reviewer_id)).
THEOREM RecordIsKept == Spec => RecordKept
  <1> DEFINE Kept == \A c \in record : c \in record' \/ Inherited(c) \in record' \ record
  <1>1. RecordInv /\ [Next]_vars => [Kept]_vars
    <2> SUFFICES ASSUME RecordInv, Next PROVE Kept
      OBVIOUS
    <2>1. ASSUME NEW r \in Requests, DropAccount(r) PROVE Kept
      <3>1. ASSUME NEW c \in req[r].moved PROVE Inherited(c) \in record' \ record
        BY <2>1, <3>1, PlacesFree DEF DropAccount, Dropping
      <3>2. QED
        BY <2>1, <3>1 DEF DropAccount
    <2>2. ASSUME NEW r \in Requests, NEW k \in Kinds, NEW i \in Items, Contribute(r, k, i)
          PROVE  Kept
      BY <2>2 DEF Contribute
    <2>3. QED
      BY <2>1, <2>2 DEF Next, Session, Register, OpenSession, Expire, Handle, Authenticate,
         Leave, GrantRole, RevokeRole, FileReport, ReadReport, ResolveReport,
         BeginDeletion, Reassign, RemoveAuthUser
  <1>2. QED
    BY <1>1, RecordAlways, PTL DEF Spec, RecordKept

-----------------------------------------------------------------------------

\* The last admin is lost only with the account, or to a revoker whose own role
\* was revoked meanwhile (revoke_role's one guard, however requests overlap).
THEOREM LastAdminIsKept == Spec => LastAdminLeavesKnowingly
  <1> DEFINE Knowingly ==
        Admins # {} /\ Admins' = {} =>
          \E r \in Requests :
             \/ req[r].at = "drop" /\ req'[r].at = "auth"
             \/ req[r].at = "ready" /\ req'[r].at = "idle" /\ req[r].user \notin Admins
  <1>1. TypeOK /\ [Next]_vars => [Knowingly]_vars
    <2> SUFFICES ASSUME TypeOK, Next, Admins # {}, Admins' = {}
                 PROVE  Knowingly
      OBVIOUS
    <2>0. req \in [Requests -> Request]
      BY DEF TypeOK
    <2>1. grants' # grants
      BY DEF Admins
    <2>2. ASSUME NEW r \in Requests, NEW u \in People, NEW role \in Roles, GrantRole(r, u, role)
          PROVE  FALSE
      <3>1. grants \subseteq grants'
        BY <2>2 DEF GrantRole
      <3>2. QED
        BY <3>1 DEF Admins
    <2>3. ASSUME NEW r \in Requests, NEW u \in People, NEW role \in Roles, RevokeRole(r, u, role)
          PROVE  Knowingly
      <3>1. req[r].at = "ready" /\ req'[r].at = "idle"
        BY <2>0, <2>3 DEF RevokeRole, Idle
      <3>2. \A g \in grants : g.role = "admin" => g.user = u /\ role = "admin"
        BY <2>3 DEF RevokeRole, Admins
      <3>3. req[r].user \notin Admins
        BY <2>3, <3>2 DEF RevokeRole, Admins
      <3>4. QED
        BY <3>1, <3>3
    <2>4. ASSUME NEW r \in Requests, DropAccount(r)
          PROVE  Knowingly
      BY <2>0, <2>4 DEF DropAccount
    <2>5. QED
      BY <2>1, <2>2, <2>3, <2>4 DEF Next, Session, Register, OpenSession, Expire, Handle,
         Authenticate, Leave, Contribute, FileReport, ReadReport, ResolveReport,
         BeginDeletion, Reassign, RemoveAuthUser
  <1>2. QED
    BY <1>1, TypeCorrect, PTL DEF Spec, LastAdminLeavesKnowingly

=============================================================================
