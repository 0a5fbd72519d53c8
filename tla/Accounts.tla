------------------------------- MODULE Accounts ------------------------------
(***************************************************************************)
(* Accounts, roles, data rights and moderation.  An account lives twice:   *)
(* with the authentication provider and as an app_user row, and no         *)
(* transaction spans the two.  Requests carry an access token that         *)
(* outlives both, and the roles they read when they began (users.py,       *)
(* account_deletion.py, moderation.py, reading_history.py and              *)
(* get_current_user of api/dependencies.py).                               *)
(***************************************************************************)
EXTENDS FiniteSets

CONSTANTS
    People,     \* ids the provider hands out, each at most once
    Email,      \* Email[p]: a person who registers again has a new id
    Roles,      \* the grantable roles in play
    Founders,   \* the first admins, granted by a script
    Items,      \* fragments
    Reports,    \* ids of moderation reports
    Requests    \* slots for requests in flight

VARIABLES
    provider,   \* the provider's users
    token,      \* who holds an unexpired access token
    account,    \* app_user rows
    grants,     \* user_role rows
    record,     \* the editorial record: created_by and reviewer_id
    reports,    \* moderation_report rows
    req         \* the requests in flight

vars == <<provider, token, account, grants, record, reports, req>>

\* The system user that inherits what deleted accounts leave behind.
System == "deleted-user"
\* granted_by of a grant that no admin made; resolved_by of an open report.
Nobody == "nobody"
NoRow == [is |-> "absent"]

Kinds == {"fragment", "review"}
Subjects == People \cup {System}

ASSUME AccountsAssumption ==
    /\ System \notin People
    /\ Nobody \notin Subjects
    /\ Founders \subseteq People
    /\ "admin" \in Roles /\ Roles \subseteq {"author", "editor", "admin"}

Credit == [kind : Kinds, item : Items, by : Subjects]
Grant == [user : Subjects, role : Roles, by : Subjects \cup {Nobody}]
Report == [by : People, status : {"open", "dismissed"}, resolvedBy : Subjects \cup {Nobody}]

Idle == [at |-> "idle"]
Request ==
    [at : {"idle"}]
        \cup [at : {"ready"}, user : People, roles : SUBSET Roles]
        \cup [at : {"resolve"}, user : People, report : Reports]
        \cup [at : {"reassign", "auth"}, user : People]
        \cup [at : {"drop"}, user : People, moved : SUBSET Credit, granted : SUBSET Grant]

HasRow(u) == u \in {System} \cup account
Admins == {g.user : g \in {h \in grants : h.role = "admin"}}
RolesOf(u) == {g.role : g \in {h \in grants : h.user = u}}

TypeOK ==
    /\ provider \in [People -> {"never", "user", "removed"}]
    /\ token \subseteq People
    /\ account \subseteq People
    /\ grants \subseteq Grant
    /\ record \subseteq Credit
    /\ reports \in [Reports -> Report \cup {NoRow}]
    /\ req \in [Requests -> Request]

Init ==
    /\ provider = [p \in People |-> IF p \in Founders THEN "user" ELSE "never"]
    /\ token = {}
    /\ account = Founders
    /\ grants = {[user |-> p, role |-> "admin", by |-> Nobody] : p \in Founders}
    /\ record = {}
    /\ reports = [i \in Reports |-> NoRow]
    /\ req = [r \in Requests |-> Idle]

-----------------------------------------------------------------------------
(* The provider, and the sessions it grants.                               *)

\* ensure_app_user: insert the row, or refresh its email.  email is UNIQUE and
\* the upsert minds a conflict of the id only, so the statement fails when
\* another row holds the address.
EmailFree(p) == \A q \in account \ {p} : Email[q] # Email[p]
EnsureAppUser(p) ==
    /\ EmailFree(p)
    /\ account' = account \cup {p}

\* signup while registration is open, or an admin's invitation: the provider
\* has one user per address.
Register(p) ==
    /\ provider[p] = "never"
    /\ \A q \in People : Email[q] = Email[p] => provider[q] # "user"
    /\ provider' = [provider EXCEPT ![p] = "user"]
    /\ UNCHANGED <<token, account, grants, record, reports, req>>

\* _session_body, the end of every grant: the row is ensured and a token
\* handed out.
OpenSession(p) ==
    /\ provider[p] = "user"
    /\ EnsureAppUser(p)
    /\ token' = token \cup {p}
    /\ UNCHANGED <<provider, grants, record, reports, req>>

Expire(p) ==
    /\ p \in token
    /\ token' = token \ {p}
    /\ UNCHANGED <<provider, account, grants, record, reports, req>>

-----------------------------------------------------------------------------
(* The request: AuthMiddleware accepts the token, get_current_user ensures  *)
(* the row and loads the roles, the handler acts on what they were.         *)

Authenticate(r, p) ==
    /\ req[r] = Idle
    /\ p \in token
    /\ EnsureAppUser(p)
    /\ req' = [req EXCEPT ![r] = [at |-> "ready", user |-> p, roles |-> RolesOf(p)]]
    /\ UNCHANGED <<provider, token, grants, record, reports>>

\* A request that is refused, fails or has nothing more to do.
Leave(r) ==
    /\ req[r] # Idle
    /\ req' = [req EXCEPT ![r] = Idle]
    /\ UNCHANGED <<provider, token, account, grants, record, reports>>

\* A fragment is created, or a review given: editors and admins only, one
\* review per reviewer and fragment.
Contribute(r, kind, i) ==
    LET p == req[r].user IN
    /\ req[r].at = "ready" /\ req[r].roles \cap {"editor", "admin"} # {}
    /\ p \in account
    /\ kind = "fragment" => \A c \in record : c.kind = kind => c.item # i
    /\ kind = "review" => \E c \in record : c.kind = "fragment" /\ c.item = i /\ c.by # p
    /\ record' = record \cup {[kind |-> kind, item |-> i, by |-> p]}
    /\ req' = [req EXCEPT ![r] = Idle]
    /\ UNCHANGED <<provider, token, account, grants, reports>>

\* Fault: attributions are cleared like a foreign key with SET NULL.
Cleared(c) == [c EXCEPT !.by = Nobody]
Inherited(c) == [c EXCEPT !.by = System]

\* What the deletions of others, whose commits are still to come, have moved:
\* these rows are locked.
Leaving(r) == {s \in Requests \ {r} : req[s].at = "drop"}
Moved(r) == UNION {req[s].moved : s \in Leaving(r)}
MovedGrants(r) == UNION {req[s].granted : s \in Leaving(r)}

-----------------------------------------------------------------------------
(* Roles.                                                                  *)

\* grant_role: the target is looked up, the row inserted unless it is there;
\* both its foreign keys have to hold.
GrantRole(r, u, role) ==
    LET p == req[r].user IN
    /\ req[r].at = "ready" /\ "admin" \in req[r].roles
    /\ HasRow(u) /\ HasRow(p)
    /\ grants' = IF \E g \in grants : g.user = u /\ g.role = role THEN grants
                 ELSE grants \cup {[user |-> u, role |-> role, by |-> p]}
    /\ req' = [req EXCEPT ![r] = Idle]
    /\ UNCHANGED <<provider, token, account, record, reports>>

\* Fault: revoke_role lets admins revoke themselves.
RevokeRoleAnybody(r, u, role) ==
    /\ req[r].at = "ready" /\ "admin" \in req[r].roles
    /\ HasRow(u)
    /\ \A g \in MovedGrants(r) : ~(g.user = u /\ g.role = role)
    /\ grants' = {g \in grants : ~(g.user = u /\ g.role = role)}
    /\ req' = [req EXCEPT ![r] = Idle]
    /\ UNCHANGED <<provider, token, account, record, reports>>

\* revoke_role, with the one guard: not one's own admin role.
RevokeRole(r, u, role) ==
    /\ req[r].at = "ready" /\ "admin" \in req[r].roles
    /\ HasRow(u)
    /\ ~(role = "admin" /\ u = req[r].user)
    /\ \A g \in MovedGrants(r) : ~(g.user = u /\ g.role = role)
    /\ grants' = {g \in grants : ~(g.user = u /\ g.role = role)}
    /\ req' = [req EXCEPT ![r] = Idle]
    /\ UNCHANGED <<provider, token, account, record, reports>>

-----------------------------------------------------------------------------
(* Moderation.                                                             *)

\* file_report: the partial unique index allows one open report per reporter
\* (there is one resource here).
FileReport(r, i) ==
    LET p == req[r].user IN
    /\ req[r].at = "ready"
    /\ p \in account
    /\ reports[i] = NoRow
    /\ \A j \in Reports : reports[j] # NoRow /\ reports[j].status = "open" => reports[j].by # p
    /\ reports' = [reports EXCEPT ![i] = [by |-> p, status |-> "open", resolvedBy |-> Nobody]]
    /\ req' = [req EXCEPT ![r] = Idle]
    /\ UNCHANGED <<provider, token, account, grants, record>>

\* resolve_report reads the report and refuses a closed one; its UPDATE goes by
\* the id alone.
ReadReport(r, i) ==
    /\ req[r].at = "ready" /\ "admin" \in req[r].roles
    /\ reports[i] # NoRow /\ reports[i].status = "open"
    /\ req' = [req EXCEPT ![r] = [at |-> "resolve", user |-> @.user, report |-> i]]
    /\ UNCHANGED <<provider, token, account, grants, record, reports>>

ResolveReport(r) ==
    LET i == req[r].report IN
    /\ req[r].at = "resolve"
    /\ HasRow(req[r].user)
    /\ reports[i] # NoRow
    /\ reports' = [reports EXCEPT ![i].status = "dismissed", ![i].resolvedBy = req[r].user]
    /\ req' = [req EXCEPT ![r] = Idle]
    /\ UNCHANGED <<provider, token, account, grants, record>>

-----------------------------------------------------------------------------
(* Deletion.                                                               *)

BeginDeletion(r) ==
    /\ req[r].at = "ready"
    /\ req[r].user \in account
    /\ req' = [req EXCEPT ![r] = [at |-> "reassign", user |-> @.user]]
    /\ UNCHANGED <<provider, token, account, grants, record, reports>>

\* Fault: reviews the system user already has are merged.
ReassignMerging(r) ==
    LET mine == {c \in record : c.by = req[r].user}
        given == {g \in grants : g.by = req[r].user} IN
    /\ req[r].at = "reassign"
    /\ mine \cap Moved(r) = {} /\ given \cap MovedGrants(r) = {}
    /\ req' = [req EXCEPT ![r] =
         [at |-> "drop", user |-> @.user, moved |-> mine, granted |-> given]]
    /\ UNCHANGED <<provider, token, account, grants, record, reports>>

\* _reassign: the UPDATEs see what is committed now, and wait for rows another
\* deletion has moved.  A review of a fragment that the system user has reviewed
\* already violates the unique key, and the transaction is rolled back (Leave);
\* where another deletion is about to make it one, the UPDATE waits.
Reassign(r) ==
    LET mine == {c \in record : c.by = req[r].user}
        given == {g \in grants : g.by = req[r].user} IN
    /\ req[r].at = "reassign"
    /\ mine \cap Moved(r) = {} /\ given \cap MovedGrants(r) = {}
    /\ \A c \in mine : c.kind = "review" =>
         Inherited(c) \notin record \cup {Inherited(d) : d \in Moved(r)}
    /\ req' = [req EXCEPT ![r] =
         [at |-> "drop", user |-> @.user, moved |-> mine, granted |-> given]]
    /\ UNCHANGED <<provider, token, account, grants, record, reports>>

\* Fault: what arrived after the reassignment is not asked about.
BlockersOfGrants(r) ==
    LET p == req[r].user IN
    \/ \E g \in grants \ req[r].granted : g.by = p /\ g.user # p
    \/ \E i \in Reports : reports[i] # NoRow /\ reports[i].resolvedBy = p /\ reports[i].by # p

\* What refuses the DELETE: rows that point at the account and neither cascade
\* nor were moved.
Blockers(r) ==
    LET p == req[r].user IN
    \/ \E c \in record \ req[r].moved : c.by = p
    \/ \E g \in grants \ req[r].granted : g.by = p /\ g.user # p
    \/ \E i \in Reports : reports[i] # NoRow /\ reports[i].resolvedBy = p /\ reports[i].by # p

\* The DELETE and the commit: grants held and reports filed cascade, once no
\* other deletion holds them.  A row that is gone already is no error.
DropAccount(r) ==
    LET p == req[r].user IN
    /\ req[r].at = "drop"
    /\ ~Blockers(r)
    /\ \A g \in MovedGrants(r) : g.user # p
    /\ account' = account \ {p}
    /\ record' = (record \ req[r].moved) \cup {Inherited(c) : c \in req[r].moved}
    /\ grants' = {IF g \in req[r].granted THEN Inherited(g) ELSE g :
                    g \in {h \in grants : h.user # p}}
    /\ reports' = [i \in Reports |->
         IF reports[i] # NoRow /\ reports[i].by = p THEN NoRow ELSE reports[i]]
    /\ req' = [req EXCEPT ![r] = [at |-> "auth", user |-> p]]
    /\ UNCHANGED <<provider, token>>

\* delete_auth_user; if the provider cannot be reached the request leaves.
RemoveAuthUser(r) ==
    /\ req[r].at = "auth"
    /\ provider' = [provider EXCEPT ![req[r].user] = "removed"]
    /\ req' = [req EXCEPT ![r] = Idle]
    /\ UNCHANGED <<token, account, grants, record, reports>>

-----------------------------------------------------------------------------

Session == \E p \in People : Register(p) \/ OpenSession(p) \/ Expire(p)

Handle(r) ==
    \/ \E p \in People : Authenticate(r, p)
    \/ Leave(r)
    \/ \E k \in Kinds, i \in Items : Contribute(r, k, i)
    \/ \E u \in People, role \in Roles : GrantRole(r, u, role) \/ RevokeRole(r, u, role)
    \/ \E i \in Reports : FileReport(r, i) \/ ReadReport(r, i)
    \/ ResolveReport(r)
    \/ BeginDeletion(r) \/ Reassign(r) \/ DropAccount(r) \/ RemoveAuthUser(r)

Next == Session \/ \E r \in Requests : Handle(r)

Spec == Init /\ [][Next]_vars

-----------------------------------------------------------------------------
(* Properties.                                                             *)

\* What a deleted account leaves is attributed to the system user or to nobody
\* (delete_account against requests of the same account that are under way).
NothingOwnerless ==
    \A p \in People \ account :
        /\ \A c \in record : c.by # p
        /\ \A g \in grants : p \notin {g.user, g.by}
        /\ \A i \in Reports : reports[i] # NoRow => p \notin {reports[i].by, reports[i].resolvedBy}

\* Deletions rewrite attributions but lose no part of the editorial record: of
\* two reviews of one fragment none disappears in the other.
RecordKept == [][\A c \in record : c \in record' \/ Inherited(c) \in record' \ record]_vars

\* The instance loses its last admin only when that admin deletes the account,
\* or by a revoker whose own role was revoked while the request was under way.
LastAdminLeavesKnowingly ==
    [][Admins # {} /\ Admins' = {} =>
         \E r \in Requests :
            \/ req[r].at = "drop" /\ req'[r].at = "auth"
            \/ req[r].at = "ready" /\ req'[r].at = "idle" /\ req[r].user \notin Admins]_vars

=============================================================================
