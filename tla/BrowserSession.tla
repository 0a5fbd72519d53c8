---------------------------- MODULE BrowserSession ---------------------------
(***************************************************************************)
(* Signing in, staying signed in and signing out: the browser with its      *)
(* tabs and the cookie jar they share, the proxy routes of the API, and     *)
(* the identity provider that rotates refresh tokens.  A page holds an      *)
(* access token in memory and never sees the refresh token: each call of    *)
(* /auth presents the cookie that the jar held when the call was sent, and  *)
(* its answer writes the cookie that the next one will present.  Calls of   *)
(* one tab, and of several, overlap; any of them may be lost.               *)
(***************************************************************************)
EXTENDS Integers, FiniteSets, Sequences

CONSTANTS
    Tabs,         \* the tabs of one browser
    Users,        \* the accounts of those who use it
    MaxGrants,    \* bound: refresh tokens the provider issues
    MaxFlows,     \* bound: OAuth round trips
    MaxCalls      \* bound: calls in flight

VARIABLES
    issued,       \* the refresh tokens in the order they were issued
    live,         \* those the provider would exchange
    ended,        \* sessions the provider has ended: revoked, account removed
    links,        \* accounts with an e-mail link that was not redeemed
    flows,        \* the OAuth round trips that were begun
    jar,          \* the cookies: refresh token and PKCE verifier, 0 for none
    tab,          \* per tab the page that is loaded there
    call,         \* per tab and kind of call the one in flight
    due,          \* history: the session last signed in to; 0: signed out
    turned,       \* history: since then a 401 cleared a cookie that was good
    calm          \* history: since then no calls overlapped, no rotation was lost
provider == <<issued, live, ended, links, flows>>
vars == <<issued, live, ended, links, flows, jar, tab, call, due, turned, calm>>

ASSUME BoundsAssumption == MaxGrants \in Nat /\ MaxFlows \in Nat /\ MaxCalls \in Nat

Kinds == {"bootstrap", "renew", "sign in", "sign out"}
Refreshes == {"bootstrap", "renew"}      \* both are POST /auth/refresh
Statuses == {200, 401, 500, 503}
Lost == 0                                \* fetch() throws: there is no answer

\* What a call presents: the cookie, a password, the hash of a link, or the
\* code of an OAuth round trip with the verifier from the jar.
Cookie(n) == [by |-> "cookie", token |-> n]
Password(u) == [by |-> "password", user |-> u]
Link(u) == [by |-> "link", user |-> u]
Code(u, f, v) == [by |-> "code", user |-> u, flow |-> f, verifier |-> v]

Idle == [at |-> "idle"]
Sent(c) == [at |-> "sent", with |-> c]
Granted(pkce, n) == [at |-> "granted", pkce |-> pkce, token |-> n]
Answered(pkce, status, n) == [at |-> "answered", pkce |-> pkce, status |-> status, token |-> n]

Busy(calls) == {s \in Tabs \X Kinds : calls[s[1]][s[2]] # Idle}
Resting(t) == \A k \in Kinds : call[t][k] = Idle

-----------------------------------------------------------------------------
(* The page: a token in memory, the status the views render by, the timer of *)
(* the silent renewal.  "away" is the browser at the OAuth provider.         *)

Page(status, token, timer, flow) ==
    [status |-> status, token |-> token, timer |-> timer, flow |-> flow]
Loading == Page("loading", 0, FALSE, 0)
Anonymous == Page("anonymous", 0, FALSE, 0)
Authenticated(n) == Page("authenticated", n, TRUE, 0)
Away(f) == Page("away", 0, FALSE, f)

\* Fault: the session is not looked at.
LeaveLoadingBlind(p) == [p EXCEPT !.status = "anonymous"]
\* Fault: a flag set by the simulated unmount drops the failure.
LeaveLoadingCancelled(p) == p
\* A session that was established meanwhile is not downgraded.
LeaveLoading(p) == IF p.token = 0 THEN [p EXCEPT !.status = "anonymous"] ELSE p

\* Whoever signs out is anonymous whatever the answer, and so is the page
\* whose renewal fails; a sign-in that fails shows a message only.
After(p, k, status, n) ==
    CASE k = "sign out" -> Anonymous
      [] k # "sign out" /\ status = 200 -> Authenticated(n)
      [] k = "bootstrap" /\ status # 200 -> LeaveLoading(p)
      [] k = "renew" /\ status # 200 -> Anonymous
      [] k = "sign in" /\ status # 200 -> p

Init ==
    /\ issued = <<>> /\ live = {} /\ ended = {} /\ links = {} /\ flows = 0
    /\ jar = [refresh |-> 0, pkce |-> 0]
    /\ tab = [t \in Tabs |-> Anonymous]
    /\ call = [t \in Tabs |-> [k \in Kinds |-> Idle]]
    /\ due = 0 /\ turned = FALSE /\ calm = TRUE

Sending ==
    /\ Cardinality(Busy(call')) <= MaxCalls
    /\ calm' = (calm /\ \A x, y \in Busy(call') : x = y)

\* The page is loaded, or loaded again.  One that leaves with a call in flight
\* has lost it before (Lose).
Load(t) ==
    /\ Resting(t)
    /\ tab' = [tab EXCEPT ![t] = Loading]
    /\ call' = [call EXCEPT ![t]["bootstrap"] = Sent(Cookie(jar.refresh))]
    /\ Sending
    /\ UNCHANGED <<provider, jar, due, turned>>

\* The callback page, and the page that links lead to, sign in from an effect
\* of their own while the provider above them bootstraps.
LoadSigningIn(t, c) ==
    /\ Resting(t)
    /\ tab' = [tab EXCEPT ![t] = Loading]
    /\ call' = [call EXCEPT ![t]["bootstrap"] = Sent(Cookie(jar.refresh)),
                            ![t]["sign in"] = Sent(c)]
    /\ Sending
    /\ UNCHANGED <<provider, jar, due, turned>>

OpenLink(t, u) == LoadSigningIn(t, Link(u))
Return(t, u) == tab[t].status = "away" /\ LoadSigningIn(t, Code(u, tab[t].flow, jar.pkce))

StartOAuth(t) ==
    /\ tab[t].status # "away" /\ Resting(t) /\ flows < MaxFlows
    /\ flows' = flows + 1
    /\ jar' = [jar EXCEPT !.pkce = flows + 1]
    /\ tab' = [tab EXCEPT ![t] = Away(flows + 1)]
    /\ UNCHANGED <<issued, live, ended, links, call, due, turned, calm>>

SignIn(t, u) ==
    /\ tab[t].status # "away" /\ call[t]["sign in"] = Idle
    /\ call' = [call EXCEPT ![t]["sign in"] = Sent(Password(u))]
    /\ Sending
    /\ UNCHANGED <<provider, jar, tab, due, turned>>

\* Bound: a renewal is not begun while another of the tab is in flight.
Renew(t) ==
    /\ tab[t].timer /\ call[t]["renew"] = Idle
    /\ tab' = [tab EXCEPT ![t].timer = FALSE]
    /\ call' = [call EXCEPT ![t]["renew"] = Sent(Cookie(jar.refresh))]
    /\ Sending
    /\ UNCHANGED <<provider, jar, due, turned>>

SignOut(t) ==
    /\ tab[t].status = "authenticated" /\ call[t]["sign out"] = Idle
    /\ tab' = [tab EXCEPT ![t].timer = FALSE]
    /\ call' = [call EXCEPT ![t]["sign out"] = Sent(Cookie(jar.refresh))]
    /\ Sending
    /\ UNCHANGED <<provider, jar, due, turned>>

\* The token expires, or some call of the API is answered 401: the token goes,
\* the cookie stays.
Expire(t) ==
    /\ tab[t].token # 0
    /\ tab' = [tab EXCEPT ![t] = Anonymous]
    /\ UNCHANGED <<provider, jar, call, due, turned, calm>>

ExpirePkce ==
    /\ jar.pkce # 0
    /\ jar' = [jar EXCEPT !.pkce = 0]
    /\ UNCHANGED <<provider, tab, call, due, turned, calm>>

-----------------------------------------------------------------------------
(* The API and the provider behind it.                                       *)

\* Sign-up, a second confirmation, a reset: the provider sends a link.
Mail(u) ==
    /\ u \notin links
    /\ links' = links \cup {u}
    /\ UNCHANGED <<issued, live, ended, flows, jar, tab, call, due, turned, calm>>

End(s) ==
    /\ ended' = ended \cup s
    /\ live' = {n \in live : issued[n].session \notin s}

\* The sessions of an account that is removed.
Remove(u) ==
    /\ End({issued[n].session : n \in {m \in DOMAIN issued : issued[m].user = u}})
    /\ live' # live
    /\ UNCHANGED <<issued, links, flows, jar, tab, call, due, turned, calm>>

\* The routes answer 401 themselves when the cookie they need is not there.
Missing(c) ==
    \/ c.by = "cookie" /\ c.token = 0
    \/ c.by = "code" /\ c.verifier = 0

\* What the provider can make good: a live token, a password (which may be
\* right or wrong), the hash of a link, a code with its own verifier.
Accepts(c) ==
    CASE c.by = "cookie" -> c.token \in live
      [] c.by = "password" -> TRUE
      [] c.by = "link" -> c.user \in links
      [] c.by = "code" -> c.flow = c.verifier

\* A refresh token is spent on its successor, a link on its session.
NewToken(c) ==
    IF c.by = "cookie" THEN issued[c.token]
    ELSE [user |-> c.user, session |-> Len(issued) + 1]
Spent(c) == IF c.by = "cookie" THEN {c.token} ELSE {}
Issue(c) ==
    /\ ~Missing(c) /\ Accepts(c) /\ Len(issued) < MaxGrants
    /\ issued' = Append(issued, NewToken(c))
    /\ live' = (live \ Spent(c)) \cup {Len(issued) + 1}
    /\ links' = IF c.by = "link" THEN links \ {c.user} ELSE links
    /\ UNCHANGED <<ended, flows>>

ByCode(c) == c.by = "code"
Answer(t, k, pkce, status, n) == call' = [call EXCEPT ![t][k] = Answered(pkce, status, n)]

\* Signing out is best effort: it succeeds whatever the provider says, but for
\* a body that cannot be read.
Status(k, s) == IF k = "sign out" /\ s # 500 THEN 200 ELSE s

\* The API gets no session.  Every 4xx of the provider makes a 401, that of a
\* rate limit like that of a dead token, and so does a success without tokens;
\* a timeout and a 5xx make a 503, a success that is not JSON a 500.
Failed(t, k, c) ==
    \E s \in {401, 500, 503} :
        /\ Missing(c) => s = 401
        /\ Answer(t, k, ByCode(c), Status(k, s), 0)
Refuse(t, k, c) == Failed(t, k, c) /\ UNCHANGED <<provider, calm>>

\* The provider has made the exchange and the API does not hear of it.
Unheard(t, k, c) ==
    /\ Issue(c) /\ Failed(t, k, c)
    /\ calm' = (calm /\ k \notin Refreshes)

Grant(t, k, c) ==
    /\ Issue(c)
    /\ call' = [call EXCEPT ![t][k] = Granted(ByCode(c), Len(issued) + 1)]
    /\ UNCHANGED calm

Exchange(t, k) ==
    /\ call[t][k].at = "sent"
    /\ LET c == call[t][k].with
       IN  Refuse(t, k, c) \/ Unheard(t, k, c) \/ Grant(t, k, c)
    /\ UNCHANGED <<jar, tab, due, turned>>

\* The row of the account and its roles come from the database; when it fails
\* the answer is a 500 without the cookie.
Mirror(t, k) ==
    /\ k # "sign out" /\ call[t][k].at = "granted"
    /\ \/ Answer(t, k, call[t][k].pkce, 200, call[t][k].token)
       \/ Answer(t, k, call[t][k].pkce, 500, 0)
    /\ UNCHANGED <<provider, jar, tab, due, turned, calm>>

\* The token just granted signs the session out, if the provider hears of it.
Revoke(t) ==
    /\ call[t]["sign out"].at = "granted"
    /\ \/ End({issued[call[t]["sign out"].token].session})
       \/ UNCHANGED <<live, ended>>
    /\ Answer(t, "sign out", FALSE, 200, 0)
    /\ UNCHANGED <<issued, links, flows, jar, tab, due, turned, calm>>

-----------------------------------------------------------------------------
(* The answer: first its cookies, then what the page makes of it.            *)

\* Fault: the cookie is cleared on every failure.
RefreshCookieAnyFailure(k, a) ==
    IF (k = "sign out" /\ a.status = 200) \/ (k \in Refreshes /\ a.status # 200) THEN 0
    ELSE IF a.status = 200 THEN a.token ELSE jar.refresh
\* Cleared by a 401, whatever that stands for, and kept by a 503; a 500, be it
\* of the exchange or of Mirror, sets nothing.
RefreshCookie(k, a) ==
    IF (k = "sign out" /\ a.status = 200) \/ (k \in Refreshes /\ a.status = 401) THEN 0
    ELSE IF a.status = 200 THEN a.token ELSE jar.refresh

\* The verifier is used once; the 500 keeps it.
PkceCookie(a) == IF a.pkce /\ a.status # 500 THEN 0 ELSE jar.pkce

SignsIn(k, a) == k = "sign in" /\ a.status = 200
SignsOut(k, a) == k = "sign out" /\ a.status = 200
TurnsAway(k, a) == k \in Refreshes /\ a.status = 401 /\ jar.refresh \in live

\* The provider has, or may have, rotated the token that the jar still holds.
Rotated(k, a) == k \in Refreshes /\ a.at = "answered" /\ a.status \in {200, 500}

Receive(t, k) ==
    LET a == call[t][k]
    IN /\ a.at = "answered"
       /\ jar' = [refresh |-> RefreshCookie(k, a), pkce |-> PkceCookie(a)]
       /\ tab' = [tab EXCEPT ![t] = After(@, k, a.status, a.token)]
       /\ call' = [call EXCEPT ![t][k] = Idle]
       /\ due' = IF SignsIn(k, a) THEN issued[a.token].session
                 ELSE IF k = "sign out" THEN 0 ELSE due
       /\ turned' = (~SignsIn(k, a) /\ k # "sign out" /\ (turned \/ TurnsAway(k, a)))
       /\ calm' = IF SignsIn(k, a) \/ SignsOut(k, a) THEN calm \/ Busy(call') = {}
                  ELSE calm /\ k # "sign out" /\ (a.status = 500 => k = "sign in")
       /\ UNCHANGED provider

\* The request does not arrive, or its answer does not.
Lose(t, k) ==
    /\ call[t][k].at \in {"sent", "answered"}
    /\ tab' = [tab EXCEPT ![t] = After(@, k, Lost, 0)]
    /\ call' = [call EXCEPT ![t][k] = Idle]
    /\ calm' = (calm /\ k # "sign out" /\ ~Rotated(k, call[t][k]))
    /\ UNCHANGED <<provider, jar, due, turned>>

Settle(t, k) == Exchange(t, k) \/ Mirror(t, k) \/ (k = "sign out" /\ Revoke(t)) \/ Receive(t, k)

Visit(t) ==
    \/ Load(t) \/ StartOAuth(t) \/ Renew(t) \/ SignOut(t) \/ Expire(t)
    \/ \E u \in Users : OpenLink(t, u) \/ Return(t, u) \/ SignIn(t, u)

Next ==
    \/ \E t \in Tabs : Visit(t) \/ \E k \in Kinds : Settle(t, k) \/ Lose(t, k)
    \/ \E u \in Users : Mail(u) \/ Remove(u)
    \/ ExpirePkce

\* httpx gives up on the provider after its timeout and fetch() ends one way or
\* the other: the bootstrap's call, of which alone this is needed, goes on.
Fairness == \A t \in Tabs : WF_vars(Settle(t, "bootstrap"))

Spec == Init /\ [][Next]_vars /\ Fairness

-----------------------------------------------------------------------------
Token == [user : Users, session : 1 .. MaxGrants]
Tokens == DOMAIN issued
None == {0}

Pages == [status : {"loading", "anonymous", "authenticated", "away"},
          token : Tokens \cup None, timer : BOOLEAN, flow : 0 .. flows]
Coherent(p) == (p.status = "authenticated" <=> p.token # 0) /\ (p.timer => p.token # 0)

Credential == [by : {"cookie"}, token : Tokens \cup None]
    \cup [by : {"password", "link"}, user : Users]
    \cup [by : {"code"}, user : Users, flow : 0 .. flows, verifier : 0 .. flows]
Call == [at : {"idle"}]
    \cup [at : {"sent"}, with : Credential]
    \cup [at : {"granted"}, pkce : BOOLEAN, token : Tokens]
    \cup [at : {"answered"}, pkce : BOOLEAN, status : Statuses, token : Tokens \cup None]

\* Types.  A page is authenticated exactly when it holds a token, and renews
\* itself only then: the views that ask the status and the calls that attach the
\* token agree at every moment (AuthContext.tsx, auth.ts).
TypeOK ==
    /\ issued \in Seq(Token) /\ Len(issued) <= MaxGrants
    /\ live \subseteq Tokens /\ ended \subseteq Tokens /\ links \subseteq Users
    /\ flows \in 0 .. MaxFlows
    /\ jar \in [refresh : Tokens \cup None, pkce : 0 .. flows]
    /\ tab \in [Tabs -> Pages] /\ \A t \in Tabs : Coherent(tab[t])
    /\ call \in [Tabs -> [Kinds -> Call]]
    /\ due \in Tokens \cup None /\ turned \in BOOLEAN /\ calm \in BOOLEAN

\* Once calls follow one another and no rotation is lost, the browser at rest
\* holds the one token that continues the session last signed in to, unless the
\* provider has ended it, and none when the user has signed out: a failed
\* sign-in, a provider that cannot be reached, expired pages and reloads take
\* no session away and bring none back.  One thing does take a session away: a
\* 401 for a good cookie, as the provider's rate limit or a success without
\* tokens gives it (supabase_auth.py:214-231 and 166-171, auth.py:204-209 and
\* 288).  Then the browser holds no token at all until the next sign-in.
SessionKept ==
    calm /\ Busy(call) = {} =>
       IF due = 0 THEN jar.refresh = 0
       ELSE due \notin ended =>
              \/ jar.refresh \in live /\ issued[jar.refresh].session = due
              \/ turned /\ jar.refresh = 0

\* No visitor waits for ever for a page to decide between its anonymous and its
\* authenticated form, whatever becomes of the bootstrap's call.
LeavesLoading == \A t \in Tabs : tab[t].status = "loading" ~> tab[t].status # "loading"
=============================================================================
