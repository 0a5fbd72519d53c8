------------------------ MODULE BrowserSessionProofs -------------------------
(***************************************************************************)
(* Proofs about BrowserSession, for any number of tabs, users, issued      *)
(* tokens and calls in flight: type correctness, and that a browser at     *)
(* rest keeps its session.  The second rests on CarriedInv, what a call    *)
(* brings back is held nowhere else, and on CalmInv, what the one call in  *)
(* flight means for the session while calls follow one another.            *)
(***************************************************************************)
EXTENDS BrowserSession, FiniteSetTheorems, TLAPS

-----------------------------------------------------------------------------
(* Type correctness.  What a call will hand out, and what a page or a call   *)
(* holds, are tokens that were issued, of sessions that were begun.         *)

Handed(k, c) == c.at = "answered" /\ c.status = 200 /\ k # "sign out" => c.token \in Tokens

TypeInv ==
    /\ TypeOK
    /\ \A n \in Tokens : issued[n].session \in Tokens
    /\ \A t \in Tabs, k \in Kinds : Handed(k, call[t][k])

Steady == issued' = issued /\ flows' = flows

LEMMA SameTypes == Steady => Tokens' = Tokens /\ Pages' = Pages /\ Call' = Call
  BY DEF Steady, Tokens, Pages, Call, Credential

LEMMA TokenRange == TypeOK => Tokens = 1 .. Len(issued) /\ Len(issued) \in Nat
  BY DEF TypeOK, Tokens

\* More tokens, more round trips: what was well typed stays so.
LEMMA MoreTypes ==
    ASSUME Tokens \subseteq Tokens', flows \in Nat, flows' \in Nat, flows <= flows'
    PROVE  Pages \subseteq Pages' /\ Call \subseteq Call'
  <1>1. 0 .. flows \subseteq 0 .. flows'
    OBVIOUS
  <1>2. Pages \subseteq Pages'
    BY <1>1 DEF Pages
  <1>3. Credential \subseteq Credential'
    BY <1>1 DEF Credential
  <1>4. Call \subseteq Call'
    BY <1>3 DEF Call
  <1>5. QED
    BY <1>2, <1>4

LEMMA CallShape ==
    ASSUME TypeOK, NEW t \in Tabs, NEW k \in Kinds
    PROVE  /\ call[t][k] \in Call
           /\ call[t][k].at \in {"idle", "sent", "granted", "answered"}
           /\ call[t][k].at = "idle" => call[t][k] = Idle
           /\ call[t][k].at = "sent" => call[t][k].with \in Credential
           /\ call[t][k].at = "granted" =>
                call[t][k].pkce \in BOOLEAN /\ call[t][k].token \in Tokens
           /\ call[t][k].at = "answered" =>
                /\ call[t][k].pkce \in BOOLEAN /\ call[t][k].status \in Statuses
                /\ call[t][k].token \in Tokens \cup None
  <1>1. call[t][k] \in Call
    BY DEF TypeOK
  <1>2. QED
    BY <1>1 DEF Call, Idle

LEMMA CallForms ==
    /\ Idle \in Call
    /\ \A c \in Credential : Sent(c) \in Call
    /\ \A p \in BOOLEAN, s \in Statuses, n \in Tokens \cup None : Answered(p, s, n) \in Call
    /\ \A p \in BOOLEAN, n \in Tokens : Granted(p, n) \in Call
  BY DEF Call, Idle, Sent, Answered, Granted

LEMMA CallPut ==
    ASSUME call \in [Tabs -> [Kinds -> Call]], NEW t \in Tabs, NEW k \in Kinds, NEW c \in Call,
           call' = [call EXCEPT ![t][k] = c]
    PROVE  /\ call' \in [Tabs -> [Kinds -> Call]]
           /\ call'[t][k] = c
           /\ \A u \in Tabs, h \in Kinds : u # t \/ h # k => call'[u][h] = call[u][h]
  OBVIOUS

LEMMA PageForms ==
    ASSUME TypeOK
    PROVE  /\ Loading \in Pages /\ Coherent(Loading)
           /\ Anonymous \in Pages /\ Coherent(Anonymous)
           /\ \A n \in Tokens : Authenticated(n) \in Pages /\ Coherent(Authenticated(n))
           /\ Away(flows) \in Pages /\ Coherent(Away(flows))
  <1>1. 0 \notin Tokens /\ flows \in Nat
    BY TokenRange DEF TypeOK
  <1>2. Loading \in Pages /\ Coherent(Loading)
    BY <1>1 DEF Loading, Page, Pages, Coherent, None
  <1>3. Anonymous \in Pages /\ Coherent(Anonymous)
    BY <1>1 DEF Anonymous, Page, Pages, Coherent, None
  <1>4. ASSUME NEW n \in Tokens
        PROVE  Authenticated(n) \in Pages /\ Coherent(Authenticated(n))
    BY <1>1 DEF Authenticated, Page, Pages, Coherent
  <1>5. Away(flows) \in Pages /\ Coherent(Away(flows))
    BY <1>1 DEF Away, Page, Pages, Coherent, None
  <1>6. QED
    BY <1>2, <1>3, <1>4, <1>5

LEMMA TypeInit == Init => TypeInv
  <1> SUFFICES ASSUME Init PROVE TypeInv
    OBVIOUS
  <1>1. issued = <<>> /\ Tokens = {}
    BY DEF Init, Tokens
  <1>2. Anonymous \in Pages /\ Coherent(Anonymous)
    BY <1>1 DEF Init, Anonymous, Page, Pages, Coherent, None
  <1>3. Idle \in Call
    BY DEF Idle, Call
  <1>4. tab \in [Tabs -> Pages] /\ \A t \in Tabs : Coherent(tab[t])
    BY <1>2 DEF Init
  <1>5. call \in [Tabs -> [Kinds -> Call]]
    BY <1>3 DEF Init
  <1>6. jar \in [refresh : Tokens \cup None, pkce : 0 .. flows]
    BY DEF Init, None
  <1>7. issued \in Seq(Token) /\ Len(issued) <= MaxGrants
    BY <1>1, BoundsAssumption
  <1>8. flows \in 0 .. MaxFlows
    BY BoundsAssumption DEF Init
  <1>9. \A t \in Tabs, k \in Kinds : Handed(k, call[t][k])
    BY DEF Init, Idle, Handed
  <1>10. QED
    BY <1>1, <1>4, <1>5, <1>6, <1>7, <1>8, <1>9 DEF Init, TypeInv, TypeOK, None

LEMMA HandedNext ==
    ASSUME NEW t \in Tabs, NEW k \in Kinds,
           /\ call'[t][k].at = "answered"
           /\ call'[t][k].status = 200
           /\ k # "sign out"
           => call'[t][k].token \in Tokens'
    PROVE  Handed(k, call[t][k])'
  BY Zenon DEF Handed

\* What an action has to show that issues no token and begins no round trip.
LEMMA TypeFrame ==
    ASSUME TypeInv, Steady,
           live' \subseteq Tokens, ended' \subseteq Tokens, links' \subseteq Users,
           jar' \in [refresh : Tokens \cup None, pkce : 0 .. flows],
           tab' \in [Tabs -> Pages], \A t \in Tabs : Coherent(tab'[t]),
           call' \in [Tabs -> [Kinds -> Call]],
           \A t \in Tabs, k \in Kinds :
              \/ call'[t][k] = call[t][k] \/ call'[t][k].at # "answered" \/ Handed(k, call'[t][k]),
           due' \in Tokens \cup None, turned' \in BOOLEAN, calm' \in BOOLEAN
    PROVE  TypeInv'
  <1>1. TypeOK' /\ \A n \in Tokens' : issued'[n].session \in Tokens'
    BY SameTypes DEF TypeInv, TypeOK, Steady
  <1>2. ASSUME NEW t \in Tabs, NEW k \in Kinds PROVE Handed(k, call'[t][k])
    <2>1. Handed(k, call[t][k])
      BY DEF TypeInv
    <2>2. \/ call'[t][k] = call[t][k] \/ call'[t][k].at # "answered" \/ Handed(k, call'[t][k])
      OBVIOUS
    <2>3. QED
      BY <2>1, <2>2 DEF Handed
  <1>3. ASSUME NEW t \in Tabs, NEW k \in Kinds PROVE Handed(k, call[t][k])'
    <2>1. Handed(k, call'[t][k]) /\ Tokens' = Tokens
      BY <1>2, SameTypes
    <2>2. QED
      BY <2>1, HandedNext, Zenon DEF Handed
  <1>4. QED
    BY <1>1, <1>3 DEF TypeInv

LEMMA Cookies ==
    ASSUME TypeOK
    PROVE  /\ Sent(Cookie(jar.refresh)) \in Call
           /\ \A u \in Users : /\ Sent(Password(u)) \in Call /\ Sent(Link(u)) \in Call
                               /\ \A t \in Tabs : Sent(Code(u, tab[t].flow, jar.pkce)) \in Call
  <1>1. jar.refresh \in Tokens \cup None /\ jar.pkce \in 0 .. flows
    BY DEF TypeOK
  <1>2. \A t \in Tabs : tab[t].flow \in 0 .. flows
    BY DEF TypeOK, Pages
  <1>3. Cookie(jar.refresh) \in Credential
    BY <1>1 DEF Cookie, Credential
  <1>4. ASSUME NEW u \in Users
        PROVE  /\ Password(u) \in Credential /\ Link(u) \in Credential
               /\ \A t \in Tabs : Code(u, tab[t].flow, jar.pkce) \in Credential
    BY <1>1, <1>2 DEF Password, Link, Code, Credential
  <1>5. QED
    BY <1>3, <1>4, CallForms

LEMMA OneMore ==
    ASSUME NEW m \in Nat, NEW n \in 0 .. m, n < m
    PROVE  n \in Nat /\ n + 1 \in Nat /\ n <= n + 1 /\ n + 1 \in 0 .. m /\ n + 1 \in 0 .. n + 1
  OBVIOUS

LEMMA TypeStartOAuth ==
    ASSUME TypeInv, NEW t \in Tabs, StartOAuth(t)
    PROVE  TypeInv'
  <1>1. /\ flows \in 0 .. MaxFlows /\ flows < MaxFlows /\ flows' = flows + 1
        /\ issued' = issued /\ Tokens' = Tokens
    BY DEF StartOAuth, TypeInv, TypeOK, Tokens
  <1>2. /\ flows \in Nat /\ flows' \in Nat /\ flows <= flows'
        /\ flows' \in 0 .. MaxFlows /\ flows' \in 0 .. flows'
    BY <1>1, OneMore, BoundsAssumption
  <1>3. Pages \subseteq Pages' /\ Call \subseteq Call'
    BY <1>1, <1>2, MoreTypes
  <1>4. Away(flows') \in Pages' /\ Coherent(Away(flows'))
    <2>1. Away(flows') = [status |-> "away", token |-> 0, timer |-> FALSE, flow |-> flows']
      BY DEF Away, Page
    <2>2. QED
      BY <1>2, <2>1 DEF Pages, Coherent, None
  <1>5. tab' \in [Tabs -> Pages'] /\ \A u \in Tabs : Coherent(tab'[u])
    BY <1>1, <1>3, <1>4 DEF StartOAuth, TypeInv, TypeOK
  <1>6. call' \in [Tabs -> [Kinds -> Call']]
    BY <1>3 DEF StartOAuth, TypeInv, TypeOK
  <1>7. jar' \in [refresh : Tokens \cup None, pkce : 0 .. flows']
    BY <1>1, <1>2 DEF StartOAuth, TypeInv, TypeOK
  <1>8. \A u \in Tabs, h \in Kinds : Handed(h, call[u][h])'
    BY <1>1 DEF StartOAuth, TypeInv, Handed
  <1>9. QED
    BY <1>1, <1>2, <1>5, <1>6, <1>7, <1>8 DEF StartOAuth, TypeInv, TypeOK

LEMMA TypeVisit ==
    ASSUME TypeInv, NEW t \in Tabs, Visit(t)
    PROVE  TypeInv'
  <1> /\ TypeOK
      /\ tab \in [Tabs -> Pages] /\ \A u \in Tabs : Coherent(tab[u])
      /\ call \in [Tabs -> [Kinds -> Call]] /\ turned \in BOOLEAN /\ calm \in BOOLEAN
      /\ "bootstrap" \in Kinds /\ "sign in" \in Kinds /\ "renew" \in Kinds /\ "sign out" \in Kinds
    BY DEF TypeInv, TypeOK, Kinds
  <1>c. Sending => calm' \in BOOLEAN
    BY DEF Sending
  <1>1. CASE Load(t)
    <2>1. call' \in [Tabs -> [Kinds -> Call]]
      BY <1>1, Cookies, CallPut DEF Load
    <2>a. \A u \in Tabs, h \in Kinds : call'[u][h] = call[u][h] \/ call'[u][h].at # "answered"
      BY <1>1 DEF Load, Sent
    <2>2. tab' \in [Tabs -> Pages] /\ \A u \in Tabs : Coherent(tab'[u])
      BY <1>1, PageForms DEF Load
    <2>3. QED
      BY <1>1, <1>c, <2>1, <2>a, <2>2, TypeFrame DEF Load, provider, TypeOK, TypeInv, Steady
  <1>2. ASSUME NEW c, Sent(c) \in Call, LoadSigningIn(t, c)
        PROVE  TypeInv'
    <2>1. call' \in [Tabs -> [Kinds -> Call]]
      BY <1>2, Cookies DEF LoadSigningIn
    <2>a. \A u \in Tabs, h \in Kinds : call'[u][h] = call[u][h] \/ call'[u][h].at # "answered"
      BY <1>2 DEF LoadSigningIn, Sent
    <2>2. tab' \in [Tabs -> Pages] /\ \A u \in Tabs : Coherent(tab'[u])
      BY <1>2, PageForms DEF LoadSigningIn
    <2>3. QED
      BY <1>2, <1>c, <2>1, <2>a, <2>2, TypeFrame DEF LoadSigningIn, provider, TypeOK, TypeInv, Steady
  <1>3. ASSUME NEW u \in Users, SignIn(t, u)
        PROVE  TypeInv'
    <2>1. call' \in [Tabs -> [Kinds -> Call]]
      BY <1>3, Cookies, CallPut DEF SignIn
    <2>a. \A o \in Tabs, h \in Kinds : call'[o][h] = call[o][h] \/ call'[o][h].at # "answered"
      BY <1>3 DEF SignIn, Sent
    <2>2. QED
      BY <1>3, <1>c, <2>1, <2>a, TypeFrame DEF SignIn, provider, TypeOK, TypeInv, Steady
  <1>4. CASE Renew(t) \/ SignOut(t)
    <2>1. call' \in [Tabs -> [Kinds -> Call]]
      BY <1>4, Cookies, CallPut DEF Renew, SignOut
    <2>a. \A u \in Tabs, h \in Kinds : call'[u][h] = call[u][h] \/ call'[u][h].at # "answered"
      <3>1. CASE Renew(t)
        BY <3>1 DEF Renew, Sent
      <3>2. CASE SignOut(t)
        BY <3>2 DEF SignOut, Sent
      <3>3. QED
        BY <1>4, <3>1, <3>2
    <2>2. tab' = [tab EXCEPT ![t].timer = FALSE]
      BY <1>4 DEF Renew, SignOut
    <2>3. tab' \in [Tabs -> Pages] /\ \A u \in Tabs : Coherent(tab'[u])
      BY <2>2 DEF Pages, Coherent
    <2>4. QED
      BY <1>4, <1>c, <2>1, <2>a, <2>3, TypeFrame DEF Renew, SignOut, provider, TypeOK, TypeInv, Steady
  <1>5. CASE Expire(t)
    <2>1. tab' \in [Tabs -> Pages] /\ \A u \in Tabs : Coherent(tab'[u])
      BY <1>5, PageForms DEF Expire
    <2>2. QED
      BY <1>5, <2>1, TypeFrame DEF Expire, provider, TypeOK, TypeInv, Steady
  <1>6. CASE StartOAuth(t)
    BY <1>6, TypeStartOAuth
  <1>7. QED
    BY <1>1, <1>2, <1>3, <1>4, <1>5, <1>6, Cookies DEF Visit, OpenLink, Return

\* One token more, of the session it continues or of a new one.
LEMMA IssueAdds ==
    ASSUME TypeInv, NEW c \in Credential, Issue(c)
    PROVE  /\ Len(issued) + 1 \in Tokens' /\ Len(issued) + 1 \notin Tokens
           /\ Tokens' = Tokens \cup {Len(issued) + 1}
           /\ \A n \in Tokens : issued'[n] = issued[n]
           /\ issued'[Len(issued) + 1] = NewToken(c)
           /\ issued' \in Seq(Token) /\ Len(issued') <= MaxGrants
           /\ NewToken(c).session \in Tokens'
  <1>1. /\ issued \in Seq(Token) /\ Len(issued) \in Nat /\ Tokens = 1 .. Len(issued)
        /\ MaxGrants \in Nat /\ Len(issued) < MaxGrants
        /\ issued' = Append(issued, NewToken(c))
    BY TokenRange, BoundsAssumption DEF TypeInv, TypeOK, Issue
  <1>2. NewToken(c) \in Token /\ NewToken(c).session \in 1 .. Len(issued) + 1
    <2>1. CASE c.by = "cookie"
      <3>1. c.token \in Tokens
        BY <2>1 DEF Issue, Accepts, TypeInv, TypeOK
      <3>2. issued[c.token] \in Token /\ issued[c.token].session \in Tokens
        BY <1>1, <3>1 DEF TypeInv
      <3>3. issued[c.token].session \in 1 .. Len(issued) + 1
        BY <1>1, <3>2
      <3>4. QED
        BY <2>1, <3>2, <3>3 DEF NewToken
    <2>2. CASE c.by # "cookie"
      <3>1. c.user \in Users
        BY <2>2 DEF Credential
      <3>2. Len(issued) + 1 \in 1 .. MaxGrants /\ Len(issued) + 1 \in 1 .. Len(issued) + 1
        BY <1>1
      <3>3. NewToken(c) = [user |-> c.user, session |-> Len(issued) + 1]
        BY <2>2 DEF NewToken
      <3>4. QED
        BY <3>1, <3>2, <3>3 DEF Token
    <2>3. QED
      BY <2>1, <2>2
  <1>3. issued' \in Seq(Token) /\ Len(issued') = Len(issued) + 1
    BY <1>1, <1>2
  <1>4. Tokens' = 1 .. Len(issued) + 1
    BY <1>3 DEF Tokens
  <1>5. /\ \A n \in 1 .. Len(issued) : issued'[n] = issued[n]
        /\ issued'[Len(issued) + 1] = NewToken(c)
    BY <1>1, <1>2
  <1>6. QED
    BY <1>1, <1>2, <1>3, <1>4, <1>5

\* A call that brings no token back, at least not yet.
Tokenless(k, d) == d.at # "answered" \/ k = "sign out" \/ d.status # 200

LEMMA TypeIssue ==
    ASSUME TypeInv, NEW t \in Tabs, NEW k \in Kinds, NEW c \in Credential, Issue(c),
           NEW d, d \in Call', call' = [call EXCEPT ![t][k] = d],
           Tokenless(k, d),
           UNCHANGED <<jar, tab, due, turned>>, calm' \in BOOLEAN
    PROVE  TypeInv'
  <1> DEFINE new == Len(issued) + 1
  <1>1. /\ new \in Tokens' /\ Tokens' = Tokens \cup {new}
        /\ \A n \in Tokens : issued'[n] = issued[n]
        /\ issued'[new] = NewToken(c)
        /\ issued' \in Seq(Token) /\ Len(issued') <= MaxGrants
        /\ NewToken(c).session \in Tokens'
    BY IssueAdds
  <1>2. flows' = flows /\ flows \in Nat
    <2>1. flows' = flows
      BY DEF Issue
    <2>2. flows \in Nat
      BY BoundsAssumption DEF TypeInv, TypeOK
    <2>3. QED
      BY <2>1, <2>2
  <1>3. Pages \subseteq Pages' /\ Call \subseteq Call'
    <2>1. Tokens \subseteq Tokens'
      BY <1>1
    <2>2. flows' \in Nat /\ flows <= flows'
      BY <1>2
    <2>3. QED
      BY <1>2, <2>1, <2>2, MoreTypes
  <1>6. call' \in [Tabs -> [Kinds -> Call']]
    <2>1. call \in [Tabs -> [Kinds -> Call']]
      BY <1>3 DEF TypeInv, TypeOK
    <2>2. QED
      BY <2>1
  <1>7. tab' \in [Tabs -> Pages'] /\ \A u \in Tabs : Coherent(tab'[u])
    BY <1>3 DEF TypeInv, TypeOK
  <1>8. live' \subseteq Tokens' /\ ended' \subseteq Tokens' /\ links' \subseteq Users
    BY <1>1 DEF Issue, TypeInv, TypeOK
  <1>9. \A n \in Tokens' : issued'[n].session \in Tokens'
    BY <1>1 DEF TypeInv
  <1>10. \A u \in Tabs, h \in Kinds : Handed(h, call[u][h])'
    <2>1. \A u \in Tabs, h \in Kinds :
             call'[u][h] = call[u][h] \/ (u = t /\ h = k /\ call'[u][h] = d)
      BY DEF TypeInv, TypeOK
    <2>2. \A u \in Tabs, h \in Kinds : Handed(h, call[u][h])
      BY DEF TypeInv
    <2>3. ASSUME NEW u \in Tabs, NEW h \in Kinds,
                 call'[u][h].at = "answered", call'[u][h].status = 200, h # "sign out"
          PROVE  call'[u][h].token \in Tokens'
      <3>1. call'[u][h] = call[u][h]
        <4>1. ~(u = t /\ h = k /\ call'[u][h] = d)
          BY <2>3, Zenon DEF Tokenless
        <4>2. QED
          BY <2>1, <4>1
      <3>2. call[u][h].at = "answered" /\ call[u][h].status = 200 /\ Handed(h, call[u][h])
        BY <2>2, <2>3, <3>1, Zenon
      <3>c. call[u][h].token \in Tokens
        BY <2>3, <3>2, Zenon DEF Handed
      <3>d. Tokens \subseteq Tokens'
        BY <1>1
      <3>3. QED
        BY <3>1, <3>c, <3>d
    <2>4. QED
      BY <2>3, HandedNext, Zenon
  <1>11. QED
    BY <1>1, <1>2, <1>6, <1>7, <1>8, <1>9, <1>10 DEF TypeInv, TypeOK

LEMMA TypeGrant ==
    ASSUME TypeInv, NEW t \in Tabs, NEW k \in Kinds, NEW c \in Credential, Grant(t, k, c),
           UNCHANGED <<jar, tab, due, turned>>
    PROVE  TypeInv'
  <1> DEFINE d == Granted(ByCode(c), Len(issued) + 1)
  <1>1. Issue(c) /\ call' = [call EXCEPT ![t][k] = d] /\ calm' \in BOOLEAN
    BY DEF Grant, TypeInv, TypeOK
  <1>2. Len(issued) + 1 \in Tokens' /\ ByCode(c) \in BOOLEAN
    BY <1>1, IssueAdds DEF ByCode
  <1>3. d \in Call' /\ Tokenless(k, d)
    BY <1>2 DEF Granted, Call, Tokenless
  <1>4. QED
    BY <1>1, <1>3, TypeIssue

LEMMA TypeAnswer ==
    ASSUME TypeInv, Steady, NEW t \in Tabs, NEW k \in Kinds, NEW p \in BOOLEAN,
           NEW s \in Statuses, NEW n \in Tokens \cup None, Answer(t, k, p, s, n),
           k = "sign out" \/ s # 200 \/ n \in Tokens,
           live' \subseteq Tokens, ended' \subseteq Tokens,
           UNCHANGED <<links, jar, tab, due, turned, calm>>
    PROVE  TypeInv'
  <1>1. TypeOK /\ call \in [Tabs -> [Kinds -> Call]]
    BY DEF TypeInv, TypeOK
  <1>2. Answered(p, s, n) \in Call
    BY CallForms
  <1>3. call' \in [Tabs -> [Kinds -> Call]]
    BY <1>1, <1>2 DEF Answer
  <1>4. Handed(k, Answered(p, s, n))
    BY DEF Handed, Answered
  <1>5. \A u \in Tabs, h \in Kinds : call'[u][h] = call[u][h] \/ Handed(h, call'[u][h])
    BY <1>1, <1>4 DEF Answer
  <1>6. QED
    BY <1>1, <1>3, <1>5, TypeFrame DEF TypeOK

\* The statuses of an answer without a session.
Failures(k) == IF k = "sign out" THEN Statuses ELSE Statuses \ {200}

LEMMA FailuresShape ==
    ASSUME NEW k, NEW s \in Failures(k)
    PROVE  s \in Statuses /\ (k = "sign out" \/ s # 200)
  BY Zenon DEF Failures

LEMMA RefreshFails ==
    \A k : \A s \in Failures(k) : k \in Refreshes => s # 200
  BY DEF Failures, Refreshes

LEMMA StatusFails ==
    ASSUME NEW k, NEW x \in {401, 500, 503}
    PROVE  Status(k, x) \in Failures(k)
  <1>1. x \in Statuses /\ x # 200 /\ 200 \in Statuses
    BY DEF Statuses
  <1>2. CASE k = "sign out"
    <2>1. Status(k, x) \in Statuses
      BY <1>1 DEF Status
    <2>2. Failures(k) = Statuses
      BY <1>2 DEF Failures
    <2>3. QED
      BY <2>1, <2>2
  <1>3. CASE k # "sign out"
    <2>1. Status(k, x) = x
      BY <1>3, Zenon DEF Status
    <2>2. Failures(k) = Statuses \ {200}
      BY <1>3 DEF Failures
    <2>3. QED
      BY <1>1, <2>1, <2>2
  <1>4. QED
    BY <1>2, <1>3

LEMMA FailedAnswers ==
    ASSUME NEW t, NEW k, NEW c, Failed(t, k, c)
    PROVE  \E s \in Failures(k) : Answer(t, k, ByCode(c), s, 0)
  <1>1. PICK x \in {401, 500, 503} : Answer(t, k, ByCode(c), Status(k, x), 0)
    BY DEF Failed
  <1>2. Status(k, x) \in Failures(k)
    BY StatusFails
  <1>3. QED
    BY <1>1, <1>2, Zenon

LEMMA TypeRefuse ==
    ASSUME TypeInv, Steady, NEW t \in Tabs, NEW k \in Kinds, NEW p \in BOOLEAN,
           NEW s \in Failures(k), Answer(t, k, p, s, 0),
           live' \subseteq Tokens, ended' \subseteq Tokens,
           UNCHANGED <<links, jar, tab, due, turned, calm>>
    PROVE  TypeInv'
  <1>1. s \in Statuses /\ (k = "sign out" \/ s # 200)
    BY FailuresShape, Zenon
  <1>2. 0 \in Tokens \cup None
    BY DEF None
  <1>3. QED
    BY <1>1, <1>2, TypeAnswer

LEMMA TypeUnheard ==
    ASSUME TypeInv, NEW t \in Tabs, NEW k \in Kinds, NEW c \in Credential, Unheard(t, k, c),
           UNCHANGED <<jar, tab, due, turned>>
    PROVE  TypeInv'
  <1>1. PICK s \in Failures(k) : Answer(t, k, ByCode(c), s, 0)
    BY FailedAnswers, Zenon DEF Unheard
  <1> DEFINE d == Answered(ByCode(c), s, 0)
  <1>2. d \in Call /\ Tokenless(k, d)
    <2>1. ByCode(c) \in BOOLEAN /\ 0 \in Tokens \cup None
      BY DEF ByCode, None
    <2>2. s \in Statuses /\ (k = "sign out" \/ s # 200)
      BY FailuresShape, Zenon
    <2>3. d.status = s
      BY DEF Answered
    <2>4. Tokenless(k, d)
      BY <2>2, <2>3, Zenon DEF Tokenless
    <2>5. QED
      BY <2>1, <2>2, <2>4, CallForms
  <1>3. Issue(c) /\ call' = [call EXCEPT ![t][k] = d] /\ calm' \in BOOLEAN
    <2>1. Issue(c) /\ calm' \in BOOLEAN
      BY DEF Unheard
    <2>2. call' = [call EXCEPT ![t][k] = d]
      BY <1>1 DEF Answer
    <2>3. QED
      BY <2>1, <2>2
  <1>4. Call \subseteq Call'
    <2>1. Tokens \subseteq Tokens'
      BY <1>3, IssueAdds
    <2>2. flows \in Nat
      BY BoundsAssumption DEF TypeInv, TypeOK
    <2>3. flows' = flows
      BY <1>3 DEF Issue
    <2>4. QED
      BY <2>1, <2>2, <2>3, MoreTypes
  <1>5. d \in Call' /\ Tokenless(k, d)
    BY <1>2, <1>4
  <1>6. QED
    BY <1>3, <1>5, TypeIssue

LEMMA TypeExchange ==
    ASSUME TypeInv, NEW t \in Tabs, NEW k \in Kinds, Exchange(t, k)
    PROVE  TypeInv'
  <1> DEFINE c == call[t][k].with
  <1>1. c \in Credential /\ UNCHANGED <<jar, tab, due, turned>>
    BY CallShape DEF Exchange, TypeInv
  <1>2. CASE Grant(t, k, c)
    BY <1>1, <1>2, TypeGrant
  <1>3. CASE Unheard(t, k, c)
    BY <1>1, <1>3, TypeUnheard
  <1>4. CASE Refuse(t, k, c)
    <2>1. ByCode(c) \in BOOLEAN
      BY DEF ByCode
    <2>2. PICK s \in Failures(k) : Answer(t, k, ByCode(c), s, 0)
      BY <1>4, FailedAnswers, Zenon DEF Refuse
    <2>3. /\ Steady /\ UNCHANGED <<links, jar, tab, due, turned, calm>>
          /\ live' \subseteq Tokens /\ ended' \subseteq Tokens
      BY <1>1, <1>4 DEF Refuse, provider, Steady, TypeInv, TypeOK
    <2>4. QED
      BY <2>1, <2>2, <2>3, TypeRefuse
  <1>5. QED
    BY <1>2, <1>3, <1>4 DEF Exchange

LEMMA TypeMirror ==
    ASSUME TypeInv, NEW t \in Tabs, NEW k \in Kinds, Mirror(t, k)
    PROVE  TypeInv'
  <1>1. call[t][k].at = "granted"
    BY DEF Mirror
  <1>2. call[t][k].pkce \in BOOLEAN /\ call[t][k].token \in Tokens
    BY <1>1, CallShape DEF TypeInv
  <1>3. /\ Steady /\ UNCHANGED <<links, jar, tab, due, turned, calm>>
        /\ live' \subseteq Tokens /\ ended' \subseteq Tokens
    BY DEF Mirror, provider, Steady, TypeInv, TypeOK
  <1>4. CASE Answer(t, k, call[t][k].pkce, 200, call[t][k].token)
    <2>1. PICK x \in Statuses : Answer(t, k, call[t][k].pkce, x, call[t][k].token)
      BY <1>4 DEF Statuses
    <2>2. QED
      BY <1>2, <1>3, <2>1, TypeAnswer
  <1>5. CASE Answer(t, k, call[t][k].pkce, 500, 0)
    <2>1. PICK x \in Statuses : x # 200 /\ Answer(t, k, call[t][k].pkce, x, 0)
      BY <1>5 DEF Statuses
    <2>2. QED
      BY <1>2, <1>3, <2>1, TypeAnswer DEF None
  <1>6. QED
    BY <1>4, <1>5 DEF Mirror

LEMMA TypeRevoke ==
    ASSUME TypeInv, NEW t \in Tabs, Revoke(t)
    PROVE  TypeInv'
  <1>1. "sign out" \in Kinds /\ 0 \in Tokens \cup None /\ 200 \in Statuses /\ FALSE \in BOOLEAN
    BY DEF Kinds, None, Statuses
  <1>2. call[t]["sign out"].token \in Tokens
    BY <1>1, CallShape DEF Revoke, TypeInv
  <1>3. issued[call[t]["sign out"].token].session \in Tokens
    BY <1>2 DEF TypeInv
  <1>4. /\ Steady /\ UNCHANGED <<links, jar, tab, due, turned, calm>>
        /\ live' \subseteq Tokens /\ ended' \subseteq Tokens
    BY <1>3 DEF Revoke, End, Steady, TypeInv, TypeOK
  <1>5. QED
    BY <1>1, <1>4, TypeAnswer DEF Revoke

LEMMA TypeAfter ==
    ASSUME TypeOK, NEW t \in Tabs, NEW k \in Kinds, NEW s \in Statuses \cup {Lost},
           NEW n \in Tokens \cup None, k = "sign out" \/ s # 200 \/ n \in Tokens
    PROVE  After(tab[t], k, s, n) \in Pages /\ Coherent(After(tab[t], k, s, n))
  <1>1. tab[t] \in Pages /\ Coherent(tab[t])
    BY DEF TypeOK
  <1>2. LeaveLoading(tab[t]) \in Pages /\ Coherent(LeaveLoading(tab[t]))
    BY <1>1 DEF LeaveLoading, Pages, Coherent
  <1>3. QED
    BY <1>1, <1>2, PageForms DEF After, Kinds

LEMMA TypeReceive ==
    ASSUME TypeInv, NEW t \in Tabs, NEW k \in Kinds, Receive(t, k)
    PROVE  TypeInv'
  <1> DEFINE a == call[t][k]
  <1>1. a.at = "answered" /\ TypeOK /\ Handed(k, a)
    BY DEF Receive, TypeInv
  <1>2. a.pkce \in BOOLEAN /\ a.status \in Statuses /\ a.token \in Tokens \cup None
    BY <1>1, CallShape
  <1>3. k = "sign out" \/ a.status # 200 \/ a.token \in Tokens
    BY <1>1 DEF Handed
  <1>4. jar' \in [refresh : Tokens \cup None, pkce : 0 .. flows]
    <2>1. jar.refresh \in Tokens \cup None /\ jar.pkce \in 0 .. flows /\ 0 \in 0 .. flows
      BY <1>1 DEF TypeOK
    <2>2. RefreshCookie(k, a) \in Tokens \cup None
      BY <1>2, <1>3, <2>1 DEF RefreshCookie, None
    <2>3. PkceCookie(a) \in 0 .. flows
      BY <2>1 DEF PkceCookie
    <2>4. QED
      BY <2>2, <2>3 DEF Receive
  <1>5. tab' \in [Tabs -> Pages] /\ \A u \in Tabs : Coherent(tab'[u])
    <2>1. After(tab[t], k, a.status, a.token) \in Pages
          /\ Coherent(After(tab[t], k, a.status, a.token))
      BY <1>1, <1>2, <1>3, TypeAfter
    <2>2. QED
      BY <1>1, <2>1 DEF Receive, TypeOK
  <1>6. call' \in [Tabs -> [Kinds -> Call]]
        /\ \A u \in Tabs, h \in Kinds : call'[u][h] = call[u][h] \/ call'[u][h].at # "answered"
    BY <1>1, CallForms DEF Receive, TypeOK, Idle
  <1>7. due' \in Tokens \cup None
    <2>1. SignsIn(k, a) => issued[a.token].session \in Tokens
      BY <1>3 DEF SignsIn, TypeInv
    <2>2. QED
      BY <1>1, <2>1 DEF Receive, TypeOK, None
  <1>8. turned' \in BOOLEAN /\ calm' \in BOOLEAN
    BY <1>1 DEF Receive, TypeOK
  <1>9. Steady /\ live' \subseteq Tokens /\ ended' \subseteq Tokens /\ links' \subseteq Users
    BY <1>1 DEF Receive, provider, Steady, TypeOK
  <1>10. QED
    BY <1>4, <1>5, <1>6, <1>7, <1>8, <1>9, TypeFrame

LEMMA TypeLose ==
    ASSUME TypeInv, NEW t \in Tabs, NEW k \in Kinds, Lose(t, k)
    PROVE  TypeInv'
  <1>1. TypeOK
    BY DEF TypeInv
  <1>2. tab' \in [Tabs -> Pages] /\ \A u \in Tabs : Coherent(tab'[u])
    <2>1. Lost \in Statuses \cup {Lost} /\ Lost # 200 /\ 0 \in Tokens \cup None
      BY DEF Lost, None
    <2>2. After(tab[t], k, Lost, 0) \in Pages /\ Coherent(After(tab[t], k, Lost, 0))
      BY <1>1, <2>1, TypeAfter
    <2>3. QED
      BY <1>1, <2>2 DEF Lose, TypeOK
  <1>3. call' \in [Tabs -> [Kinds -> Call]]
        /\ \A u \in Tabs, h \in Kinds : call'[u][h] = call[u][h] \/ call'[u][h].at # "answered"
    BY <1>1, CallForms DEF Lose, TypeOK, Idle
  <1>4. calm' \in BOOLEAN
    BY <1>1 DEF Lose, TypeOK
  <1>5. QED
    BY <1>1, <1>2, <1>3, <1>4, TypeFrame DEF Lose, provider, Steady, TypeOK

LEMMA TypeProvider ==
    ASSUME TypeInv,
           \/ \E u \in Users : Mail(u) \/ Remove(u)
           \/ ExpirePkce
    PROVE  TypeInv'
  <1>1. TypeOK
    BY DEF TypeInv
  <1>2. ASSUME NEW u \in Users, Mail(u) PROVE TypeInv'
    BY <1>1, <1>2, TypeFrame DEF Mail, Steady, TypeOK
  <1>3. ASSUME NEW u \in Users, Remove(u) PROVE TypeInv'
    <2>1. live' \subseteq Tokens /\ ended' \subseteq Tokens
      BY <1>1, <1>3 DEF Remove, End, TypeInv, TypeOK, Tokens
    <2>2. QED
      BY <1>1, <1>3, <2>1, TypeFrame DEF Remove, Steady, TypeOK
  <1>4. CASE ExpirePkce
    <2>1. jar \in [refresh : Tokens \cup None, pkce : 0 .. flows] /\ 0 \in 0 .. flows
      BY <1>1 DEF TypeOK
    <2>2. jar' \in [refresh : Tokens \cup None, pkce : 0 .. flows]
      BY <1>4, <2>1 DEF ExpirePkce
    <2>3. QED
      BY <1>1, <1>4, <2>2, TypeFrame DEF ExpirePkce, provider, Steady, TypeOK
  <1>5. QED
    BY <1>2, <1>3, <1>4

LEMMA TypeStep == TypeInv /\ [Next]_vars => TypeInv'
  <1> SUFFICES ASSUME TypeInv, [Next]_vars PROVE TypeInv'
    OBVIOUS
  <1>1. CASE UNCHANGED vars
    <2>1. TypeOK /\ Tokens' = Tokens /\ Pages' = Pages /\ Call' = Call
      BY <1>1, SameTypes DEF vars, Steady, TypeInv
    <2>2. QED
      BY <1>1, <2>1, TypeFrame DEF vars, Steady, TypeInv, TypeOK
  <1>2. ASSUME NEW t \in Tabs, Visit(t) PROVE TypeInv'
    BY <1>2, TypeVisit
  <1>3. ASSUME NEW t \in Tabs, NEW k \in Kinds, Settle(t, k) PROVE TypeInv'
    BY <1>3, TypeExchange, TypeMirror, TypeRevoke, TypeReceive DEF Settle
  <1>4. ASSUME NEW t \in Tabs, NEW k \in Kinds, Lose(t, k) PROVE TypeInv'
    BY <1>4, TypeLose
  <1>5. QED
    BY <1>1, <1>2, <1>3, <1>4, TypeProvider DEF Next

\* Whatever calls overlap or are lost, a page is authenticated exactly when it
\* holds a token, one that was issued (AuthContext.tsx, services/auth.ts).
THEOREM TypeCorrect == Spec => []TypeOK
  <1>1. TypeInv => TypeOK
    BY DEF TypeInv
  <1>2. QED
    BY TypeInit, TypeStep, <1>1, PTL DEF Spec

-----------------------------------------------------------------------------
(* What a call carries back: a token that nobody has seen yet.              *)

Carries(k, c, n) ==
    /\ c.at = "granted" \/ (c.at = "answered" /\ c.status = 200 /\ k # "sign out")
    /\ c.token = n
Presents(c, n) == c.at = "sent" /\ c.with.by = "cookie" /\ c.with.token = n

\* It is live unless its session has ended; it is neither in the jar nor
\* presented by a call, and no other call carries it.
CarriedInv ==
    \A t \in Tabs, k \in Kinds, n \in Tokens : Carries(k, call[t][k], n) =>
        /\ n \in live \/ issued[n].session \in ended
        /\ jar.refresh # n
        /\ \A u \in Tabs, h \in Kinds :
             ~Presents(call[u][h], n) /\ (Carries(h, call[u][h], n) => u = t /\ h = k)

LEMMA CarriedInit == Init => CarriedInv
  BY DEF Init, CarriedInv, Tokens

\* What an action has to show that issues no token: it takes no live token
\* without ending its session, puts none in a call, and fills the jar only
\* with a token that is then carried no more.
LEMMA CarriedFrame ==
    ASSUME CarriedInv, issued' = issued, ended \subseteq ended',
           \A n \in live : n \in live' \/ issued[n].session \in ended',
           \A t \in Tabs, k \in Kinds, n \in Tokens :
              /\ Carries(k, call'[t][k], n) => Carries(k, call[t][k], n)
              /\ Presents(call'[t][k], n) => Presents(call[t][k], n) \/ n = jar.refresh,
           \/ jar'.refresh = jar.refresh
           \/ jar'.refresh \notin Tokens
           \/ \E t \in Tabs, k \in Kinds :
                 Carries(k, call[t][k], jar'.refresh) /\ ~Carries(k, call'[t][k], jar'.refresh)
    PROVE  CarriedInv'
  <1>1. Tokens' = Tokens
    BY DEF Tokens
  <1>2. ASSUME NEW t \in Tabs, NEW k \in Kinds, NEW n \in Tokens, Carries(k, call'[t][k], n)
        PROVE  /\ n \in live' \/ issued'[n].session \in ended'
               /\ jar'.refresh # n
               /\ \A u \in Tabs, h \in Kinds :
                    ~Presents(call'[u][h], n) /\ (Carries(h, call'[u][h], n) => u = t /\ h = k)
    <2>1. Carries(k, call[t][k], n)
      BY <1>2
    <2>2. /\ n \in live \/ issued[n].session \in ended
          /\ jar.refresh # n
          /\ \A u \in Tabs, h \in Kinds :
               ~Presents(call[u][h], n) /\ (Carries(h, call[u][h], n) => u = t /\ h = k)
      BY <2>1 DEF CarriedInv
    <2>3. n \in live' \/ issued'[n].session \in ended'
      BY <2>2
    <2>4. jar'.refresh # n
      BY <1>2, <2>2
    <2>5. ASSUME NEW u \in Tabs, NEW h \in Kinds
          PROVE  ~Presents(call'[u][h], n) /\ (Carries(h, call'[u][h], n) => u = t /\ h = k)
      BY <2>2
    <2>6. QED
      BY <2>3, <2>4, <2>5
  <1>3. ASSUME NEW t \in Tabs, NEW k \in Kinds, NEW n \in Tokens', Carries(k, call'[t][k], n)
        PROVE  /\ n \in live' \/ issued'[n].session \in ended'
               /\ jar'.refresh # n
               /\ \A u \in Tabs, h \in Kinds :
                    ~Presents(call'[u][h], n) /\ (Carries(h, call'[u][h], n) => u = t /\ h = k)
    BY <1>1, <1>2, <1>3
  <1>4. QED
    BY <1>3, Zenon DEF CarriedInv, Carries, Presents

\* An action that puts one call where another was, and leaves tokens alone.
LEMMA CarriedSend ==
    ASSUME CarriedInv, UNCHANGED <<issued, live, ended>>, jar'.refresh = jar.refresh,
           \A t \in Tabs, k \in Kinds :
             \/ call'[t][k] = call[t][k]
             \/ /\ call'[t][k].at = "sent"
                /\ \A n \in Tokens : Presents(call'[t][k], n) => n = jar.refresh
    PROVE  CarriedInv'
  <1>1. \A t \in Tabs, k \in Kinds, n \in Tokens :
           Carries(k, call'[t][k], n) => Carries(k, call[t][k], n)
    BY DEF Carries
  <1>2. \A t \in Tabs, k \in Kinds, n \in Tokens :
           Presents(call'[t][k], n) => Presents(call[t][k], n) \/ n = jar.refresh
    OBVIOUS
  <1>3. QED
    BY <1>1, <1>2, CarriedFrame

\* An action that ends or refuses a call.
LEMMA CarriedDone ==
    ASSUME CarriedInv, call \in [Tabs -> [Kinds -> Call]],
           NEW t \in Tabs, NEW k \in Kinds, NEW c \in Call,
           call' = [call EXCEPT ![t][k] = c], c.at # "sent", \A n \in Tokens : ~Carries(k, c, n),
           issued' = issued, ended \subseteq ended',
           \A n \in live : n \in live' \/ issued[n].session \in ended',
           \/ jar'.refresh = jar.refresh
           \/ jar'.refresh \notin Tokens
           \/ Carries(k, call[t][k], jar'.refresh)
    PROVE  CarriedInv'
  <1>1. call'[t][k] = c /\ \A u \in Tabs, h \in Kinds : u # t \/ h # k => call'[u][h] = call[u][h]
    BY CallPut
  <1>2. \A u \in Tabs, h \in Kinds, n \in Tokens :
           /\ Carries(h, call'[u][h], n) => Carries(h, call[u][h], n)
           /\ Presents(call'[u][h], n) => Presents(call[u][h], n) \/ n = jar.refresh
    <2>1. ASSUME NEW u \in Tabs, NEW h \in Kinds, NEW n \in Tokens, u = t /\ h = k
          PROVE  ~Carries(h, call'[u][h], n) /\ ~Presents(call'[u][h], n)
      BY <1>1, <2>1 DEF Presents
    <2>2. QED
      BY <1>1, <2>1
  <1>3. \/ jar'.refresh = jar.refresh
        \/ jar'.refresh \notin Tokens
        \/ \E u \in Tabs, h \in Kinds :
              Carries(h, call[u][h], jar'.refresh) /\ ~Carries(h, call'[u][h], jar'.refresh)
    BY <1>1
  <1>4. QED
    BY <1>2, <1>3, CarriedFrame

LEMMA PresentsForms ==
    /\ \A n \in Tokens : Presents(Sent(Cookie(jar.refresh)), n) => n = jar.refresh
    /\ \A u \in Users, n \in Tokens :
         /\ ~Presents(Sent(Password(u)), n) /\ ~Presents(Sent(Link(u)), n)
         /\ \A f, v : ~Presents(Sent(Code(u, f, v)), n)
  BY DEF Presents, Sent, Cookie, Password, Link, Code

LEMMA CarriedVisit ==
    ASSUME TypeInv, CarriedInv, NEW t \in Tabs, Visit(t)
    PROVE  CarriedInv'
  <1>1. call \in [Tabs -> [Kinds -> Call]]
    BY DEF TypeInv, TypeOK
  <1>2. CASE Load(t) \/ Renew(t) \/ SignOut(t)
    <2>1. PICK k \in Kinds : call' = [call EXCEPT ![t][k] = Sent(Cookie(jar.refresh))]
      BY <1>2 DEF Load, Renew, SignOut, Kinds
    <2>2. \A u \in Tabs, h \in Kinds :
             call'[u][h] = call[u][h] \/ call'[u][h] = Sent(Cookie(jar.refresh))
      BY <1>1, <2>1
    <2>3. UNCHANGED <<issued, live, ended, jar>>
      BY <1>2 DEF Load, Renew, SignOut, provider
    <2>4. Sent(Cookie(jar.refresh)).at = "sent"
      BY DEF Sent
    <2>5. QED
      BY <2>2, <2>3, <2>4, PresentsForms, CarriedSend
  <1>3. ASSUME NEW c, \A n \in Tokens : ~Presents(Sent(c), n), LoadSigningIn(t, c)
        PROVE  CarriedInv'
    <2>1. \A u \in Tabs, h \in Kinds :
             call'[u][h] = call[u][h] \/ call'[u][h] = Sent(Cookie(jar.refresh)) \/ call'[u][h] = Sent(c)
      BY <1>1, <1>3 DEF LoadSigningIn
    <2>2. UNCHANGED <<issued, live, ended, jar>>
      BY <1>3 DEF LoadSigningIn, provider
    <2>3. Sent(Cookie(jar.refresh)).at = "sent" /\ Sent(c).at = "sent"
      BY DEF Sent
    <2>4. QED
      BY <1>3, <2>1, <2>2, <2>3, PresentsForms, CarriedSend
  <1>4. ASSUME NEW u \in Users, SignIn(t, u)
        PROVE  CarriedInv'
    <2>1. \A v \in Tabs, h \in Kinds :
             call'[v][h] = call[v][h] \/ call'[v][h] = Sent(Password(u))
      BY <1>1, <1>4 DEF SignIn
    <2>2. UNCHANGED <<issued, live, ended, jar>>
      BY <1>4 DEF SignIn, provider
    <2>3. Sent(Password(u)).at = "sent"
      BY DEF Sent
    <2>4. QED
      BY <2>1, <2>2, <2>3, PresentsForms, CarriedSend
  <1>5. CASE Expire(t) \/ StartOAuth(t)
    <2>1. UNCHANGED <<issued, live, ended, call>>
      BY <1>5 DEF Expire, StartOAuth, provider
    <2>2. jar'.refresh = jar.refresh
      BY <1>5 DEF Expire, StartOAuth, TypeInv, TypeOK
    <2>3. QED
      BY <2>1, <2>2, CarriedSend
  <1>6. ASSUME NEW u \in Users, OpenLink(t, u) PROVE CarriedInv'
    BY <1>3, <1>6, PresentsForms DEF OpenLink
  <1>7. ASSUME NEW u \in Users, Return(t, u) PROVE CarriedInv'
    BY <1>3, <1>7, PresentsForms DEF Return
  <1>8. QED
    BY <1>2, <1>4, <1>5, <1>6, <1>7 DEF Visit

LEMMA CarriedAnswer ==
    ASSUME TypeInv, CarriedInv, NEW t \in Tabs, NEW k \in Kinds,
           NEW p \in BOOLEAN, NEW s \in Statuses, Answer(t, k, p, s, 0),
           UNCHANGED <<issued, jar>>, ended \subseteq ended',
           \A n \in live : n \in live' \/ issued[n].session \in ended'
    PROVE  CarriedInv'
  <1>1. call \in [Tabs -> [Kinds -> Call]] /\ 0 \notin Tokens
    BY TokenRange DEF TypeInv, TypeOK
  <1>2. Answered(p, s, 0) \in Call /\ Answered(p, s, 0).at # "sent"
    <2>1. 0 \in Tokens \cup None
      BY DEF None
    <2>2. Answered(p, s, 0) \in Call
      BY <2>1, CallForms, Zenon
    <2>3. Answered(p, s, 0).at # "sent"
      BY DEF Answered
    <2>4. QED
      BY <2>2, <2>3
  <1>3. ASSUME NEW n \in Tokens PROVE ~Carries(k, Answered(p, s, 0), n)
    <2>1. Answered(p, s, 0).token = 0
      BY DEF Answered
    <2>2. QED
      BY <1>1, <2>1, Zenon DEF Carries
  <1>4. call' = [call EXCEPT ![t][k] = Answered(p, s, 0)]
    BY DEF Answer
  <1>5. QED
    BY <1>1, <1>2, <1>3, <1>4, CarriedDone

\* The token that is issued is nowhere yet; the one it is spent on was
\* presented, and so no call carries it.
LEMMA CarriedIssue ==
    ASSUME TypeInv, CarriedInv, NEW t \in Tabs, NEW k \in Kinds, NEW c \in Credential,
           call[t][k].at = "sent", call[t][k].with = c, Issue(c),
           NEW d, call' = [call EXCEPT ![t][k] = d], d.at # "sent",
           \A n : Carries(k, d, n) => n = Len(issued) + 1,
           UNCHANGED jar
    PROVE  CarriedInv'
  <1>1. PICK new \in Tokens' :
           /\ new = Len(issued) + 1 /\ new \notin Tokens /\ Tokens' = Tokens \cup {new}
           /\ \A n \in Tokens : issued'[n] = issued[n]
    BY IssueAdds
  <1>2. live' = (live \ Spent(c)) \cup {new} /\ ended' = ended
    BY <1>1 DEF Issue
  <1>3. /\ call'[t][k] = d
        /\ \A u \in Tabs, h \in Kinds : u # t \/ h # k => call'[u][h] = call[u][h]
    BY DEF TypeInv, TypeOK
  <1>4. \A n : (Carries(k, call'[t][k], n) => n = new) /\ ~Presents(call'[t][k], n)
    BY <1>1, <1>3 DEF Presents
  <1>5. \A u \in Tabs, h \in Kinds : ~Presents(call[u][h], new) /\ ~Carries(h, call[u][h], new)
    <2>1. ASSUME NEW u \in Tabs, NEW h \in Kinds, Presents(call[u][h], new)
          PROVE  FALSE
      <3>1. call[u][h].with \in Credential /\ call[u][h].with.by = "cookie"
            /\ call[u][h].with.token = new
        BY <2>1, CallShape DEF Presents, TypeInv
      <3>2. call[u][h].with.token \in Tokens \cup None
        BY <3>1 DEF Credential
      <3>3. new # 0
        BY <1>1, TokenRange DEF TypeInv
      <3>4. QED
        BY <1>1, <3>1, <3>2, <3>3 DEF None
    <2>2. ASSUME NEW u \in Tabs, NEW h \in Kinds, Carries(h, call[u][h], new)
          PROVE  FALSE
      <3>1. call[u][h].token \in Tokens
        BY <2>2, CallShape DEF Carries, Handed, TypeInv
      <3>2. call[u][h].token = new
        BY <2>2 DEF Carries
      <3>3. QED
        BY <1>1, <3>1, <3>2
    <2>3. QED
      BY <2>1, <2>2
  <1>6. ASSUME NEW u \in Tabs, NEW h \in Kinds, NEW n \in Tokens', Carries(h, call'[u][h], n)
        PROVE  /\ n \in live' \/ issued'[n].session \in ended'
               /\ jar'.refresh # n
               /\ \A v \in Tabs, g \in Kinds :
                    ~Presents(call'[v][g], n) /\ (Carries(g, call'[v][g], n) => v = u /\ g = h)
    <2>1. CASE n = new
      <3>1. jar.refresh # new
        BY <1>1, TokenRange DEF TypeInv, TypeOK, None
      <3>2. \A v \in Tabs, g \in Kinds : v # t \/ g # k =>
              ~Presents(call'[v][g], n) /\ ~Carries(g, call'[v][g], n)
        BY <1>3, <1>5, <2>1
      <3>3. u = t /\ h = k
        BY <1>6, <3>2
      <3>4. QED
        BY <1>2, <1>4, <2>1, <3>1, <3>2, <3>3
    <2>2. CASE n \in Tokens
      <3>1. ~Carries(k, call'[t][k], n)
        BY <1>1, <1>4, <2>2
      <3>2. (u # t \/ h # k) /\ call'[u][h] = call[u][h]
        BY <1>3, <1>6, <3>1
      <3>3. /\ n \in live \/ issued[n].session \in ended
            /\ jar.refresh # n
            /\ \A v \in Tabs, g \in Kinds :
                 ~Presents(call[v][g], n) /\ (Carries(g, call[v][g], n) => v = u /\ g = h)
        BY <1>6, <2>2, <3>2 DEF CarriedInv
      <3>4. n \notin Spent(c)
        BY <3>3 DEF Spent, Presents
      <3>5. \A v \in Tabs, g \in Kinds :
              ~Presents(call'[v][g], n) /\ (Carries(g, call'[v][g], n) => v = u /\ g = h)
        BY <1>3, <1>4, <3>1, <3>3
      <3>6. QED
        BY <1>1, <1>2, <2>2, <3>3, <3>4, <3>5
    <2>3. QED
      BY <1>1, <2>1, <2>2
  <1>7. QED
    BY <1>6, Zenon DEF CarriedInv, Carries, Presents

LEMMA CarriedExchange ==
    ASSUME TypeInv, CarriedInv, NEW t \in Tabs, NEW k \in Kinds, Exchange(t, k)
    PROVE  CarriedInv'
  <1>1. PICK c \in Credential :
           /\ call[t][k].at = "sent" /\ call[t][k].with = c
           /\ Refuse(t, k, c) \/ Unheard(t, k, c) \/ Grant(t, k, c)
           /\ UNCHANGED jar
    BY CallShape DEF Exchange, TypeInv
  <1>2. CASE Grant(t, k, c)
    <2> DEFINE d == Granted(ByCode(c), Len(issued) + 1)
    <2>1. Issue(c) /\ call' = [call EXCEPT ![t][k] = d]
      BY <1>2 DEF Grant
    <2>2. d.at # "sent" /\ \A n : Carries(k, d, n) => n = Len(issued) + 1
      BY DEF Granted, Carries
    <2>3. QED
      BY <1>1, <2>1, <2>2, CarriedIssue
  <1>3. CASE Refuse(t, k, c) \/ Unheard(t, k, c)
    <2>1. PICK s \in Failures(k) : Answer(t, k, ByCode(c), s, 0)
      BY <1>3, FailedAnswers, Zenon DEF Refuse, Unheard
    <2>a. s \in Statuses /\ (k = "sign out" \/ s # 200)
      BY FailuresShape, Zenon
    <2>2. CASE Refuse(t, k, c)
      <3>1. ByCode(c) \in BOOLEAN /\ UNCHANGED <<issued, live, ended>>
        BY <2>2 DEF ByCode, Refuse, provider
      <3>2. QED
        BY <1>1, <2>1, <2>a, <3>1, CarriedAnswer
    <2>3. CASE Unheard(t, k, c)
      <3> DEFINE d == Answered(ByCode(c), s, 0)
      <3>1. Issue(c) /\ call' = [call EXCEPT ![t][k] = d]
        BY <2>1, <2>3 DEF Unheard, Answer
      <3>2. d.at = "answered" /\ d.status = s
        BY DEF Answered
      <3>3. d.at # "sent" /\ \A n : Carries(k, d, n) => n = Len(issued) + 1
        BY <2>a, <3>2, Zenon DEF Carries
      <3>4. QED
        BY <1>1, <3>1, <3>3, CarriedIssue
    <2>4. QED
      BY <1>3, <2>2, <2>3
  <1>4. QED
    BY <1>1, <1>2, <1>3

LEMMA CarriedMirror ==
    ASSUME TypeInv, CarriedInv, NEW t \in Tabs, NEW k \in Kinds, Mirror(t, k)
    PROVE  CarriedInv'
  <1>1. call[t][k].at = "granted" /\ UNCHANGED <<issued, live, ended, jar>>
    BY DEF Mirror, provider
  <1>2. call[t][k].pkce \in BOOLEAN /\ call[t][k].token \in Tokens
    BY <1>1, CallShape DEF TypeInv
  <1>3. CASE \E x \in Statuses : Answer(t, k, call[t][k].pkce, x, call[t][k].token)
    <2>1. PICK x \in Statuses : Answer(t, k, call[t][k].pkce, x, call[t][k].token)
      BY <1>3
    <2>2. /\ call'[t][k] = Answered(call[t][k].pkce, x, call[t][k].token)
          /\ \A u \in Tabs, h \in Kinds : u # t \/ h # k => call'[u][h] = call[u][h]
      BY <2>1 DEF Answer, TypeInv, TypeOK
    <2>a. call'[t][k].at = "answered" /\ call'[t][k].token = call[t][k].token
      BY <2>2 DEF Answered
    <2>3. ASSUME NEW n \in Tokens
          PROVE  /\ Carries(k, call'[t][k], n) => Carries(k, call[t][k], n)
                 /\ ~Presents(call'[t][k], n)
      <3>1. Carries(k, call'[t][k], n) => call[t][k].token = n
        BY <2>a, Zenon DEF Carries
      <3>2. call[t][k].token = n => Carries(k, call[t][k], n)
        BY <1>1, Zenon DEF Carries
      <3>3. ~Presents(call'[t][k], n)
        BY <2>a DEF Presents
      <3>4. QED
        BY <3>1, <3>2, <3>3
    <2>4. \A u \in Tabs, h \in Kinds, n \in Tokens :
             /\ Carries(h, call'[u][h], n) => Carries(h, call[u][h], n)
             /\ Presents(call'[u][h], n) => Presents(call[u][h], n) \/ n = jar.refresh
      BY <2>2, <2>3
    <2>5. QED
      BY <1>1, <2>4, CarriedFrame
  <1>4. CASE \E x \in Statuses : Answer(t, k, call[t][k].pkce, x, 0)
    BY <1>1, <1>2, <1>4, CarriedAnswer
  <1>5. 200 \in Statuses /\ 500 \in Statuses
    BY DEF Statuses
  <1>6. QED
    BY <1>3, <1>4, <1>5, Zenon DEF Mirror

LEMMA EndIsFair ==
    ASSUME TypeInv, NEW s, End(s)
    PROVE  ended \subseteq ended' /\ \A n \in live : n \in live' \/ issued[n].session \in ended'
  BY DEF End

LEMMA CarriedRevoke ==
    ASSUME TypeInv, CarriedInv, NEW t \in Tabs, Revoke(t)
    PROVE  CarriedInv'
  <1>1. "sign out" \in Kinds /\ 200 \in Statuses /\ FALSE \in BOOLEAN
    BY DEF Kinds, Statuses
  <1>2. /\ ended \subseteq ended' /\ \A n \in live : n \in live' \/ issued[n].session \in ended'
        /\ UNCHANGED <<issued, jar>>
    BY EndIsFair DEF Revoke
  <1>3. PICK s \in Statuses : Answer(t, "sign out", FALSE, s, 0)
    BY <1>1 DEF Revoke
  <1>4. QED
    BY <1>1, <1>2, <1>3, CarriedAnswer

LEMMA CarriedReceive ==
    ASSUME TypeInv, CarriedInv, NEW t \in Tabs, NEW k \in Kinds, Receive(t, k) \/ Lose(t, k)
    PROVE  CarriedInv'
  <1>a. call' = [call EXCEPT ![t][k] = Idle] /\ UNCHANGED <<issued, live, ended>>
    BY DEF Receive, Lose, provider
  <1>b. call \in [Tabs -> [Kinds -> Call]]
    BY DEF TypeInv, TypeOK
  <1>c. 0 \notin Tokens
    BY TokenRange DEF TypeInv
  <1>1. /\ call' = [call EXCEPT ![t][k] = Idle] /\ UNCHANGED <<issued, live, ended>>
        /\ call \in [Tabs -> [Kinds -> Call]] /\ 0 \notin Tokens
    BY <1>a, <1>b, <1>c
  <1>2. Idle \in Call /\ Idle.at = "idle"
    BY CallForms DEF Idle
  <1>3. \A n \in Tokens : ~Carries(k, Idle, n)
    BY <1>2 DEF Carries
  <1>4. \/ jar'.refresh = jar.refresh
        \/ jar'.refresh \notin Tokens
        \/ Carries(k, call[t][k], jar'.refresh)
    <2>1. CASE Lose(t, k)
      BY <2>1 DEF Lose
    <2>2. CASE Receive(t, k)
      <3>1. /\ call[t][k].at = "answered" /\ jar'.refresh = RefreshCookie(k, call[t][k])
        BY <2>2 DEF Receive
      <3>2. \/ RefreshCookie(k, call[t][k]) \in {0, jar.refresh}
            \/ /\ k # "sign out" /\ call[t][k].status = 200
               /\ RefreshCookie(k, call[t][k]) = call[t][k].token
        BY DEF RefreshCookie
      <3>3. QED
        BY <1>1, <3>1, <3>2 DEF Carries
    <2>3. QED
      BY <2>1, <2>2
  <1>5. QED
    BY <1>1, <1>2, <1>3, <1>4, CarriedDone

LEMMA CarriedStep == TypeInv /\ CarriedInv /\ [Next]_vars => CarriedInv'
  <1> SUFFICES ASSUME TypeInv, CarriedInv, [Next]_vars PROVE CarriedInv'
    OBVIOUS
  <1>1. CASE UNCHANGED vars \/ ExpirePkce \/ \E u \in Users : Mail(u) \/ Remove(u)
    <2>1. UNCHANGED <<issued, call>> /\ jar'.refresh = jar.refresh
      BY <1>1 DEF vars, ExpirePkce, provider, Mail, Remove, TypeInv, TypeOK
    <2>2. /\ ended \subseteq ended'
          /\ \A n \in live : n \in live' \/ issued[n].session \in ended'
      BY <1>1, EndIsFair DEF vars, ExpirePkce, provider, Mail, Remove
    <2>3. QED
      BY <2>1, <2>2, CarriedFrame
  <1>2. ASSUME NEW t \in Tabs, Visit(t) PROVE CarriedInv'
    BY <1>2, CarriedVisit
  <1>3. ASSUME NEW t \in Tabs, NEW k \in Kinds, Settle(t, k) \/ Lose(t, k) PROVE CarriedInv'
    BY <1>3, CarriedExchange, CarriedMirror, CarriedRevoke, CarriedReceive DEF Settle
  <1>4. QED
    BY <1>1, <1>2, <1>3 DEF Next

-----------------------------------------------------------------------------
(* Calls that follow one another.                                           *)

\* Token n continues the session last signed in to; 0 if the user signed out,
\* or if a 401 has cleared a good cookie.
Follows(n) ==
    IF due = 0 THEN n = 0
    ELSE \/ due \in ended
         \/ n \in live /\ issued[n].session = due
         \/ turned /\ n = 0

\* What a call in flight means for that, when it is the only one.
OnTrack(t, k) ==
    /\ k = "sign in" =>
         Follows(jar.refresh) /\ (call[t][k].at = "sent" => call[t][k].with.by # "cookie")
    /\ k \in Refreshes =>
         /\ call[t][k].at = "sent" =>
              call[t][k].with = Cookie(jar.refresh) /\ Follows(jar.refresh)
         /\ call[t][k].at = "granted" => due # 0 /\ Follows(call[t][k].token)
         /\ call[t][k].at = "answered" =>
              /\ call[t][k].status = 200 => due # 0 /\ Follows(call[t][k].token)
              /\ call[t][k].status \in {401, 503} => Follows(jar.refresh)

Quiet == \A t \in Tabs, k \in Kinds : call[t][k] = Idle
Alone(t, k) == \A u \in Tabs, h \in Kinds : call[u][h] # Idle => u = t /\ h = k

CalmInv ==
    calm =>
      /\ Quiet => Follows(jar.refresh)
      /\ \A t \in Tabs, k \in Kinds : call[t][k] # Idle => Alone(t, k) /\ OnTrack(t, k)

LEMMA CookieShape == \A n : Cookie(n).by = "cookie" /\ Cookie(n).token = n
  BY DEF Cookie

LEMMA NotIdle == \A c : c.at # "idle" => c # Idle
  BY DEF Idle

LEMMA CalmInit == Init => CalmInv
  BY DEF Init, CalmInv, Quiet, Follows

\* A session that goes on is followed by the same token, until it is ended.
LEMMA FollowsKept ==
    ASSUME NEW n, Follows(n), due' = due, turned => turned', ended \subseteq ended',
           n \in live => /\ n \in live' \/ issued[n].session \in ended'
                        /\ issued'[n] = issued[n]
    PROVE  Follows(n)'
  <1>1. CASE due = 0
    BY <1>1 DEF Follows
  <1>2. CASE due # 0 /\ due \in ended
    BY <1>2 DEF Follows
  <1>3. CASE due # 0 /\ n \in live /\ issued[n].session = due
    BY <1>3 DEF Follows
  <1>4. CASE due # 0 /\ turned /\ n = 0
    BY <1>4 DEF Follows
  <1>5. QED
    BY <1>1, <1>2, <1>3, <1>4 DEF Follows

LEMMA TrackKept ==
    ASSUME NEW t \in Tabs, NEW k \in Kinds, OnTrack(t, k), call'[t][k] = call[t][k],
           jar'.refresh = jar.refresh, due' = due, \A n : Follows(n) => Follows(n)'
    PROVE  OnTrack(t, k)'
  <1>1. Follows(jar.refresh) => Follows(jar.refresh)'
    <2>1. PICK n : n = jar.refresh
      OBVIOUS
    <2>2. Follows(n) => Follows(n)'
      OBVIOUS
    <2>3. QED
      BY <2>1, <2>2 DEF Follows
  <1>2. Follows(call[t][k].token) => Follows(call[t][k].token)'
    <2>1. PICK n : n = call[t][k].token
      OBVIOUS
    <2>2. Follows(n) => Follows(n)'
      OBVIOUS
    <2>3. QED
      BY <2>1, <2>2 DEF Follows
  <1>4. Cookie(jar.refresh)' = Cookie(jar.refresh)
    BY DEF Cookie
  <1>5. k = "sign in" =>
          Follows(jar.refresh)' /\ (call'[t][k].at = "sent" => call'[t][k].with.by # "cookie")
    BY <1>1 DEF OnTrack
  <1>6. k \in Refreshes /\ call'[t][k].at = "sent" =>
          call'[t][k].with = Cookie(jar.refresh)' /\ Follows(jar.refresh)'
    BY <1>1, <1>4 DEF OnTrack
  <1>7. k \in Refreshes /\ call'[t][k].at = "granted" => due' # 0 /\ Follows(call[t][k].token)'
    BY <1>2 DEF OnTrack
  <1>8. ASSUME k \in Refreshes, call'[t][k].at = "answered"
        PROVE  /\ call'[t][k].status = 200 => due' # 0 /\ Follows(call[t][k].token)'
               /\ call'[t][k].status \in {401, 503} => Follows(jar.refresh)'
    <2>1. /\ call[t][k].status = 200 => due # 0 /\ Follows(call[t][k].token)
          /\ call[t][k].status \in {401, 503} => Follows(jar.refresh)
      BY <1>8, Zenon DEF OnTrack
    <2>2. QED
      BY <1>1, <1>2, <2>1
  <1>9. QED
    BY <1>5, <1>6, <1>7, <1>8, Zenon DEF OnTrack, Cookie

LEMMA CalmKept ==
    ASSUME CalmInv, UNCHANGED <<call, due>>, calm' => calm,
           jar'.refresh = jar.refresh, \A n : Follows(n) => Follows(n)'
    PROVE  CalmInv'
  <1> SUFFICES ASSUME calm' PROVE CalmInv'
    BY DEF CalmInv
  <1>1. Quiet' => Follows(jar.refresh)'
    <2>1. Quiet' => Follows(jar.refresh)
      BY DEF CalmInv, Quiet
    <2>2. PICK n : n = jar.refresh
      OBVIOUS
    <2>3. Follows(n) => Follows(n)'
      OBVIOUS
    <2>4. QED
      BY <2>1, <2>2, <2>3 DEF Follows
  <1>2. ASSUME NEW t \in Tabs, NEW k \in Kinds, call'[t][k] # Idle
        PROVE  Alone(t, k)' /\ OnTrack(t, k)'
    <2>1. Alone(t, k) /\ OnTrack(t, k)
      BY <1>2 DEF CalmInv
    <2>2. Alone(t, k)'
      BY <2>1 DEF Alone
    <2>3. QED
      BY <2>1, <2>2, TrackKept
  <1>3. QED
    BY <1>1, <1>2 DEF CalmInv, Idle

\* A call is sent: it is the only one, or calls overlap from now on.
LEMMA CalmSend ==
    ASSUME TypeInv, CalmInv, NEW t \in Tabs, NEW k \in Kinds, NEW c \in Call,
           call[t][k] = Idle, call' = [call EXCEPT ![t][k] = c], c # Idle, Sending,
           Follows(jar.refresh) => OnTrack(t, k)'
    PROVE  CalmInv'
  <1> SUFFICES ASSUME calm' PROVE CalmInv'
    BY DEF CalmInv
  <1>1. calm /\ \A x, y \in Busy(call') : x = y
    BY DEF Sending
  <1>2. /\ call'[t][k] = c
        /\ \A u \in Tabs, h \in Kinds : u # t \/ h # k => call'[u][h] = call[u][h]
    BY CallPut DEF TypeInv, TypeOK
  <1>3. \A u \in Tabs, h \in Kinds : call'[u][h] # Idle => u = t /\ h = k
    <2>1. ASSUME NEW u \in Tabs, NEW h \in Kinds, call'[u][h] # Idle
          PROVE  u = t /\ h = k
      <3>1. <<u, h>> \in Busy(call') /\ <<t, k>> \in Busy(call')
        BY <1>2, <2>1 DEF Busy
      <3>2. <<u, h>> = <<t, k>>
        BY <1>1, <3>1
      <3>3. QED
        BY <3>2
    <2>2. QED
      BY <2>1
  <1>4. Quiet
    <2>1. ASSUME NEW u \in Tabs, NEW h \in Kinds PROVE call[u][h] = Idle
      BY <1>2, <1>3
    <2>2. QED
      BY <2>1 DEF Quiet
  <1>5. Follows(jar.refresh)
    BY <1>1, <1>4 DEF CalmInv
  <1>6. Alone(t, k)' /\ ~Quiet'
    BY <1>2, <1>3 DEF Alone, Quiet, Idle
  <1>7. \A u \in Tabs, h \in Kinds : call'[u][h] # Idle => Alone(u, h)' /\ OnTrack(u, h)'
    <2>1. ASSUME NEW u \in Tabs, NEW h \in Kinds, call'[u][h] # Idle
          PROVE  Alone(u, h)' /\ OnTrack(u, h)'
      <3>1. u = t /\ h = k
        BY <1>3, <2>1
      <3>2. QED
        BY <1>5, <1>6, <3>1
    <2>2. QED
      BY <2>1
  <1>8. QED
    BY <1>6, <1>7 DEF CalmInv, Idle

\* A call that has an outcome, before its answer arrives.
LEMMA CalmGoes ==
    ASSUME CalmInv, calm' => calm, NEW t \in Tabs, NEW k \in Kinds,
           call[t][k] # Idle, call'[t][k] # Idle,
           \A u \in Tabs, h \in Kinds : u # t \/ h # k => call'[u][h] = call[u][h],
           calm' /\ OnTrack(t, k) => OnTrack(t, k)'
    PROVE  CalmInv'
  <1> SUFFICES ASSUME calm' PROVE CalmInv'
    BY DEF CalmInv
  <1>1. Alone(t, k) /\ OnTrack(t, k)'
    BY DEF CalmInv
  <1>2. \A u \in Tabs, h \in Kinds : call'[u][h] # Idle => u = t /\ h = k
    BY <1>1 DEF Alone
  <1>3. Alone(t, k)' /\ ~Quiet'
    BY <1>2 DEF Alone, Quiet, Idle
  <1>4. \A u \in Tabs, h \in Kinds : call'[u][h] # Idle => Alone(u, h)' /\ OnTrack(u, h)'
    <2>1. ASSUME NEW u \in Tabs, NEW h \in Kinds, call'[u][h] # Idle
          PROVE  Alone(u, h)' /\ OnTrack(u, h)'
      <3>1. u = t /\ h = k
        BY <1>2, <2>1
      <3>2. QED
        BY <1>1, <1>3, <3>1
    <2>2. QED
      BY <2>1
  <1>5. QED
    BY <1>3, <1>4 DEF CalmInv, Idle

LEMMA SameFollows ==
    ASSUME UNCHANGED <<issued, live, ended, due, turned>>
    PROVE  \A n : Follows(n) => Follows(n)'
  BY DEF Follows

LEMMA SentShape == \A c : Sent(c).at = "sent" /\ Sent(c).with = c
  BY DEF Sent

LEMMA SentOnTrack ==
    ASSUME NEW t \in Tabs, NEW k \in Kinds, NEW c, call'[t][k] = Sent(c),
           UNCHANGED <<issued, live, ended, jar, due, turned>>, Follows(jar.refresh),
           k = "sign in" => c.by # "cookie", k \in Refreshes => c = Cookie(jar.refresh)
    PROVE  OnTrack(t, k)'
  <1>1. Follows(jar.refresh)'
    BY DEF Follows
  <1>2. call'[t][k].at = "sent" /\ call'[t][k].with = c
    BY SentShape, Zenon
  <1>3. call'[t][k].at # "granted" /\ call'[t][k].at # "answered"
    BY <1>2
  <1>4. Cookie(jar.refresh)' = Cookie(jar.refresh)
    BY DEF Cookie
  <1>5. QED
    BY <1>1, <1>2, <1>3, <1>4, Zenon DEF OnTrack

LEMMA CalmVisit ==
    ASSUME TypeInv, CalmInv, NEW t \in Tabs, Visit(t)
    PROVE  CalmInv'
  <1>1. "bootstrap" \in Kinds /\ "sign in" \in Kinds /\ "renew" \in Kinds /\ "sign out" \in Kinds
    BY DEF Kinds
  <1>2. call \in [Tabs -> [Kinds -> Call]]
    BY DEF TypeInv, TypeOK
  <1>3. ASSUME NEW k \in Kinds, NEW c, Sent(c) \in Call, call[t][k] = Idle, Sending,
               call' = [call EXCEPT ![t][k] = Sent(c)],
               k = "sign in" => c.by # "cookie", k \in Refreshes => c = Cookie(jar.refresh),
               UNCHANGED <<issued, live, ended, jar, due, turned>>
        PROVE  CalmInv'
    <2>1. call'[t][k] = Sent(c) /\ Sent(c) # Idle
      BY <1>2, <1>3 DEF Sent, Idle
    <2>2. Follows(jar.refresh) => OnTrack(t, k)'
      BY <1>3, <2>1, SentOnTrack
    <2>3. QED
      BY <1>3, <2>1, <2>2, CalmSend
  <1>4. Sent(Cookie(jar.refresh)) \in Call /\ \A u \in Users : Sent(Password(u)) \in Call
    BY Cookies DEF TypeInv
  <1>5. CASE Load(t)
    <2>1. /\ call[t]["bootstrap"] = Idle /\ Sending
          /\ call' = [call EXCEPT ![t]["bootstrap"] = Sent(Cookie(jar.refresh))]
          /\ UNCHANGED <<issued, live, ended, jar, due, turned>>
      BY <1>1, <1>5 DEF Load, Resting, provider
    <2>2. QED
      BY <1>1, <1>3, <1>4, <2>1
  <1>6. CASE Renew(t)
    <2>1. /\ call[t]["renew"] = Idle /\ Sending
          /\ call' = [call EXCEPT ![t]["renew"] = Sent(Cookie(jar.refresh))]
          /\ UNCHANGED <<issued, live, ended, jar, due, turned>>
      BY <1>6 DEF Renew, provider
    <2>2. QED
      BY <1>1, <1>3, <1>4, <2>1
  <1>7. CASE SignOut(t)
    <2>1. /\ call[t]["sign out"] = Idle /\ Sending
          /\ call' = [call EXCEPT ![t]["sign out"] = Sent(Cookie(jar.refresh))]
          /\ UNCHANGED <<issued, live, ended, jar, due, turned>>
      BY <1>7 DEF SignOut, provider
    <2>2. QED
      BY <1>1, <1>3, <1>4, <2>1
  <1>8. ASSUME NEW u \in Users, SignIn(t, u) PROVE CalmInv'
    <2>1. /\ call[t]["sign in"] = Idle /\ Sending
          /\ call' = [call EXCEPT ![t]["sign in"] = Sent(Password(u))]
          /\ UNCHANGED <<issued, live, ended, jar, due, turned>>
      BY <1>8 DEF SignIn, provider
    <2>2. Password(u).by # "cookie" /\ "sign in" \notin Refreshes
      BY DEF Password, Refreshes
    <2>3. QED
      BY <1>1, <1>3, <1>4, <2>1, <2>2
  <1>9. ASSUME NEW c, LoadSigningIn(t, c) PROVE CalmInv'
    <2>1. call'[t]["bootstrap"] # Idle /\ call'[t]["sign in"] # Idle
      BY <1>1, <1>2, <1>9 DEF LoadSigningIn, Sent, Idle
    <2>2. <<t, "bootstrap">> \in Busy(call') /\ <<t, "sign in">> \in Busy(call')
      BY <1>1, <2>1 DEF Busy
    <2>3. <<t, "bootstrap">> # <<t, "sign in">>
      OBVIOUS
    <2>4. ~calm'
      BY <1>9, <2>2, <2>3 DEF LoadSigningIn, Sending
    <2>5. QED
      BY <2>4 DEF CalmInv
  <1>10. CASE Expire(t) \/ StartOAuth(t)
    <2>1. UNCHANGED <<issued, live, ended, due, turned, call, calm>>
      BY <1>10 DEF Expire, StartOAuth, provider
    <2>2. jar'.refresh = jar.refresh
      BY <1>10 DEF Expire, StartOAuth, TypeInv, TypeOK
    <2>3. QED
      BY <2>1, <2>2, SameFollows, CalmKept
  <1>11. QED
    BY <1>5, <1>6, <1>7, <1>8, <1>9, <1>10 DEF Visit, OpenLink, Return

\* What ends a session, ends it for whoever follows it.
LEMMA EndFollows ==
    ASSUME NEW s, End(s), UNCHANGED <<issued, due, turned>>
    PROVE  \A n : Follows(n) => Follows(n)'
  BY FollowsKept DEF End

LEMMA CalmProvider ==
    ASSUME TypeInv, CalmInv,
           UNCHANGED vars \/ ExpirePkce \/ \E u \in Users : Mail(u) \/ Remove(u)
    PROVE  CalmInv'
  <1>1. UNCHANGED <<issued, due, turned, call, calm>> /\ jar'.refresh = jar.refresh
    BY DEF vars, ExpirePkce, provider, Mail, Remove, TypeInv, TypeOK
  <1>2. CASE UNCHANGED <<live, ended>>
    BY <1>1, <1>2, SameFollows, CalmKept
  <1>3. CASE \E u \in Users : Remove(u)
    <2>1. \A n : Follows(n) => Follows(n)'
      BY <1>1, <1>3, EndFollows DEF Remove
    <2>2. QED
      BY <1>1, <2>1, CalmKept
  <1>4. QED
    BY <1>2, <1>3 DEF vars, ExpirePkce, provider, Mail

\* Whatever the API answers for want of a session, the session is as it was.
LEMMA CalmRefuse ==
    ASSUME TypeInv, CalmInv, NEW t \in Tabs, NEW k \in Kinds, NEW c \in Credential,
           call[t][k].at = "sent", call[t][k].with = c, Refuse(t, k, c),
           UNCHANGED <<jar, due, turned>>
    PROVE  CalmInv'
  <1>1. UNCHANGED <<issued, live, ended, calm>>
    BY DEF Refuse, provider
  <1>2. PICK s \in Failures(k) : Answer(t, k, ByCode(c), s, 0)
    BY FailedAnswers, Zenon DEF Refuse
  <1>3. /\ call'[t][k] = Answered(ByCode(c), s, 0)
        /\ \A u \in Tabs, h \in Kinds : u # t \/ h # k => call'[u][h] = call[u][h]
    BY <1>2 DEF Answer, TypeInv, TypeOK
  <1>4. /\ call'[t][k].at = "answered" /\ call'[t][k].at # "sent" /\ call'[t][k].at # "granted"
        /\ call'[t][k].status = s
    BY <1>3 DEF Answered
  <1>5. call[t][k] # Idle /\ call'[t][k] # Idle
    BY <1>4 DEF Idle
  <1>6. ASSUME OnTrack(t, k) PROVE OnTrack(t, k)'
    <2>1. Follows(jar.refresh) => Follows(jar.refresh)'
      BY <1>1 DEF Follows
    <2>2. k = "sign in" \/ k \in Refreshes => Follows(jar.refresh)'
      BY <1>6, <2>1 DEF OnTrack
    <2>3. k \in Refreshes => call'[t][k].status # 200
      <3>1. k \in Refreshes => s # 200
        BY RefreshFails
      <3>2. QED
        BY <1>4, <3>1
    <2>4. QED
      BY <1>4, <2>2, <2>3, Zenon DEF OnTrack
  <1>7. QED
    BY <1>1, <1>3, <1>5, <1>6, CalmGoes

\* An exchange that is not heard of loses a rotation, unless it is a sign-in:
\* that spends no token; what becomes of a sign-out is seen when it answers.
LEMMA CalmUnheard ==
    ASSUME TypeInv, CalmInv, NEW t \in Tabs, NEW k \in Kinds, NEW c \in Credential,
           call[t][k].at = "sent", call[t][k].with = c, Unheard(t, k, c),
           UNCHANGED <<jar, due, turned>>
    PROVE  CalmInv'
  <1>1. /\ \A n \in Tokens : issued'[n] = issued[n]
        /\ live' = (live \ Spent(c)) \cup {Len(issued) + 1} /\ ended' = ended
        /\ calm' => calm /\ k \notin Refreshes
    BY IssueAdds DEF Unheard, Issue
  <1>2. PICK s \in Failures(k) : Answer(t, k, ByCode(c), s, 0)
    BY FailedAnswers, Zenon DEF Unheard
  <1>3. /\ call'[t][k] = Answered(ByCode(c), s, 0)
        /\ \A u \in Tabs, h \in Kinds : u # t \/ h # k => call'[u][h] = call[u][h]
    BY <1>2 DEF Answer, TypeInv, TypeOK
  <1>4. call'[t][k].at = "answered" /\ call'[t][k].at # "sent"
    BY <1>3 DEF Answered
  <1>5. call[t][k] # Idle /\ call'[t][k] # Idle
    BY <1>4 DEF Idle
  <1>6. ASSUME calm', OnTrack(t, k) PROVE OnTrack(t, k)'
    <2>1. CASE k = "sign in"
      <3>1. Follows(jar.refresh) /\ Spent(c) = {} /\ k \notin Refreshes
        BY <1>6, <2>1 DEF OnTrack, Spent, Refreshes
      <3>2. live \subseteq Tokens /\ live \subseteq live'
        BY <1>1, <3>1 DEF TypeInv, TypeOK
      <3>3. Follows(jar.refresh)'
        BY <1>1, <3>1, <3>2 DEF Follows
      <3>4. QED
        BY <1>4, <3>1, <3>3, Zenon DEF OnTrack
    <2>2. CASE k = "sign out"
      BY <2>2 DEF OnTrack, Refreshes
    <2>3. QED
      BY <1>1, <1>6, <2>1, <2>2 DEF Kinds, Refreshes
  <1>7. QED
    BY <1>1, <1>3, <1>5, <1>6, CalmGoes

\* A grant spends the token that was followed on one that continues its session.
LEMMA CalmGrant ==
    ASSUME TypeInv, CalmInv, NEW t \in Tabs, NEW k \in Kinds, NEW c \in Credential,
           call[t][k].at = "sent", call[t][k].with = c, Grant(t, k, c),
           UNCHANGED <<jar, due, turned>>
    PROVE  CalmInv'
  <1>1. PICK new \in Tokens' :
           /\ new = Len(issued) + 1 /\ issued'[new] = NewToken(c)
           /\ \A n \in Tokens : issued'[n] = issued[n]
    BY IssueAdds DEF Grant
  <1>2. /\ call' = [call EXCEPT ![t][k] = Granted(ByCode(c), new)]
        /\ live' = (live \ Spent(c)) \cup {new} /\ ended' = ended /\ Accepts(c)
        /\ calm' = calm
    BY <1>1 DEF Grant, Issue
  <1>3. /\ call'[t][k] = Granted(ByCode(c), new)
        /\ \A u \in Tabs, h \in Kinds : u # t \/ h # k => call'[u][h] = call[u][h]
    BY <1>2 DEF TypeInv, TypeOK
  <1>4. call'[t][k].at = "granted" /\ call'[t][k].token = new
    BY <1>3 DEF Granted
  <1>5. call[t][k] # Idle /\ call'[t][k] # Idle
    BY <1>4 DEF Idle
  <1>6. call'[t][k].at # "sent" /\ call'[t][k].at # "answered"
    BY <1>4
  <1>7. live \subseteq Tokens
    BY DEF TypeInv, TypeOK
  <1>8. ASSUME OnTrack(t, k) PROVE OnTrack(t, k)'
    <2>1. CASE k = "sign in"
      <3>1. Follows(jar.refresh) /\ Spent(c) = {} /\ k \notin Refreshes
        BY <1>8, <2>1 DEF OnTrack, Spent, Refreshes
      <3>2. Follows(jar.refresh)'
        BY <1>1, <1>2, <1>7, <3>1 DEF Follows
      <3>3. QED
        BY <1>6, <3>1, <3>2, Zenon DEF OnTrack
    <2>2. CASE k \in Refreshes
      <3>1. c = Cookie(jar.refresh) /\ Follows(jar.refresh) /\ k # "sign in"
        BY <1>8, <2>2 DEF OnTrack, Refreshes
      <3>2. c.by = "cookie" /\ c.token = jar.refresh
        BY <3>1, CookieShape
      <3>3. jar.refresh \in live /\ jar.refresh # 0 /\ issued'[new] = issued[jar.refresh]
        BY <1>1, <1>2, <1>7, <3>2, TokenRange DEF Accepts, NewToken, TypeInv
      <3>4. due' # 0 /\ Follows(new)'
        BY <1>2, <3>1, <3>3 DEF Follows
      <3>5. Follows(call[t][k].token)'
        BY <1>4, <3>4 DEF Follows
      <3>6. QED
        BY <1>6, <3>1, <3>4, <3>5, Zenon DEF OnTrack
    <2>3. CASE k = "sign out"
      BY <2>3 DEF OnTrack, Refreshes
    <2>4. QED
      BY <2>1, <2>2, <2>3 DEF Kinds, Refreshes
  <1>9. QED
    BY <1>2, <1>3, <1>5, <1>8, CalmGoes

LEMMA CalmExchange ==
    ASSUME TypeInv, CalmInv, NEW t \in Tabs, NEW k \in Kinds, Exchange(t, k)
    PROVE  CalmInv'
  <1>1. PICK c \in Credential :
           /\ call[t][k].at = "sent" /\ call[t][k].with = c
           /\ Refuse(t, k, c) \/ Unheard(t, k, c) \/ Grant(t, k, c)
           /\ UNCHANGED <<jar, due, turned>>
    BY CallShape DEF Exchange, TypeInv
  <1>2. QED
    BY <1>1, CalmGrant, CalmRefuse, CalmUnheard

LEMMA CalmMirror ==
    ASSUME TypeInv, CalmInv, NEW t \in Tabs, NEW k \in Kinds, Mirror(t, k)
    PROVE  CalmInv'
  <1>1. /\ call[t][k].at = "granted" /\ k # "sign out"
        /\ UNCHANGED <<issued, live, ended, jar, due, turned, calm>>
    BY DEF Mirror, provider
  <1>2. PICK x \in Statuses, n \in Tokens \cup None :
          /\ Answer(t, k, call[t][k].pkce, x, n)
          /\ (x = 200 /\ n = call[t][k].token) \/ x = 500
    <2>1. call[t][k].token \in Tokens \cup None /\ 0 \in Tokens \cup None
      BY <1>1, CallShape DEF TypeInv, None
    <2>2. 200 \in Statuses /\ 500 \in Statuses
      BY DEF Statuses
    <2>3. CASE Answer(t, k, call[t][k].pkce, 200, call[t][k].token)
      BY <2>1, <2>2, <2>3
    <2>4. CASE Answer(t, k, call[t][k].pkce, 500, 0)
      BY <2>1, <2>2, <2>4
    <2>5. QED
      BY <2>3, <2>4 DEF Mirror
  <1>3. /\ call'[t][k] = Answered(call[t][k].pkce, x, n)
        /\ \A u \in Tabs, h \in Kinds : u # t \/ h # k => call'[u][h] = call[u][h]
    BY <1>2 DEF Answer, TypeInv, TypeOK
  <1>4. /\ call'[t][k].at = "answered" /\ call'[t][k].at # "sent" /\ call'[t][k].at # "granted"
        /\ call'[t][k].status = x /\ call'[t][k].token = n
    BY <1>3 DEF Answered
  <1>5. call[t][k] # Idle /\ call'[t][k] # Idle
    <2>1. call[t][k].at # "idle" /\ call'[t][k].at # "idle"
      BY <1>1, <1>4
    <2>2. QED
      BY <2>1, NotIdle
  <1>6. ASSUME OnTrack(t, k) PROVE OnTrack(t, k)'
    <2>1. Follows(jar.refresh) => Follows(jar.refresh)'
      BY <1>1 DEF Follows
    <2>2. k = "sign in" => Follows(jar.refresh)'
      BY <1>6, <2>1 DEF OnTrack
    <2>3. k \in Refreshes => due # 0 /\ Follows(call[t][k].token)
      BY <1>1, <1>6, Zenon DEF OnTrack
    <2>4. k \in Refreshes /\ x = 200 => due' # 0 /\ Follows(call[t][k].token)'
      <3>1. SUFFICES ASSUME k \in Refreshes, x = 200
                     PROVE  due' # 0 /\ Follows(call[t][k].token)'
        OBVIOUS
      <3>2. call'[t][k].token = call[t][k].token
        BY <1>2, <1>4, <3>1
      <3>3. QED
        BY <1>1, <2>3, <3>1, <3>2 DEF Follows
    <2>5. x # 401 /\ x # 503
      BY <1>2
    <2>6. QED
      BY <1>4, <2>2, <2>4, <2>5, Zenon DEF OnTrack
  <1>7. QED
    BY <1>1, <1>3, <1>5, <1>6, CalmGoes

LEMMA CalmRevoke ==
    ASSUME TypeInv, CalmInv, NEW t \in Tabs, Revoke(t)
    PROVE  CalmInv'
  <1>1. "sign out" \in Kinds /\ "sign out" \notin Refreshes
    BY DEF Kinds, Refreshes
  <1>2. /\ call'[t]["sign out"] = Answered(FALSE, 200, 0)
        /\ \A u \in Tabs, h \in Kinds : u # t \/ h # "sign out" => call'[u][h] = call[u][h]
        /\ call[t]["sign out"].at = "granted" /\ calm' = calm
    BY <1>1 DEF Revoke, Answer, TypeInv, TypeOK
  <1>3. call[t]["sign out"] # Idle /\ call'[t]["sign out"] # Idle
    <2>1. call[t]["sign out"].at # "idle" /\ Answered(FALSE, 200, 0).at # "idle"
      BY <1>2 DEF Answered
    <2>2. QED
      BY <1>2, <2>1, NotIdle
  <1>4. OnTrack(t, "sign out")'
    BY <1>1 DEF OnTrack
  <1>5. QED
    BY <1>1, <1>2, <1>3, <1>4, CalmGoes

\* A call that ends leaves none in flight, if it was the only one.
LEMMA CalmEnd ==
    ASSUME TypeInv, CalmInv, NEW t \in Tabs, NEW k \in Kinds,
           call[t][k] # Idle, call' = [call EXCEPT ![t][k] = Idle],
           calm' => calm \/ Busy(call') = {},
           calm' /\ (calm => OnTrack(t, k)) => Follows(jar.refresh)'
    PROVE  CalmInv'
  <1> SUFFICES ASSUME calm' PROVE CalmInv'
    BY DEF CalmInv
  <1>1. \A u \in Tabs, h \in Kinds :
           call'[u][h] = IF u = t /\ h = k THEN Idle ELSE call[u][h]
    BY DEF TypeInv, TypeOK
  <1>2. Quiet'
    <2>1. CASE calm
      <3>1. Alone(t, k)
        BY <2>1 DEF CalmInv
      <3>2. QED
        BY <1>1, <3>1 DEF Alone, Quiet, Idle
    <2>2. CASE Busy(call') = {}
      <3>1. ASSUME NEW u \in Tabs, NEW h \in Kinds PROVE call'[u][h] = Idle
        <4>1. <<u, h>> \notin Busy(call')
          BY <2>2
        <4>2. QED
          BY <4>1 DEF Busy
      <3>2. QED
        BY <3>1 DEF Quiet, Idle
    <2>3. QED
      BY <2>1, <2>2
  <1>3. calm => OnTrack(t, k)
    BY DEF CalmInv
  <1>4. QED
    BY <1>2, <1>3 DEF CalmInv, Quiet, Idle

LEMMA CalmReceive ==
    ASSUME TypeInv, CarriedInv, CalmInv, NEW t \in Tabs, NEW k \in Kinds, Receive(t, k)
    PROVE  CalmInv'
  <1>1. /\ call[t][k].at = "answered" /\ call' = [call EXCEPT ![t][k] = Idle]
        /\ jar'.refresh = RefreshCookie(k, call[t][k])
        /\ UNCHANGED <<issued, live, ended>>
    BY DEF Receive, provider
  <1>2. call[t][k] # Idle
    BY <1>1 DEF Idle
  <1>3. CASE SignsIn(k, call[t][k])
    <2>1. k = "sign in" /\ k # "sign out" /\ k \notin Refreshes /\ call[t][k].status = 200
      BY <1>3 DEF SignsIn, Refreshes
    <2>2. jar'.refresh = call[t][k].token
      BY <1>1, <2>1, Zenon DEF RefreshCookie
    <2>3. PICK n \in Tokens : n = call[t][k].token /\ Carries(k, call[t][k], n)
      BY <1>1, <2>1, Zenon DEF TypeInv, Handed, Carries
    <2>4. n \in live \/ issued[n].session \in ended
      BY <2>3 DEF CarriedInv
    <2>5. due' = issued[n].session
      BY <1>3, <2>3 DEF Receive
    <2>6. due' # 0
      BY <2>5, TokenRange DEF TypeInv
    <2>7. Follows(jar.refresh)'
      BY <1>1, <2>2, <2>3, <2>4, <2>5, <2>6 DEF Follows
    <2>8. calm' => calm \/ Busy(call') = {}
      BY <1>3 DEF Receive
    <2>9. QED
      BY <1>1, <1>2, <2>7, <2>8, CalmEnd
  <1>4. CASE k = "sign out"
    <2>1. /\ due' = 0
          /\ calm' => SignsOut(k, call[t][k]) /\ (calm \/ Busy(call') = {})
      BY <1>4 DEF Receive, SignsIn
    <2>2. SignsOut(k, call[t][k]) => jar'.refresh = 0
      BY <1>1 DEF SignsOut, RefreshCookie
    <2>3. calm' => Follows(jar.refresh)'
      BY <2>1, <2>2 DEF Follows
    <2>4. QED
      BY <1>1, <1>2, <2>1, <2>3, CalmEnd
  <1>5. CASE ~SignsIn(k, call[t][k]) /\ k # "sign out"
    <2>1. /\ due' = due /\ (turned => turned') /\ (TurnsAway(k, call[t][k]) => turned')
          /\ calm' => calm /\ (call[t][k].status = 500 => k = "sign in")
      BY <1>5 DEF Receive, SignsOut
    <2>2. ASSUME OnTrack(t, k), calm' PROVE Follows(jar.refresh)'
      <3>1. CASE k = "sign in"
        <4>1. Follows(jar.refresh)
          BY <2>2, <3>1 DEF OnTrack
        <4>2. k \notin Refreshes /\ k # "sign out" /\ call[t][k].status # 200
          BY <1>5, <3>1 DEF SignsIn, Refreshes
        <4>3. jar'.refresh = jar.refresh
          BY <1>1, <4>2, Zenon DEF RefreshCookie
        <4>4. QED
          BY <1>1, <2>1, <4>1, <4>3 DEF Follows
      <3>2. CASE k \in Refreshes
        <4>1. /\ call[t][k].status = 200 => Follows(call[t][k].token)
              /\ call[t][k].status \in {401, 503} => Follows(jar.refresh)
          BY <1>1, <2>2, <3>2, Zenon DEF OnTrack
        <4>2. \/ call[t][k].status = 200 \/ call[t][k].status = 401 \/ call[t][k].status = 503
          <5>1. call[t][k].status \in Statuses
            BY <1>1, CallShape DEF TypeInv
          <5>2. call[t][k].status # 500
            BY <2>1, <2>2, <3>2 DEF Refreshes
          <5>3. QED
            BY <5>1, <5>2 DEF Statuses
        <4>3. PICK n : n = jar'.refresh
          OBVIOUS
        <4>4. Follows(n) \/ (turned' /\ n = 0)
          <5>1. CASE call[t][k].status = 401
            <6>1. n = 0 /\ Follows(jar.refresh)
              BY <1>1, <3>2, <4>1, <4>3, <5>1 DEF RefreshCookie
            <6>2. CASE jar.refresh \in live
              BY <2>1, <3>2, <5>1, <6>1, <6>2 DEF TurnsAway
            <6>3. CASE jar.refresh \notin live
              BY <6>1, <6>3 DEF Follows
            <6>4. QED
              BY <6>2, <6>3
          <5>2. CASE call[t][k].status # 401 /\ call[t][k].status = 200
            <6>1. n = call[t][k].token
              BY <1>1, <1>5, <4>3, <5>2, Zenon DEF RefreshCookie
            <6>2. QED
              BY <4>1, <5>2, <6>1
          <5>3. CASE call[t][k].status # 401 /\ call[t][k].status # 200
            <6>1. n = jar.refresh
              BY <1>1, <1>5, <4>3, <5>3, Zenon DEF RefreshCookie
            <6>2. QED
              BY <4>1, <4>2, <5>3, <6>1
          <5>4. QED
            BY <5>1, <5>2, <5>3
        <4>5. QED
          BY <1>1, <2>1, <4>3, <4>4 DEF Follows
      <3>3. QED
        BY <1>5, <3>1, <3>2 DEF Kinds, Refreshes
    <2>3. calm' /\ (calm => OnTrack(t, k)) => Follows(jar.refresh)'
      BY <2>1, <2>2
    <2>4. calm' => calm \/ Busy(call') = {}
      BY <2>1
    <2>5. QED
      BY <1>1, <1>2, <2>3, <2>4, CalmEnd
  <1>6. QED
    BY <1>3, <1>4, <1>5

LEMMA CalmLose ==
    ASSUME TypeInv, CalmInv, NEW t \in Tabs, NEW k \in Kinds, Lose(t, k)
    PROVE  CalmInv'
  <1>1. /\ call[t][k].at \in {"sent", "answered"} /\ call' = [call EXCEPT ![t][k] = Idle]
        /\ UNCHANGED <<issued, live, ended, jar, due, turned>>
        /\ calm' => calm /\ k # "sign out" /\ ~Rotated(k, call[t][k])
    BY DEF Lose, provider
  <1>2. call[t][k] # Idle
    <2>1. call[t][k].at # "idle"
      BY <1>1
    <2>2. QED
      BY <2>1, NotIdle
  <1>3. ASSUME OnTrack(t, k), calm' PROVE Follows(jar.refresh)
    <2>1. CASE k = "sign in"
      BY <1>3, <2>1 DEF OnTrack
    <2>2. CASE k \in Refreshes /\ call[t][k].at = "sent"
      BY <1>3, <2>2, Zenon DEF OnTrack
    <2>3. CASE k \in Refreshes /\ call[t][k].at = "answered"
      <3>1. call[t][k].status \in Statuses /\ call[t][k].status \notin {200, 500}
        BY <1>1, <1>3, <2>3, CallShape DEF Rotated, TypeInv
      <3>2. call[t][k].status = 401 \/ call[t][k].status = 503
        BY <3>1 DEF Statuses
      <3>3. QED
        BY <1>3, <2>3, <3>2, Zenon DEF OnTrack
    <2>4. QED
      BY <1>1, <1>3, <2>1, <2>2, <2>3 DEF Kinds, Refreshes
  <1>4. Follows(jar.refresh) => Follows(jar.refresh)'
    BY <1>1 DEF Follows
  <1>5. QED
    BY <1>1, <1>2, <1>3, <1>4, CalmEnd

LEMMA CalmStep == TypeInv /\ CarriedInv /\ CalmInv /\ [Next]_vars => CalmInv'
  <1> SUFFICES ASSUME TypeInv, CarriedInv, CalmInv, [Next]_vars PROVE CalmInv'
    OBVIOUS
  <1>1. CASE UNCHANGED vars \/ ExpirePkce \/ \E u \in Users : Mail(u) \/ Remove(u)
    BY <1>1, CalmProvider
  <1>2. ASSUME NEW t \in Tabs, Visit(t) PROVE CalmInv'
    BY <1>2, CalmVisit
  <1>3. ASSUME NEW t \in Tabs, NEW k \in Kinds, Settle(t, k) \/ Lose(t, k) PROVE CalmInv'
    BY <1>3, CalmExchange, CalmMirror, CalmRevoke, CalmReceive, CalmLose DEF Settle
  <1>4. QED
    BY <1>1, <1>2, <1>3 DEF Next

\* While calls follow one another and no rotation is lost, the cookie of a
\* browser at rest continues the session last signed in to, or there is none
\* because a refresh was answered 401 for a cookie that was good, and there is
\* none after a sign-out (routes/auth.py, services/supabase_auth.py).
THEOREM SessionIsKept == Spec => []SessionKept
  <1>1. CalmInv => SessionKept
    <2> SUFFICES ASSUME CalmInv, calm, Busy(call) = {} PROVE Follows(jar.refresh)
      BY DEF SessionKept, Follows
    <2>1. ASSUME NEW t \in Tabs, NEW k \in Kinds PROVE call[t][k] = Idle
      <3>1. <<t, k>> \notin Busy(call)
        OBVIOUS
      <3>2. QED
        BY <3>1 DEF Busy
    <2>2. QED
      BY <2>1 DEF CalmInv, Quiet
  <1>2. QED
    BY TypeInit, TypeStep, CarriedInit, CarriedStep, CalmInit, CalmStep, <1>1, PTL DEF Spec
=============================================================================
