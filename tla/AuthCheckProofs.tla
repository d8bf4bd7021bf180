-------------------------- MODULE AuthCheckProofs --------------------------
(***************************************************************************)
(* Proofs about AuthCheck for every set of nodes, requests, policies and    *)
(* roles, and all lifetimes: its types; that the claims of every token were *)
(* granted; that roles taken away stop to count in time; and that only the  *)
(* end of a process or the cleaner takes the session of a browser's token.  *)
(***************************************************************************)
EXTENDS AuthCheck, TLAPS

\* GrantedAt, in terms of what h says the user has had.
At(h, tok, t) == tok.roles \in h[t] /\ tok.exp \in {Never, t + AccessTTL}
Granted(h, tok) == \E t \in Times : At(h, tok, t)

\* The refresh token is granted together with the access token.
Together(h, tok, rexp) == \E t \in Times : At(h, tok, t) /\ rexp = t + RefreshTTL

GoodSession(h, s) == s \in Sessions /\ Together(h, s.tok, s.rexp)

\* Requests have a node from the start, the policy they were checked with once
\* they wait for the provider, and a grant once it has answered.
GoodRequest(h, q) ==
    /\ q \in Request
    /\ q.at # "idle" => q.node \in Nodes
    /\ q.at \in {"exchange", "refresh", "data", "stored"} => q.pol \in Policies
    /\ q.tok # None => Granted(h, q.tok)
    /\ q.at \in {"data", "stored"} => q.grant \in Grants /\ Together(h, q.grant, q.grant.rexp)
    /\ q.at \notin {"data", "stored"} => q.grant = None

\* What h records, up to now.
Recorded(h) == grants \in h[now] /\ \A t \in Times : t > now => h[t] = {}

Inv ==
    /\ TypeOK
    /\ Recorded(held)
    /\ \A n \in Nodes : \A s \in sess[n] : GoodSession(held, s)
    /\ cookie # None => Granted(held, cookie)
    /\ \A r \in Requests : GoodRequest(held, req[r])

-----------------------------------------------------------------------------
\* What was granted stays granted, as the record only grows.
LEMMA GoodGrows ==
  ASSUME NEW h, NEW g, \A t \in Times : h[t] \subseteq g[t]
  PROVE  /\ \A tok : Granted(h, tok) => Granted(g, tok)
         /\ \A tok, rexp : Together(h, tok, rexp) => Together(g, tok, rexp)
         /\ \A s : GoodSession(h, s) => GoodSession(g, s)
         /\ \A q : GoodRequest(h, q) => GoodRequest(g, q)
  <1>1. /\ \A tok : Granted(h, tok) => Granted(g, tok)
        /\ \A tok, rexp : Together(h, tok, rexp) => Together(g, tok, rexp)
    BY DEF Granted, Together, At
  <1>2. \A s : GoodSession(h, s) => GoodSession(g, s)
    BY <1>1 DEF GoodSession
  <1>3. \A q : GoodRequest(h, q) => GoodRequest(g, q)
    BY <1>1 DEF GoodRequest
  <1> QED
    BY <1>1, <1>2, <1>3

\* A place for a request is good.
LEMMA IdleGood == ASSUME NEW h PROVE GoodRequest(h, Idle)
  BY DEF GoodRequest, Idle, Request

\* A step that gives request r the state q, and no answer.
LEMMA RequestInv ==
  ASSUME Inv, NEW r \in Requests, NEW q, GoodRequest(held, q),
         req' = [req EXCEPT ![r] = q], res' = None,
         UNCHANGED <<world, stores, cookie, state>>,
         nav' \in {"page", "waiting", "login", "done"}
  PROVE  Inv'
  <1>1. req' \in [Requests -> Request]
    BY DEF Inv, TypeOK, GoodRequest
  <1>2. \A x \in Requests : GoodRequest(held, req'[x])
    BY DEF Inv, TypeOK
  <1>3. TypeOK'
    BY <1>1 DEF Inv, TypeOK, world, stores
  <1>4. Recorded(held)'
    BY DEF Inv, Recorded, world
  <1> QED
    BY <1>2, <1>3, <1>4 DEF Inv, world, stores

\* An answer, to a request whose token is good.
LEMMA AnswerInv ==
  ASSUME Inv, NEW r \in Requests, NEW status \in Statuses, NEW tok \in Tokens \cup {None},
         NEW key \in Keys \cup {None}, Answer(r, status, tok, key),
         tok # None => Granted(held, tok),
         UNCHANGED <<world, sess, index>>, lost' \in BOOLEAN
  PROVE  Inv'
  <1>1. Idle \in Request /\ GoodRequest(held, Idle)
    BY IdleGood DEF GoodRequest
  <1>2. /\ req' \in [Requests -> Request]
        /\ \A x \in Requests : GoodRequest(held, req'[x])
    BY <1>1 DEF Inv, TypeOK, Answer
  <1>3. /\ cookie' \in Tokens \cup {None} /\ state' \in Keys \cup {None}
        /\ cookie' # None => Granted(held, cookie')
    BY DEF Answer, Inv, TypeOK
  <1>4. nav' \in {"page", "waiting", "login", "done"} /\ res' \in Statuses \cup {None}
    BY DEF Answer, Inv, TypeOK
  <1>5. TypeOK'
    BY <1>2, <1>3, <1>4 DEF Inv, TypeOK, world
  <1>6. Recorded(held)'
    BY DEF Inv, Recorded, world
  <1> QED
    BY <1>2, <1>3, <1>5, <1>6 DEF Inv, world

\* An answer that says no, or sends the browser to the provider.
LEMMA PlainAnswerInv ==
  ASSUME Inv, NEW r \in Requests, NEW status \in Statuses, NEW key \in Keys \cup {None},
         Answer(r, status, None, key), UNCHANGED <<world, stores>>
  PROVE  Inv'
  BY AnswerInv DEF Inv, TypeOK, stores

\* The policy a request is checked with.
LEMMA CheckedPolicy ==
  ASSUME Inv, NEW r \in Requests, Checked(r)
  PROVE  req[r].node \in Nodes /\ Pol(r) \in Policies /\ Pol(r).key \in Keys
  <1>1. req[r].node \in Nodes
    BY DEF Inv, GoodRequest, Checked
  <1>2. Pol(r) \in Policies
    BY <1>1 DEF Inv, TypeOK, Checked, Known, Pol
  <1> QED
    BY <1>1, <1>2 DEF Keys

\* A request that the browser sends.
LEMMA SendInv ==
  ASSUME Inv, NEW r \in Requests, NEW n \in Nodes, NEW kind \in {"page", "fetch", "callback"},
         NEW rt \in Routes, NEW key \in Keys \cup {None}, NEW params \in Nat \X Nat,
         Send(r, n, kind, rt, key, params), nav' \in {"page", "waiting", "login", "done"}
  PROVE  Inv'
  <1> DEFINE q == [Idle EXCEPT !.at = "sent", !.node = n, !.kind = kind, !.route = rt,
                   !.tok = cookie, !.key = key, !.params = params]
  <1>1. cookie \in Tokens \cup {None} /\ (cookie # None => Granted(held, cookie))
    BY DEF Inv, TypeOK
  <1>2. q \in Request /\ q.at = "sent" /\ q.node = n /\ q.tok = cookie /\ q.grant = None
    BY <1>1 DEF Idle, Request
  <1>3. GoodRequest(held, q)
    BY <1>1, <1>2 DEF GoodRequest
  <1>4. req' = [req EXCEPT ![r] = q] /\ res' = None /\ UNCHANGED <<world, stores, cookie, state>>
    BY DEF Send
  <1> HIDE DEF q
  <1> QED
    BY <1>3, <1>4, RequestInv

\* The steps of the browser.
LEMMA BrowserInv ==
  ASSUME Inv, NEW r \in Requests, NEW n \in Nodes, NEW rt \in Routes,
         \/ Browse(r, n, rt)
         \/ Fetch(r, n, rt)
         \/ \E params \in Strays : Stray(r, n, rt, params)
  PROVE  Inv'
  <1>1. nav \in {"page", "waiting", "login", "done"} /\ state \in Keys \cup {None}
    BY DEF Inv, TypeOK
  <1>2. CASE OpenPage(r, n, rt)
    BY <1>2, SendInv DEF OpenPage
  <1>3. CASE Return(r, n, rt)
    BY <1>1, <1>3, SendInv DEF Return
  <1>4. CASE Fetch(r, n, rt)
    BY <1>1, <1>4, SendInv DEF Fetch
  <1>5. ASSUME NEW params \in Strays, Stray(r, n, rt, params) PROVE Inv'
    BY <1>1, <1>5, SendInv, PoliciesAssumption DEF Stray
  <1> QED
    BY <1>2, <1>3, <1>4, <1>5 DEF Browse

-----------------------------------------------------------------------------
(* Handlers *)

\* The first part of check: answers without the provider.
LEMMA CheckInv ==
  ASSUME Inv, NEW r \in Requests,
         Unknown(r) \/ StartOidc(r) \/ Authorize(r) \/ BadCallback(r)
  PROVE  Inv'
  <1>1. CASE Unknown(r)
    BY <1>1, PlainAnswerInv DEF Unknown, Statuses
  <1>2. CASE StartOidc(r)
    BY <1>2, PlainAnswerInv, CheckedPolicy DEF StartOidc, Statuses
  <1>3. CASE Authorize(r)
    BY <1>3, PlainAnswerInv DEF Authorize, Statuses
  <1>4. CASE BadCallback(r)
    BY <1>4, PlainAnswerInv DEF BadCallback, Statuses
  <1> QED
    BY <1>1, <1>2, <1>3, <1>4

\* Before the provider is asked, the policy is put aside.
LEMMA AskInv ==
  ASSUME Inv, NEW r \in Requests, UpdateToken(r) \/ FinishOidc(r)
  PROVE  Inv'
  <1>1. req \in [Requests -> Request] /\ req[r] \in Request /\ GoodRequest(held, req[r])
    BY DEF Inv, TypeOK
  <1>2. nav \in {"page", "waiting", "login", "done"}
    BY DEF Inv, TypeOK
  <1>3. Checked(r) /\ Pol(r) \in Policies /\ req[r].at = "sent" /\ req[r].node \in Nodes
    BY CheckedPolicy DEF UpdateToken, FinishOidc, Checked
  <1>4. CASE UpdateToken(r)
    <2>1. PICK s \in sess[req[r].node] :
            req' = [req EXCEPT ![r].at = "refresh", ![r].pol = Pol(r), ![r].rexp = s.rexp]
      BY <1>4 DEF UpdateToken
    <2>2. s.rexp \in Nat
      BY <1>3, <2>1 DEF Inv, TypeOK, Sessions
    <2> DEFINE q == [req[r] EXCEPT !.at = "refresh", !.pol = Pol(r), !.rexp = s.rexp]
    <2>3. q \in Request /\ q.at = "refresh" /\ q.node = req[r].node /\ q.pol = Pol(r)
          /\ q.tok = req[r].tok /\ q.grant = req[r].grant
      BY <1>1, <1>3, <2>2 DEF Request
    <2>4. GoodRequest(held, q)
      BY <1>1, <1>3, <2>3 DEF GoodRequest
    <2>5. req' = [req EXCEPT ![r] = q]
      BY <1>1, <2>1
    <2> HIDE DEF q
    <2> QED
      BY <1>2, <1>4, <2>4, <2>5, RequestInv DEF UpdateToken, browser
  <1>5. CASE FinishOidc(r)
    <2> DEFINE q == [req[r] EXCEPT !.at = "exchange", !.pol = Pol(r)]
    <2>1. q \in Request /\ q.at = "exchange" /\ q.node = req[r].node /\ q.pol = Pol(r)
          /\ q.tok = req[r].tok /\ q.grant = req[r].grant
      BY <1>1, <1>3 DEF Request
    <2>2. GoodRequest(held, q)
      BY <1>1, <1>3, <2>1 DEF GoodRequest
    <2>3. req' = [req EXCEPT ![r] = q]
      BY <1>1, <1>5 DEF FinishOidc
    <2> HIDE DEF q
    <2> QED
      BY <1>2, <1>5, <2>2, <2>3, RequestInv DEF FinishOidc, browser
  <1> QED
    BY <1>4, <1>5

\* The end of a process takes requests, sessions and policies away.
LEMMA EndInv ==
  ASSUME Inv, NEW n \in Nodes, ProcessEnds(n)
  PROVE  Inv'
  <1>1. Idle \in Request /\ GoodRequest(held, Idle)
    BY IdleGood DEF GoodRequest
  <1>2. /\ req' \in [Requests -> Request]
        /\ \A x \in Requests : GoodRequest(held, req'[x])
    BY <1>1 DEF Inv, TypeOK, ProcessEnds
  <1>3. /\ sess' \in [Nodes -> SUBSET Sessions]
        /\ \A k \in Nodes : sess'[k] \subseteq sess[k]
    BY DEF Inv, TypeOK, ProcessEnds
  <1>4. /\ index' \in [Nodes -> SUBSET Tokens] /\ lost' \in BOOLEAN
        /\ policy' \in [Nodes -> Policies \cup {None}]
    BY DEF Inv, TypeOK, ProcessEnds
  <1>5. nav' \in {"page", "waiting", "login", "done"} /\ res' \in Statuses \cup {None}
    BY DEF ProcessEnds, Inv, TypeOK, Statuses
  <1>6. TypeOK'
    BY <1>2, <1>3, <1>4, <1>5 DEF Inv, TypeOK, ProcessEnds
  <1>7. Recorded(held)'
    BY DEF Inv, Recorded, ProcessEnds
  <1> QED
    BY <1>2, <1>3, <1>6, <1>7 DEF Inv, ProcessEnds

\* The provider grants the roles the user has now, for a time from now on.
LEMMA GrantInv ==
  ASSUME Inv, NEW r \in Requests, ProviderGrants(r)
  PROVE  Inv'
  <1>1. PICK exp \in {now + AccessTTL, Never} :
          req' = [req EXCEPT ![r].at = "data",
            ![r].grant = [roles |-> grants, exp |-> exp, rexp |-> now + RefreshTTL]]
    BY DEF ProviderGrants
  <1> DEFINE g == [roles |-> grants, exp |-> exp, rexp |-> now + RefreshTTL]
             q == [req[r] EXCEPT !.at = "data", !.grant = g]
  <1>2. /\ req \in [Requests -> Request] /\ req[r] \in Request /\ GoodRequest(held, req[r])
        /\ req[r].at \in {"exchange", "refresh"}
    BY DEF Inv, TypeOK, ProviderGrants
  <1>3. /\ now \in Times /\ grants \in SUBSET Roles /\ grants \in held[now]
        /\ nav \in {"page", "waiting", "login", "done"}
    BY DEF Inv, TypeOK, Recorded
  <1>4. g \in Grants /\ Together(held, g, g.rexp)
    <2>1. now \in Nat /\ now + AccessTTL \in Nat /\ now + RefreshTTL \in Nat
      BY <1>3, TimesAssumption DEF Times
    <2> QED
      BY <1>1, <1>3, <2>1 DEF Grants, Together, At
  <1>5. q \in Request /\ q.at = "data" /\ q.node = req[r].node /\ q.pol = req[r].pol
        /\ q.tok = req[r].tok /\ q.grant = g
    BY <1>2, <1>4 DEF Request
  <1>6. req' = [req EXCEPT ![r] = q]
    BY <1>1, <1>2
  <1> HIDE DEF g, q
  <1>7. GoodRequest(held, q)
    BY <1>2, <1>4, <1>5 DEF GoodRequest
  <1> QED
    BY <1>3, <1>6, <1>7, RequestInv DEF ProviderGrants, browser

\* setToken makes a token and a session of what was granted.
LEMMA NewGood ==
  ASSUME Inv, NEW r \in Requests, req[r].at \in {"data", "stored"}
  PROVE  /\ req[r].node \in Nodes
         /\ NewToken(r) \in Tokens /\ Granted(held, NewToken(r))
         /\ NewSession(r).tok = NewToken(r) /\ GoodSession(held, NewSession(r))
  <1>1. GoodRequest(held, req[r])
    BY DEF Inv
  <1>2. /\ req[r].node \in Nodes /\ req[r].pol.key \in Keys /\ req[r].grant \in Grants
        /\ Together(held, req[r].grant, req[r].grant.rexp)
    BY <1>1 DEF GoodRequest, Keys
  <1>3. NewToken(r) \in Tokens /\ NewSession(r) \in Sessions
    BY <1>2 DEF NewToken, NewSession, Tokens, Sessions, Grants
  <1>4. /\ NewToken(r).roles = req[r].grant.roles /\ NewToken(r).exp = req[r].grant.exp
        /\ NewSession(r).tok = NewToken(r) /\ NewSession(r).rexp = req[r].grant.rexp
    BY DEF NewToken, NewSession
  <1> HIDE DEF NewToken, NewSession
  <1>5. Together(held, NewToken(r), NewSession(r).rexp)
    BY <1>2, <1>4 DEF Together, At
  <1>6. Granted(held, NewToken(r))
    BY <1>5 DEF Together, Granted
  <1> QED
    BY <1>2, <1>3, <1>4, <1>5, <1>6 DEF GoodSession

\* A store finds what it has got, and all it found before.
LEMMA StoredGood ==
  ASSUME Inv, NEW n \in Nodes, NEW s, GoodSession(held, s), Stored(n, s)
  PROVE  /\ sess' \in [Nodes -> SUBSET Sessions] /\ index' \in [Nodes -> SUBSET Tokens]
         /\ lost' \in BOOLEAN
         /\ \A k \in Nodes : \A x \in sess'[k] : GoodSession(held, x)
         /\ s.tok \in index'[n] /\ \A k \in Nodes : index[k] \subseteq index'[k]
  <1>1. s \in Sessions /\ s.tok \in Tokens
    BY DEF GoodSession, Sessions
  <1>2. sess \in [Nodes -> SUBSET Sessions] /\ index \in [Nodes -> SUBSET Tokens]
    BY DEF Inv, TypeOK
  <1>3. /\ sess' = [sess EXCEPT ![n] = @ \cup {s}]
        /\ index' = [index EXCEPT ![n] = @ \cup {s.tok}]
        /\ lost' \in BOOLEAN
    BY DEF Stored, Inv, TypeOK
  <1>4. /\ sess' \in [Nodes -> SUBSET Sessions] /\ index' \in [Nodes -> SUBSET Tokens]
    BY <1>1, <1>2, <1>3
  <1>5. \A k \in Nodes : \A x \in sess'[k] : GoodSession(held, x)
    BY <1>2, <1>3 DEF Inv
  <1>6. s.tok \in index'[n] /\ \A k \in Nodes : index[k] \subseteq index'[k]
    BY <1>2, <1>3
  <1> QED
    BY <1>3, <1>4, <1>5, <1>6

\* setToken stores the session, and has the token in hand.
LEMMA StoreSessionInv ==
  ASSUME Inv, NEW r \in Requests, StoreSession(r)
  PROVE  Inv'
  <1> DEFINE q == [req[r] EXCEPT !.at = "stored"]
  <1>1. /\ req \in [Requests -> Request] /\ req[r] \in Request /\ GoodRequest(held, req[r])
        /\ req[r].at = "data"
    BY DEF Inv, TypeOK, StoreSession
  <1>2. q \in Request /\ q.at = "stored" /\ q.node = req[r].node /\ q.pol = req[r].pol
        /\ q.tok = req[r].tok /\ q.grant = req[r].grant
    BY <1>1 DEF Request
  <1>3. req' = [req EXCEPT ![r] = q] /\ res' = None /\ UNCHANGED <<world, browser>>
    BY <1>1 DEF StoreSession
  <1> HIDE DEF q
  <1>4. GoodRequest(held, q)
    BY <1>1, <1>2 DEF GoodRequest
  <1>5. /\ req' \in [Requests -> Request]
        /\ \A x \in Requests : GoodRequest(held, req'[x])
    BY <1>1, <1>2, <1>3, <1>4 DEF Inv
  <1>6. /\ sess' \in [Nodes -> SUBSET Sessions] /\ index' \in [Nodes -> SUBSET Tokens]
        /\ lost' \in BOOLEAN
        /\ \A k \in Nodes : \A x \in sess'[k] : GoodSession(held, x)
    BY <1>1, NewGood, StoredGood DEF StoreSession
  <1>7. TypeOK'
    BY <1>3, <1>5, <1>6 DEF Inv, TypeOK, world, browser
  <1>8. Recorded(held)'
    BY <1>3 DEF Inv, Recorded, world
  <1> QED
    BY <1>3, <1>5, <1>6, <1>7, <1>8 DEF Inv, world, browser

\* The browser gets a token of what was granted.
LEMMA SetTokenInv ==
  ASSUME Inv, NEW r \in Requests, SetToken(r)
  PROVE  Inv'
  <1>1. NewToken(r) \in Tokens /\ Granted(held, NewToken(r))
    BY NewGood DEF SetToken
  <1> QED
    BY <1>1, AnswerInv DEF SetToken, Statuses

\* Every step of a handler.
LEMMA HandleInv == ASSUME Inv, NEW r \in Requests, Handle(r) PROVE Inv'
  <1>1. CASE ProviderRefuses(r)
    BY <1>1, PlainAnswerInv DEF ProviderRefuses, Statuses
  <1>2. CASE TokenDataFails(r)
    BY <1>2, PlainAnswerInv DEF TokenDataFails, Statuses
  <1>3. ASSUME Panic(r) \/ TokenDataPanics(r) PROVE Inv'
    <2>1. req[r].node \in Nodes
      BY <1>3 DEF Inv, GoodRequest, Panic, Checked, TokenDataPanics
    <2> QED
      BY <1>3, <2>1, EndInv DEF Panic, TokenDataPanics
  <1> QED
    BY <1>1, <1>2, <1>3, CheckInv, AskInv, GrantInv, StoreSessionInv, SetTokenInv DEF Handle

-----------------------------------------------------------------------------
(* The rest of the system *)

\* Sessions are copied and cleaned.
LEMMA SessionsInv ==
  ASSUME Inv, NEW n \in Nodes, NEW m \in Nodes, NEW s \in sess[n], Replicate(n, m, s) \/ Clean(n, s)
  PROVE  Inv'
  <1>1. /\ sess' \in [Nodes -> SUBSET Sessions] /\ index' \in [Nodes -> SUBSET Tokens]
        /\ lost' \in BOOLEAN
        /\ \A k \in Nodes : \A x \in sess'[k] : GoodSession(held, x)
    <2>1. GoodSession(held, s)
      BY DEF Inv
    <2>2. CASE Replicate(n, m, s)
      BY <2>1, <2>2, StoredGood DEF Replicate
    <2>3. CASE Clean(n, s)
      BY <2>3 DEF Clean, Inv, TypeOK
    <2> QED
      BY <2>2, <2>3
  <1>2. UNCHANGED <<world, browser, req>> /\ res' = None
    BY DEF Replicate, Clean
  <1>3. TypeOK'
    BY <1>1, <1>2 DEF Inv, TypeOK, world, browser
  <1>4. Recorded(held)'
    BY <1>2 DEF Inv, Recorded, world
  <1> QED
    BY <1>1, <1>2, <1>3, <1>4 DEF Inv, world, browser

\* The record of what the user has had grows with the clock and the grants.
LEMMA TimeInv ==
  ASSUME Inv, Tick \/ \E g \in SUBSET Roles : ChangeGrants(g)
  PROVE  Inv'
  <1>1. /\ now \in Times /\ held \in [Times -> SUBSET SUBSET Roles] /\ grants \in SUBSET Roles
        /\ Recorded(held)
    BY DEF Inv, TypeOK
  <1>2. UNCHANGED <<policy, stores, browser, req>> /\ res' = None
    BY DEF Tick, ChangeGrants
  <1> DEFINE Grows == /\ now' \in Times /\ grants' \in SUBSET Roles
                      /\ held' \in [Times -> SUBSET SUBSET Roles]
                      /\ \A t \in Times : held[t] \subseteq held'[t]
                      /\ Recorded(held)'
  <1>3. Grows
    <2>1. CASE Tick
      <3>1. /\ now + 1 \in Times /\ now' = now + 1 /\ grants' = grants
            /\ held' = [held EXCEPT ![now + 1] = {grants}]
        BY <1>1, <2>1, TimesAssumption DEF Tick, Times
      <3>2. held[now + 1] = {}
        BY <1>1, <3>1 DEF Recorded, Times
      <3>3. \A t \in Times : t > now + 1 => held'[t] = {}
        BY <1>1, <3>1, TimesAssumption DEF Recorded, Times
      <3>4. \A t \in Times : held[t] \subseteq held'[t]
        BY <1>1, <3>1, <3>2
      <3> QED
        BY <1>1, <3>1, <3>3, <3>4 DEF Recorded
    <2>2. ASSUME NEW g \in SUBSET Roles, ChangeGrants(g)
          PROVE  Grows
      <3>1. now' = now /\ grants' = g /\ held' = [held EXCEPT ![now] = @ \cup {g}]
        BY <2>2 DEF ChangeGrants
      <3>2. \A t \in Times : t > now => held'[t] = {}
        BY <1>1, <3>1, TimesAssumption DEF Recorded, Times
      <3> QED
        BY <1>1, <3>1, <3>2 DEF Recorded
    <2> QED
      BY <2>1, <2>2
  <1>4. TypeOK'
    BY <1>2, <1>3 DEF Inv, TypeOK, browser, stores
  <1>5. /\ \A n \in Nodes : \A s \in sess'[n] : GoodSession(held', s)
        /\ cookie' # None => Granted(held', cookie')
        /\ \A r \in Requests : GoodRequest(held', req'[r])
    BY <1>2, <1>3, GoodGrows DEF Inv, browser, stores
  <1> QED
    BY <1>3, <1>4, <1>5 DEF Inv

\* Nothing is granted before the start but what the user has then.
LEMMA InitInv == Init => Inv
  <1> SUFFICES ASSUME Init PROVE Inv
    OBVIOUS
  <1>1. GoodRequest(held, Idle) /\ Idle \in Request
    BY IdleGood DEF GoodRequest
  <1>2. 0 \in Times
    BY TimesAssumption DEF Times
  <1>3. held \in [Times -> SUBSET SUBSET Roles] /\ Recorded(held)
    BY <1>2, TimesAssumption DEF Init, Recorded, Times
  <1>4. TypeOK
    BY <1>1, <1>2, <1>3 DEF Init, TypeOK
  <1> QED
    BY <1>1, <1>3, <1>4 DEF Init, Inv

\* One step per action.
LEMMA NextInv == Inv /\ [Next]_vars => Inv'
  <1> SUFFICES ASSUME Inv, [Next]_vars PROVE Inv'
    OBVIOUS
  <1>1. CASE UNCHANGED vars
    <2>1. TypeOK' /\ Recorded(held)'
      BY <1>1 DEF Inv, TypeOK, Recorded, vars, world, stores, browser
    <2> QED
      BY <1>1, <2>1 DEF Inv, vars, world, stores, browser
  <1>2. CASE Navigate
    <2>1. TypeOK' /\ Recorded(held)'
      BY <1>2 DEF Inv, TypeOK, Recorded, Navigate, world, stores
    <2> QED
      BY <1>2, <2>1 DEF Inv, Navigate, world, stores
  <1>3. ASSUME NEW n \in Nodes, NEW pol \in Changes, ChangePolicy(n, pol) PROVE Inv'
    <2>1. TypeOK' /\ Recorded(held)'
      BY <1>3, PoliciesAssumption DEF Inv, TypeOK, Recorded, ChangePolicy, stores, browser
    <2> QED
      BY <1>3, <2>1 DEF Inv, ChangePolicy, stores, browser
  <1> QED
    BY <1>1, <1>2, <1>3, HandleInv, BrowserInv, SessionsInv, TimeInv, EndInv DEF Next, Restart

\* The invariant holds in every state of the specification.
THEOREM Invariance == Spec => []Inv
  BY InitInv, NextInv, PTL DEF Spec

\* Whatever requests, replication, policies and the clock do, the nodes, the
\* browser and the requests hold what AuthCheck says: the cookie is a token
\* and never anything else a session has.
THEOREM TypeCorrect == Spec => []TypeOK
  <1>1. Inv => TypeOK
    BY DEF Inv
  <1> QED
    BY <1>1, Invariance, PTL

\* The roles in a token, in the cookie, in a session on any node and in a
\* grant on its way, are roles the user had when the provider granted it.
THEOREM ClaimsGranted == Spec => []TokensGranted
  <1>1. ASSUME Inv, NEW n \in Nodes, NEW s \in sess[n]
        PROVE  \E t \in Times : GrantedAt(s.tok, t)
    BY <1>1 DEF Inv, GoodSession, Together, At, GrantedAt
  <1>2. ASSUME Inv, NEW r \in Requests, req[r].grant # None
        PROVE  \E t \in Times : GrantedAt(req[r].grant, t)
    BY <1>2 DEF Inv, GoodRequest, Together, At, GrantedAt
  <1>3. ASSUME Inv, cookie # None
        PROVE  \E t \in Times : GrantedAt(cookie, t)
    BY <1>3 DEF Inv, Granted, At, GrantedAt
  <1>4. Inv => TokensGranted
    BY <1>1, <1>2, <1>3 DEF TokensGranted
  <1> QED
    BY <1>4, Invariance, PTL

\* Only check answers OK, to a request with a token that has not expired; it
\* was granted at most AccessTTL ago, and with the roles that the route needs.
THEOREM RolesRevokedInTime == Spec => RevokedInTime
  <1> DEFINE InTime == \A r \in Requests : Allowed(r) =>
               \E t \in Times : /\ now - AccessTTL <= t \/ req[r].tok.exp = Never
                                /\ t <= now
                                /\ \E g \in held[t] : HasRoles(Pol(r).need[req[r].route], g)
  <1>1. ASSUME Inv, NEW r \in Requests, Authorize(r), res' = "OK"
        PROVE  \E t \in Times : /\ now - AccessTTL <= t \/ req[r].tok.exp = Never
                                /\ t <= now
                                /\ \E g \in held[t] : HasRoles(Pol(r).need[req[r].route], g)
    <2> DEFINE tok == req[r].tok
    <2>1. /\ tok # None /\ ~IsExpired(tok)
          /\ HasRoles(Pol(r).need[req[r].route], tok.roles)
      BY <1>1 DEF Authorize, IsAuthenticated, Answer
    <2>2. tok \in Tokens /\ Granted(held, tok) /\ now \in Times
      BY <1>1, <2>1 DEF Inv, TypeOK, GoodRequest, Request
    <2>3. PICK t \in Times : tok.roles \in held[t] /\ tok.exp \in {Never, t + AccessTTL}
      BY <2>2 DEF Granted, At
    <2>4. now - AccessTTL <= t \/ tok.exp = Never
      BY <2>1, <2>2, <2>3, TimesAssumption DEF IsExpired, Times
    <2>5. t <= now
      BY <1>1, <2>2, <2>3, TimesAssumption DEF Inv, Recorded, Times
    <2> QED
      BY <2>1, <2>3, <2>4, <2>5
  <1>2. ASSUME Inv, NEW r \in Requests, Allowed(r), NEW x \in Requests, Handle(x)
        PROVE  Authorize(r) /\ res' = "OK"
    <2>1. /\ req \in [Requests -> Request] /\ req[r].at = "sent" /\ Idle.at = "idle"
          /\ req'[r] = Idle /\ res' = "OK"
      BY <1>2 DEF Inv, TypeOK, Allowed, Idle
    <2>2. ~UpdateToken(x)
      <3> SUFFICES ASSUME UpdateToken(x) PROVE FALSE
        OBVIOUS
      <3>1. PICK y \in sess[req[x].node] :
              req' = [req EXCEPT ![x].at = "refresh", ![x].pol = Pol(x), ![x].rexp = y.rexp]
        BY DEF UpdateToken
      <3>2. req'[r].at \in {"refresh", "sent"}
        BY <2>1, <3>1 DEF Request
      <3> QED
        BY <2>1, <3>2
    <2>3. ~FinishOidc(x)
      <3> SUFFICES ASSUME FinishOidc(x) PROVE FALSE
        OBVIOUS
      <3>1. req'[r].at \in {"exchange", "sent"}
        BY <2>1 DEF FinishOidc, Request
      <3> QED
        BY <2>1, <3>1
    <2>4. ~ProviderGrants(x)
      BY <2>1 DEF ProviderGrants
    <2>5. ~StoreSession(x)
      BY <2>1 DEF StoreSession
    <2>6. ~Panic(x) /\ ~TokenDataPanics(x)
      BY <2>1 DEF Panic, TokenDataPanics, ProcessEnds
    <2>7. Authorize(x)
      BY <1>2, <2>1, <2>2, <2>3, <2>4, <2>5, <2>6 DEF Handle, Unknown, StartOidc, BadCallback,
         SetToken, TokenDataFails, ProviderRefuses, Answer
    <2>8. x = r
      BY <2>1, <2>7 DEF Authorize, Answer
    <2> QED
      BY <2>1, <2>7, <2>8
  <1>3. ASSUME Inv, [Next]_vars, NEW r \in Requests, Allowed(r)
        PROVE  \E x \in Requests : Handle(x)
    <2>1. /\ req \in [Requests -> Request] /\ req[r].at = "sent" /\ Idle.at = "idle"
          /\ req'[r] = Idle
      BY <1>3 DEF Inv, TypeOK, Allowed, Idle
    <2>2. ASSUME NEW x \in Requests, NEW n, NEW kind, NEW rt, NEW key, NEW params,
                 Send(x, n, kind, rt, key, params)
          PROVE  FALSE
      BY <2>1, <2>2 DEF Send
    <2>3. ~(UNCHANGED req)
      BY <2>1
    <2>4. ASSUME NEW n, Restart(n) PROVE FALSE
      BY <1>3, <2>4 DEF Restart, ProcessEnds, Allowed
    <2> QED
      BY <1>3, <2>2, <2>3, <2>4 DEF Next, vars, Browse, OpenPage, Return, Fetch, Stray, Navigate,
         Replicate, Clean, ChangePolicy, ChangeGrants, Tick
  <1>4. Inv /\ [Next]_vars => InTime
    BY <1>1, <1>2, <1>3
  <1> QED
    BY <1>4, Invariance, PTL DEF Spec, RevokedInTime

-----------------------------------------------------------------------------
(* Cookies and sessions *)

\* A session of the token was granted so long before m that it may be gone.
Old(h, m, tok) == \E t \in Times : At(h, tok, t) /\ t + RefreshTTL < m - Grace

\* Until it answers, the process that has stored a session finds it, whatever
\* the other requests, nodes and processes do, or it is an old one.
StoredThere ==
    \A r \in Requests : req[r].at = "stored" =>
        NewToken(r) \in index[req[r].node] \/ Old(held, now, NewToken(r))

\* CookieBacked, in these terms.
Backed(tok) == lost \/ (\E n \in Nodes : tok \in index[n]) \/ Old(held, now, tok)
Backs == StoredThere /\ (cookie # None => Backed(cookie))

\* Time passes: an old session stays old.
LEMMA Ages ==
  ASSUME Inv, now' \in Times, now <= now', \A t \in Times : held[t] \subseteq held'[t], NEW tok
  PROVE  Old(held, now, tok) => Old(held', now', tok)
  <1> SUFFICES ASSUME NEW t \in Times, At(held, tok, t), t + RefreshTTL < now - Grace
               PROVE  At(held', tok, t) /\ t + RefreshTTL < now' - Grace
    BY DEF Old
  <1>1. At(held', tok, t)
    BY DEF At
  <1>2. t \in Nat /\ now \in Nat /\ now' \in Nat
    BY DEF Inv, TypeOK, Times
  <1> QED
    BY <1>1, <1>2, TimesAssumption

\* A step that forgets no session, gives the browser no other token and stores
\* nothing for a request.
LEMMA BacksKept ==
  ASSUME Inv, Backs, cookie' = cookie, now' \in Times, now <= now',
         \A t \in Times : held[t] \subseteq held'[t],
         \A n \in Nodes : index[n] \subseteq index'[n],
         lost => lost' \/ (cookie # None => \E n \in Nodes : cookie \in index'[n]),
         \A r \in Requests : req'[r].at = "stored" => req'[r] = req[r]
  PROVE  Backs'
  <1>1. ASSUME NEW r \in Requests, req'[r].at = "stored"
        PROVE  NewToken(r)' \in index'[req'[r].node] \/ Old(held', now', NewToken(r)')
    <2>1. req'[r] = req[r] /\ NewToken(r)' = NewToken(r) /\ req[r].node \in Nodes
      BY <1>1 DEF NewToken, Inv, GoodRequest
    <2> QED
      BY <1>1, <2>1, Ages DEF Backs, StoredThere
  <1>2. cookie' # None => Backed(cookie)'
    BY Ages DEF Backs, Backed
  <1> QED
    BY <1>1, <1>2 DEF Backs, StoredThere

\* Where nothing happens to clock, sessions and cookie, it is enough to look at
\* what requests have stored.
LEMMA Unmoved ==
  ASSUME Inv, Backs, UNCHANGED <<now, held, stores, cookie>>,
         \A r \in Requests : req'[r].at = "stored" => req'[r] = req[r]
  PROVE  Backs'
  <1>1. now' \in Times /\ now <= now'
    BY TimesAssumption DEF Inv, TypeOK, Times
  <1> QED
    BY <1>1, BacksKept DEF stores

\* An answer without a token.
LEMMA PlainAnswerBacks ==
  ASSUME Inv, Backs, NEW r \in Requests, NEW status, NEW key,
         Answer(r, status, None, key), UNCHANGED <<world, stores>>
  PROVE  Backs'
  <1>1. cookie' = cookie
    BY DEF Answer
  <1>2. \A x \in Requests : req'[x].at = "stored" => req'[x] = req[x]
    BY DEF Answer, Idle, Inv, TypeOK
  <1> QED
    BY <1>1, <1>2, Unmoved DEF world

\* setToken stores the session before it has the token in hand.
LEMMA StoreBacks ==
  ASSUME Inv, Backs, NEW r \in Requests, StoreSession(r)
  PROVE  Backs'
  <1>1. /\ req[r].at = "data" /\ Stored(req[r].node, NewSession(r))
        /\ req' = [req EXCEPT ![r].at = "stored"] /\ UNCHANGED <<world, browser>>
        /\ req \in [Requests -> Request]
    BY DEF StoreSession, Inv, TypeOK
  <1>2. /\ req[r].node \in Nodes
        /\ NewToken(r) \in index'[req[r].node] /\ \A k \in Nodes : index[k] \subseteq index'[k]
    BY <1>1, NewGood, StoredGood
  <1>3. /\ req'[r].node = req[r].node /\ NewToken(r)' = NewToken(r)
        /\ \A x \in Requests \ {r} : req'[x] = req[x]
    BY <1>1 DEF Request, NewToken
  <1>4. ASSUME NEW x \in Requests, req'[x].at = "stored"
        PROVE  NewToken(x)' \in index'[req'[x].node] \/ Old(held', now', NewToken(x)')
    <2>1. CASE x = r
      BY <1>2, <1>3, <2>1
    <2>2. CASE x # r
      <3>1. req'[x] = req[x] /\ NewToken(x)' = NewToken(x) /\ req[x].node \in Nodes
        BY <1>3, <1>4, <2>2 DEF NewToken, Inv, GoodRequest
      <3> QED
        BY <1>1, <1>2, <1>4, <3>1 DEF Backs, StoredThere, world
    <2> QED
      BY <2>1, <2>2
  <1>5. cookie' = cookie /\ now' = now /\ held' = held
    BY <1>1 DEF world, browser
  <1>6. lost /\ ~lost' => cookie = NewToken(r)
    BY <1>1 DEF Stored, NewSession
  <1>7. cookie' # None => Backed(cookie)'
    BY <1>2, <1>5, <1>6 DEF Backs, Backed
  <1> QED
    BY <1>4, <1>7 DEF Backs, StoredThere

\* The browser gets the token of a session that is still there, or old.
LEMMA SetTokenBacks ==
  ASSUME Inv, Backs, NEW r \in Requests, SetToken(r)
  PROVE  Backs'
  <1>1. /\ req[r].at = "stored" /\ UNCHANGED <<world, sess, index>>
        /\ req' = [req EXCEPT ![r] = Idle] /\ cookie' = NewToken(r)
        /\ req \in [Requests -> Request] /\ req[r].node \in Nodes
    BY NewGood, NoneAssumption DEF SetToken, Answer, Inv, TypeOK, GoodRequest
  <1>2. \A x \in Requests : req'[x].at = "stored" => x # r /\ req'[x] = req[x]
    BY <1>1 DEF Idle
  <1>3. ASSUME NEW x \in Requests, req'[x].at = "stored"
        PROVE  NewToken(x)' \in index'[req'[x].node] \/ Old(held', now', NewToken(x)')
    <2>1. req'[x] = req[x] /\ NewToken(x)' = NewToken(x)
      BY <1>2, <1>3 DEF NewToken
    <2> QED
      BY <1>1, <1>3, <2>1 DEF Backs, StoredThere, world
  <1>4. NewToken(r) \in index[req[r].node] \/ Old(held, now, NewToken(r))
    BY <1>1 DEF Backs, StoredThere
  <1>5. cookie' # None => Backed(cookie)'
    BY <1>1, <1>4 DEF Backed, world
  <1> QED
    BY <1>3, <1>5 DEF Backs, StoredThere

\* The cleaner makes a node forget the tokens of old sessions only.
LEMMA CleanBacks ==
  ASSUME Inv, Backs, NEW n \in Nodes, NEW s \in sess[n], Clean(n, s)
  PROVE  Backs'
  <1>1. /\ index' = [index EXCEPT ![n] = @ \ {s.tok}] /\ index \in [Nodes -> SUBSET Tokens]
        /\ UNCHANGED <<world, lost, browser, req>>
    BY DEF Clean, Inv, TypeOK
  <1>2. Old(held, now, s.tok)
    BY DEF Inv, GoodSession, Together, Old, Clean
  <1>3. \A k \in Nodes : \A tok : tok \in index[k] => tok \in index'[k] \/ Old(held, now, tok)
    BY <1>1, <1>2
  <1>4. ASSUME NEW r \in Requests, req'[r].at = "stored"
        PROVE  NewToken(r)' \in index'[req'[r].node] \/ Old(held', now', NewToken(r)')
    <2>1. req'[r] = req[r] /\ NewToken(r)' = NewToken(r) /\ req[r].node \in Nodes
      BY <1>1, <1>4 DEF NewToken, Inv, GoodRequest
    <2> QED
      BY <1>1, <1>3, <1>4, <2>1 DEF Backs, StoredThere, world
  <1>5. cookie' # None => Backed(cookie)'
    BY <1>1, <1>3 DEF Backs, Backed, world, browser
  <1> QED
    BY <1>4, <1>5 DEF Backs, StoredThere

\* With a process end its requests, and for good what only it had stored.
LEMMA EndBacks ==
  ASSUME Inv, Backs, NEW n \in Nodes, ProcessEnds(n)
  PROVE  Backs'
  <1>1. /\ req' = [q \in Requests |-> IF req[q].node = n THEN Idle ELSE req[q]]
        /\ index' = [index EXCEPT ![n] = {}] /\ index \in [Nodes -> SUBSET Tokens]
        /\ lost' = (lost \/ (cookie \in index[n] /\ \A m \in Nodes \ {n} : cookie \notin index[m]))
        /\ UNCHANGED <<now, held, cookie>>
    BY DEF ProcessEnds, Inv, TypeOK
  <1>2. ASSUME NEW r \in Requests, req'[r].at = "stored"
        PROVE  NewToken(r)' \in index'[req'[r].node] \/ Old(held', now', NewToken(r)')
    <2>1. req'[r] = req[r] /\ req[r].node # n
      BY <1>1, <1>2 DEF Idle
    <2>2. NewToken(r)' = NewToken(r) /\ req[r].node \in Nodes
      BY <1>2, <2>1 DEF NewToken, Inv, GoodRequest
    <2> QED
      BY <1>1, <1>2, <2>1, <2>2 DEF Backs, StoredThere
  <1>3. cookie' # None => Backed(cookie)'
    BY <1>1 DEF Backs, Backed
  <1> QED
    BY <1>2, <1>3 DEF Backs, StoredThere

\* The steps of a handler that stay as they are for sessions and tokens.
LEMMA HandleBacks == ASSUME Inv, Backs, NEW r \in Requests, Handle(r) PROVE Backs'
  <1>1. req \in [Requests -> Request]
    BY DEF Inv, TypeOK
  <1>2. CASE Unknown(r) \/ StartOidc(r) \/ Authorize(r) \/ BadCallback(r)
             \/ ProviderRefuses(r) \/ TokenDataFails(r)
    BY <1>2, PlainAnswerBacks DEF Unknown, StartOidc, Authorize, BadCallback, ProviderRefuses,
       TokenDataFails
  <1>3. CASE UpdateToken(r)
    <2>1. \A x \in Requests : req'[x].at = "stored" => req'[x] = req[x]
      BY <1>1, <1>3 DEF UpdateToken, Request
    <2> QED
      BY <1>3, <2>1, Unmoved DEF UpdateToken, world, browser
  <1>4. CASE FinishOidc(r)
    <2>1. \A x \in Requests : req'[x].at = "stored" => req'[x] = req[x]
      BY <1>1, <1>4 DEF FinishOidc, Request
    <2> QED
      BY <1>4, <2>1, Unmoved DEF FinishOidc, world, browser
  <1>5. CASE ProviderGrants(r)
    <2>1. \A x \in Requests : req'[x].at = "stored" => req'[x] = req[x]
      BY <1>1, <1>5 DEF ProviderGrants, Request
    <2> QED
      BY <1>5, <2>1, Unmoved DEF ProviderGrants, world, browser
  <1>6. CASE Panic(r) \/ TokenDataPanics(r)
    <2>1. req[r].node \in Nodes
      BY <1>6 DEF Inv, GoodRequest, Panic, Checked, TokenDataPanics
    <2> QED
      BY <1>6, <2>1, EndBacks DEF Panic, TokenDataPanics
  <1> QED
    BY <1>2, <1>3, <1>4, <1>5, <1>6, StoreBacks, SetTokenBacks DEF Handle

\* One step per action.
LEMMA NextBacks == Inv /\ Backs /\ [Next]_vars => Backs'
  <1> SUFFICES ASSUME Inv, Backs, [Next]_vars PROVE Backs'
    OBVIOUS
  <1>1. now \in Times /\ req \in [Requests -> Request]
    BY DEF Inv, TypeOK
  <1>2. CASE UNCHANGED vars
    BY <1>2, Unmoved DEF vars, world, browser
  <1>3. ASSUME NEW r \in Requests, NEW n \in Nodes, NEW rt \in Routes,
               \/ Browse(r, n, rt) \/ Fetch(r, n, rt)
               \/ \E params \in Strays : Stray(r, n, rt, params)
        PROVE  Backs'
    <2>1. PICK kind, key, params : Send(r, n, kind, rt, key, params)
      BY <1>3 DEF Browse, OpenPage, Return, Fetch, Stray
    <2>2. \A x \in Requests : req'[x].at = "stored" => req'[x] = req[x]
      BY <1>1, <2>1 DEF Send, Idle
    <2> QED
      BY <2>1, <2>2, Unmoved DEF Send, world
  <1>4. CASE Navigate
    BY <1>4, Unmoved DEF Navigate, world
  <1>5. ASSUME NEW n \in Nodes, NEW m \in Nodes, NEW s \in sess[n], Replicate(n, m, s)
        PROVE  Backs'
    <2>1. GoodSession(held, s) /\ Stored(m, s) /\ UNCHANGED <<world, browser, req>>
      BY <1>5 DEF Replicate, Inv
    <2>2. s.tok \in index'[m] /\ \A k \in Nodes : index[k] \subseteq index'[k]
      BY <2>1, StoredGood
    <2>3. lost => lost' \/ \E k \in Nodes : cookie \in index'[k]
      BY <2>1, <2>2 DEF Stored
    <2>4. now' \in Times /\ now <= now' /\ held' = held /\ cookie' = cookie /\ req' = req
      BY <1>1, <2>1, TimesAssumption DEF world, browser, Times
    <2> QED
      BY <2>2, <2>3, <2>4, BacksKept
  <1>6. ASSUME NEW n \in Nodes, NEW pol \in Changes, ChangePolicy(n, pol)
        PROVE  Backs'
    BY <1>6, Unmoved DEF ChangePolicy, browser
  <1>7. CASE Tick \/ \E g \in SUBSET Roles : ChangeGrants(g)
    <2>1. /\ now' \in Times /\ now <= now' /\ UNCHANGED <<stores, cookie, req>>
      BY <1>1, <1>7, TimesAssumption DEF Tick, ChangeGrants, browser, Times
    <2>2. \A t \in Times : held[t] \subseteq held'[t]
      <3>1. now + 1 > now /\ \A t \in Times : t > now => held[t] = {}
        BY <1>1, TimesAssumption DEF Inv, Recorded, Times
      <3>2. held \in [Times -> SUBSET SUBSET Roles]
        BY DEF Inv, TypeOK
      <3>3. CASE Tick
        BY <3>1, <3>2, <3>3 DEF Tick
      <3>4. CASE \E g \in SUBSET Roles : ChangeGrants(g)
        BY <3>2, <3>4 DEF ChangeGrants
      <3> QED
        BY <1>7, <3>3, <3>4
    <2> QED
      BY <2>1, <2>2, BacksKept DEF stores
  <1> QED
    BY <1>2, <1>3, <1>4, <1>5, <1>6, <1>7, HandleBacks, CleanBacks, EndBacks DEF Next, Restart

\* The token a browser gets has its session where it was stored, and later on
\* some node, however processes end in between, unless the cleaner may have
\* removed it, or the last process that had it has ended after the answer.
THEOREM CookiesBacked == Spec => []CookieBacked
  <1>1. Init => Backs
    BY DEF Init, Backs, StoredThere, Idle
  <1>2. \A tok : Old(held, now, tok) => MayBeCleaned(tok)
    BY DEF Old, At, MayBeCleaned, GrantedAt
  <1>3. Inv /\ Backs => CookieBacked
    BY <1>2 DEF Backs, Backed, CookieBacked
  <1> QED
    BY <1>1, <1>3, InitInv, NextInv, NextBacks, PTL DEF Spec
=============================================================================
