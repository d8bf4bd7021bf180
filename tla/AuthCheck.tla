----------------------------- MODULE AuthCheck -----------------------------
(***************************************************************************)
(* The external authorization service (package auth): how the requests of a *)
(* browser are allowed, refused or sent through a login at the OpenID       *)
(* provider, while sessions are replicated and cleaned, access policies and *)
(* the user's roles change, tokens expire and processes end.                *)
(*                                                                          *)
(* A bearer token is what its claims say and the key that signed it; as the *)
(* id of a session is the hash of its token, a session is its token and the *)
(* expiry of its refresh token.  A request is handled in one step up to a   *)
(* call of the provider, in one from its answer to the stored session, and  *)
(* in one from there to the answer.                                         *)
(***************************************************************************)
EXTENDS Integers, FiniteSets

CONSTANTS
    Nodes,      \* the replicas a request may go to
    Requests,   \* bound on requests in flight
    Mortal,     \* the replicas whose process may end
    Policies,   \* the versions of the access policy: key, and roles needed per route
    Changes,    \* what controllers may store: policies, or None for a deletion
    Roles,      \* the roles the user may have
    Strays,     \* numbers of state and code parameters of callbacks out of the blue
    AccessTTL,  \* expires_in of access tokens
    Unlimited,  \* whether the provider may leave expires_in out
    RefreshTTL, \* lifetime of refresh tokens
    Grace,      \* config.Sessions.CleaningGracePeriod
    MaxNow,     \* bound on the clock
    MaxSessions, \* bound on the sessions of all nodes, for a further one
    None

Keys == {pol.key : pol \in Policies}
Routes == UNION {DOMAIN pol.need : pol \in Policies}
Times == 0..MaxNow
Never == -1

ASSUME PoliciesAssumption ==
    /\ \A pol \in Policies : \A rt \in DOMAIN pol.need : pol.need[rt] \subseteq Roles
    /\ Changes \subseteq Policies \cup {None}
    /\ Strays \subseteq Nat \X Nat
ASSUME NodesAssumption == Mortal \subseteq Nodes
ASSUME TimesAssumption ==
    {AccessTTL, RefreshTTL, Grace, MaxNow, MaxSessions} \subseteq Nat /\ Unlimited \in BOOLEAN

VARIABLES
    now,     \* time.Now()
    policy,  \* the policy in each node's policy store, None for none
    sess,    \* the sessions in the lists of each node's session store
    index,   \* the tokens its Get finds a session for
    lost,    \* (history) whether no node finds the browser's token since a process ended
    grants,  \* the roles the user has at the provider
    nav,     \* what the browser does next on its way to a page
    cookie,  \* the bearer cookie of the browser
    state,   \* the key that signed the state parameter of the login under way
    req,     \* the requests in flight
    res,     \* the status of the answer given in the last step, None for none
    held     \* (history) the sets of roles the user had at each time

browser == <<nav, cookie, state>>
stores == <<sess, index, lost>>
world == <<now, policy, grants, held>>
vars == <<world, stores, browser, req, res>>

Idle == [at |-> "idle", node |-> None, kind |-> None, route |-> None, tok |-> None,
         key |-> None, params |-> <<0, 0>>, pol |-> None, rexp |-> 0, grant |-> None]

Init ==
    /\ now = 0
    /\ policy \in [Nodes -> Policies]
    /\ sess = [n \in Nodes |-> {}] /\ index = [n \in Nodes |-> {}] /\ lost = FALSE
    /\ grants = Roles
    /\ nav = "page" /\ cookie = None /\ state = None
    /\ req = [r \in Requests |-> Idle]
    /\ res = None
    /\ held = [t \in Times |-> IF t = 0 THEN {Roles} ELSE {}]

-----------------------------------------------------------------------------
(* The browser *)

Send(r, n, kind, rt, key, params) ==
    /\ req[r].at = "idle"
    /\ req' = [req EXCEPT ![r] = [Idle EXCEPT
         !.at = "sent", !.node = n, !.kind = kind, !.route = rt, !.tok = cookie,
         !.key = key, !.params = params]]
    /\ res' = None
    /\ UNCHANGED <<world, stores, cookie, state>>

\* A page is asked for (sec-fetch-mode is navigate, or absent).
OpenPage(r, n, rt) ==
    /\ nav = "page" /\ nav' = "waiting"
    /\ Send(r, n, "page", rt, None, <<0, 0>>)

\* Back from the provider, where the user has logged in.
Return(r, n, rt) ==
    /\ nav = "login" /\ nav' = "waiting"
    /\ Send(r, n, "callback", rt, state, <<1, 1>>)

\* What a page does besides: requests of scripts, and old callback links.
Fetch(r, n, rt) == Send(r, n, "fetch", rt, None, <<0, 0>>) /\ UNCHANGED nav
Stray(r, n, rt, params) == Send(r, n, "callback", rt, None, params) /\ UNCHANGED nav

Navigate ==
    /\ nav = "done" /\ nav' = "page"
    /\ res' = None
    /\ UNCHANGED <<world, stores, cookie, state, req>>

\* The request the browser is on its way with, and not a script or an old link.
Navigates(r) == req[r].kind = "page" \/ (req[r].kind = "callback" /\ req[r].key # None)

\* An answer: its status, the cookie it sets, the key of the state it carries.
Answer(r, status, tok, key) ==
    /\ req' = [req EXCEPT ![r] = Idle]
    /\ res' = status
    /\ cookie' = IF tok # None THEN tok ELSE cookie
    /\ state' = IF key # None THEN key ELSE state
    /\ nav' = IF ~Navigates(r) THEN nav
              ELSE IF status = "Login" THEN "login"
              ELSE IF status = "SetToken" THEN "page" ELSE "done"

-----------------------------------------------------------------------------
(* newRequest and check, up to the first call of the provider *)

Pol(r) == policy[req[r].node]
Known(r) == Pol(r) # None /\ req[r].route \in DOMAIN Pol(r).need
Checked(r) == req[r].at = "sent" /\ Known(r)

\* newRequest fails: no such policy or route.
Unknown(r) ==
    /\ req[r].at = "sent" /\ ~Known(r)
    /\ Answer(r, "BadRequest", None, None)
    /\ UNCHANGED <<world, stores>>

\* parseToken and the lookup of the session.
IsAuthenticated(r) ==
    /\ req[r].tok # None
    /\ req[r].tok.key = Pol(r).key
    /\ req[r].tok \in index[req[r].node]

\* Faulty: with a leeway of a tick.
IsExpired_Leeway(tok) == tok.exp # Never /\ tok.exp + 1 < now
\* isExpired: a token made without a lifetime has no expiry.
IsExpired(tok) == tok.exp # Never /\ tok.exp < now
HasRoles(required, provided) == required \subseteq provided

StartOidc(r) ==
    /\ Checked(r) /\ req[r].kind # "callback"
    /\ ~IsAuthenticated(r)
    /\ IF req[r].kind = "fetch" THEN Answer(r, "Forbidden", None, None)
       ELSE Answer(r, "Login", None, Pol(r).key)
    /\ UNCHANGED <<world, stores>>

Authorize(r) ==
    /\ Checked(r) /\ req[r].kind # "callback"
    /\ IsAuthenticated(r) /\ ~IsExpired(req[r].tok)
    /\ IF HasRoles(Pol(r).need[req[r].route], req[r].tok.roles)
       THEN Answer(r, "OK", None, None) ELSE Answer(r, "Forbidden", None, None)
    /\ UNCHANGED <<world, stores>>

\* updateToken, with the refresh token of the session.
UpdateToken(r) ==
    /\ Checked(r) /\ req[r].kind # "callback"
    /\ IsAuthenticated(r) /\ IsExpired(req[r].tok)
    /\ \E s \in sess[req[r].node] :
         /\ s.tok = req[r].tok
         /\ req' = [req EXCEPT ![r].at = "refresh", ![r].pol = Pol(r), ![r].rexp = s.rexp]
    /\ res' = None
    /\ UNCHANGED <<world, stores, browser>>

\* location() blanks the code parameters through the indices of the state
\* parameters.
LocationPanics(r) == req[r].params[1] < req[r].params[2]
GoodCallback(r) == req[r].params = <<1, 1>> /\ req[r].key = Pol(r).key

BadCallback(r) ==
    /\ Checked(r) /\ req[r].kind = "callback" /\ ~LocationPanics(r)
    /\ ~GoodCallback(r)
    /\ Answer(r, "BadRequest", None, None)
    /\ UNCHANGED <<world, stores>>

FinishOidc(r) ==
    /\ Checked(r) /\ req[r].kind = "callback" /\ ~LocationPanics(r)
    /\ GoodCallback(r)
    /\ req' = [req EXCEPT ![r].at = "exchange", ![r].pol = Pol(r)]
    /\ res' = None
    /\ UNCHANGED <<world, stores, browser>>

\* A process ends, and another one takes its place: the requests in it are
\* answered by the proxy, its sessions and policies are gone.
ProcessEnds(n) ==
    /\ n \in Mortal
    /\ req' = [q \in Requests |-> IF req[q].node = n THEN Idle ELSE req[q]]
    /\ res' = "Down"
    /\ sess' = [sess EXCEPT ![n] = {}] /\ index' = [index EXCEPT ![n] = {}]
    /\ lost' = (lost \/ (cookie \in index[n] /\ \A m \in Nodes \ {n} : cookie \notin index[m]))
    /\ policy' = [policy EXCEPT ![n] = None]
    /\ nav' = IF \E q \in Requests : req[q].node = n /\ Navigates(q) THEN "done" ELSE nav
    /\ UNCHANGED <<now, grants, held, cookie, state>>

\* A panic in a handler ends the process.
Panic(r) == Checked(r) /\ LocationPanics(r) /\ ProcessEnds(req[r].node)

-----------------------------------------------------------------------------
(* The provider, and what follows its answer *)

\* Exchange and TokenSource: new tokens for the roles the user has now.
ProviderGrants(r) ==
    /\ \/ req[r].at = "exchange"
       \/ req[r].at = "refresh" /\ now <= req[r].rexp
    /\ Cardinality(UNION {sess[n] : n \in Nodes}) < MaxSessions
    /\ \E exp \in {now + AccessTTL} \cup (IF Unlimited THEN {Never} ELSE {}) :
         req' = [req EXCEPT ![r].at = "data",
           ![r].grant = [roles |-> grants, exp |-> exp, rexp |-> now + RefreshTTL]]
    /\ res' = None
    /\ UNCHANGED <<world, stores, browser>>

ProviderRefuses(r) ==
    /\ req[r].at \in {"exchange", "refresh"}
    /\ Answer(r, "Forbidden", None, None)
    /\ UNCHANGED <<world, stores>>

\* TokenData fails: the provider's keys are not available, or the new tokens
\* have expired.
TokenDataFails(r) ==
    /\ req[r].at = "data"
    /\ Answer(r, "Error", None, None)
    /\ UNCHANGED <<world, stores>>

\* The provider's answer has no id_token, of which TokenData makes sure by a
\* type assertion.
TokenDataPanics(r) == req[r].at = "data" /\ ProcessEnds(req[r].node)

\* Faulty: the roles of the old token are kept.
NewToken_KeepsRoles(r) ==
    [key |-> req[r].pol.key, exp |-> req[r].grant.exp,
     roles |-> IF req[r].tok # None THEN req[r].tok.roles ELSE req[r].grant.roles]

\* The token and the session setToken makes of the provider's answer.
NewToken(r) == [key |-> req[r].pol.key, roles |-> req[r].grant.roles, exp |-> req[r].grant.exp]
NewSession(r) == [tok |-> NewToken(r), rexp |-> req[r].grant.rexp]

\* Sessions.Set appends a session and finds it from then on.
Stored(n, s) ==
    /\ sess' = [sess EXCEPT ![n] = @ \cup {s}]
    /\ index' = [index EXCEPT ![n] = @ \cup {s.tok}]
    /\ lost' = (lost /\ s.tok # cookie)

\* Faulty: the session is not stored.
StoreSession_Forgets(r) ==
    /\ req[r].at = "data" /\ ~IsExpired(req[r].grant)
    /\ req' = [req EXCEPT ![r].at = "stored"]
    /\ res' = None
    /\ UNCHANGED <<world, stores, browser>>

\* setToken stores the session and starts its pushes, which Replicate is.
StoreSession(r) ==
    /\ req[r].at = "data" /\ ~IsExpired(req[r].grant)
    /\ Stored(req[r].node, NewSession(r))
    /\ req' = [req EXCEPT ![r].at = "stored"]
    /\ res' = None
    /\ UNCHANGED <<world, browser>>

\* Faulty: the browser gets the session.
SetToken_GivesSession(r) ==
    /\ req[r].at = "stored"
    /\ Answer(r, "SetToken", NewSession(r), None)
    /\ lost' = FALSE
    /\ UNCHANGED <<world, sess, index>>

\* setToken gives the browser the token of the session it has stored.
SetToken(r) ==
    /\ req[r].at = "stored"
    /\ Answer(r, "SetToken", NewToken(r), None)
    /\ lost' = FALSE
    /\ UNCHANGED <<world, sess, index>>

-----------------------------------------------------------------------------
(* The rest of the system *)

\* Sessions reach other nodes (Replication) and are cleaned (SessionStore).
Replicate(n, m, s) ==
    /\ s \in sess[n] \ sess[m]
    /\ Stored(m, s)
    /\ res' = None
    /\ UNCHANGED <<world, browser, req>>

\* What the cleaner removes from a list is no longer found, nor is another
\* session of the same token.
Clean(n, s) ==
    /\ s \in sess[n] /\ s.rexp < now - Grace
    /\ sess' = [sess EXCEPT ![n] = @ \ {s}]
    /\ index' = [index EXCEPT ![n] = @ \ {s.tok}]
    /\ res' = None
    /\ UNCHANGED <<world, lost, browser, req>>

\* The process of a node is replaced, for whatever reason.
Restart(n) == ProcessEnds(n)

\* The policy controller of a node stores or deletes the policy.
ChangePolicy(n, pol) ==
    /\ pol # policy[n]
    /\ policy' = [policy EXCEPT ![n] = pol]
    /\ res' = None
    /\ UNCHANGED <<now, grants, held, stores, browser, req>>

ChangeGrants(g) ==
    /\ g # grants /\ grants' = g
    /\ held' = [held EXCEPT ![now] = @ \cup {g}]
    /\ res' = None
    /\ UNCHANGED <<now, policy, stores, browser, req>>

Tick ==
    /\ now < MaxNow
    /\ now' = now + 1
    /\ held' = [held EXCEPT ![now + 1] = {grants}]
    /\ res' = None
    /\ UNCHANGED <<policy, grants, stores, browser, req>>

-----------------------------------------------------------------------------
Handle(r) ==
    \/ Unknown(r) \/ StartOidc(r) \/ Authorize(r) \/ UpdateToken(r) \/ BadCallback(r)
    \/ FinishOidc(r) \/ Panic(r) \/ ProviderGrants(r) \/ ProviderRefuses(r)
    \/ TokenDataFails(r) \/ TokenDataPanics(r) \/ StoreSession(r) \/ SetToken(r)
Browse(r, n, rt) == OpenPage(r, n, rt) \/ Return(r, n, rt)

Next ==
    \/ \E r \in Requests : Handle(r)
    \/ \E r \in Requests, n \in Nodes, rt \in Routes :
         Browse(r, n, rt) \/ Fetch(r, n, rt) \/ \E params \in Strays : Stray(r, n, rt, params)
    \/ Navigate
    \/ \E n, m \in Nodes : \E s \in sess[n] : Replicate(n, m, s) \/ Clean(n, s)
    \/ \E n \in Nodes : Restart(n) \/ \E pol \in Changes : ChangePolicy(n, pol)
    \/ \E g \in SUBSET Roles : ChangeGrants(g)
    \/ Tick

Spec == Init /\ [][Next]_vars

\* Handlers run, the provider answers, and the browser follows redirects, for
\* which the requests of scripts leave room.
Fairness ==
    /\ \A r \in Requests : WF_vars(Handle(r))
    /\ SF_vars(\E r \in Requests, n \in Nodes, rt \in Routes : Browse(r, n, rt))
FairSpec == Spec /\ Fairness

-----------------------------------------------------------------------------
(* Properties *)

Statuses == {"OK", "Forbidden", "Login", "SetToken", "BadRequest", "Error", "Down"}
Tokens == [key : Keys, roles : SUBSET Roles, exp : Nat \cup {Never}]
ASSUME NoneAssumption == None \notin Tokens
Grants == [roles : SUBSET Roles, exp : Nat \cup {Never}, rexp : Nat]
Sessions == [tok : Tokens, rexp : Nat]
Request == [at : {"idle", "sent", "exchange", "refresh", "data", "stored"}, node : Nodes \cup {None},
            kind : {"page", "fetch", "callback", None}, route : Routes \cup {None},
            tok : Tokens \cup {None}, key : Keys \cup {None}, params : Nat \X Nat,
            pol : Policies \cup {None}, rexp : Nat, grant : Grants \cup {None}]

\* The shape of what the browser, the nodes and the requests hold.
TypeOK ==
    /\ now \in Times
    /\ policy \in [Nodes -> Policies \cup {None}]
    /\ sess \in [Nodes -> SUBSET Sessions]
    /\ index \in [Nodes -> SUBSET Tokens] /\ lost \in BOOLEAN
    /\ grants \subseteq Roles
    /\ nav \in {"page", "waiting", "login", "done"}
    /\ cookie \in Tokens \cup {None} /\ state \in Keys \cup {None}
    /\ req \in [Requests -> Request]
    /\ res \in Statuses \cup {None}
    /\ held \in [Times -> SUBSET SUBSET Roles]

\* The provider may have granted, at time t, what a token says.
GrantedAt(tok, t) == tok.roles \in held[t] /\ tok.exp \in {Never, t + AccessTTL}

\* The claims of every token in use, wherever sessions and cookies have got
\* to and whatever has changed since, are what the provider granted at some
\* time: the token expires AccessTTL later, if it does.
TokensGranted ==
    /\ \A n \in Nodes : \A s \in sess[n] : \E t \in Times : GrantedAt(s.tok, t)
    /\ cookie # None => \E t \in Times : GrantedAt(cookie, t)
    /\ \A r \in Requests : req[r].grant # None => \E t \in Times : GrantedAt(req[r].grant, t)

\* A request is allowed only if the user had the roles its route needs at most
\* AccessTTL ago: roles taken away at the provider stop to count by then, even
\* though the bearer token, its session and copies of it on other nodes live
\* much longer.  Without expires_in, it is enough to have had them ever.
Allowed(r) == req[r].at = "sent" /\ req'[r] = Idle /\ res' = "OK"
RevokedInTime ==
    [][\A r \in Requests : Allowed(r) =>
         \E t \in Times : /\ now - AccessTTL <= t \/ req[r].tok.exp = Never
                          /\ t <= now
                          /\ \E g \in held[t] : HasRoles(Pol(r).need[req[r].route], g)]_vars

\* The cleaner may have removed a session of a token: one that was granted so
\* long ago.  (Tokens without a lifetime say the same whenever they are made.)
MayBeCleaned(tok) == \E t \in Times : GrantedAt(tok, t) /\ t + RefreshTTL < now - Grace

\* A browser's token has a session on some node, although requests, replication
\* and the cleaner go on between the storing and the answer, and processes end
\* at any moment: unless the cleaner may have removed the session, or the last
\* process that had it has ended after the browser got the token.
CookieBacked ==
    cookie # None =>
        \/ \E n \in Nodes : cookie \in index[n]
        \/ MayBeCleaned(cookie)
        \/ lost

\* On a single node every navigation ends, if processes do not go on ending: no
\* endless chain of redirects between the page, the provider and the callback.
NavigationEnds ==
    \/ []<>(res = "Down")
    \/ (nav = "page") ~> (nav = "done")
=============================================================================
