---------------------------- MODULE Enforcement ----------------------------
(***************************************************************************)
(* From the objects a user writes to what happens to a request.  Envoy is   *)
(* programmed by an EnvoyFilter to ask for a check, or not, for each route  *)
(* of each virtual host; the check looks the policy and the route up in the *)
(* policy store, and compares the roles it wants with those in the token.   *)
(* Filter and store are made from the same objects by different controllers *)
(* at different times.                                                      *)
(*                                                                          *)
(* A world is what the user has written: policies, each a list of routes,   *)
(* and the role mappings of their provider.  PolicyController has the way   *)
(* from there to the reconcilers, and AuthCheck that from a login to a      *)
(* token; here both are short.                                              *)
(***************************************************************************)
EXTENDS RolePath, PolicyStore, FiniteSetsExt, SequencesExt

CONSTANTS
    Policies,  \* names of AccessPolicies
    Hosts,     \* the virtual hosts of each policy's gateway
    Tokens,    \* the claims in the tokens of each user
    Requests,  \* what users ask for: virtual host, route and user
    Worlds,    \* the worlds, by a name of their own
    Edits      \* pairs of names of worlds: how the user may change one

\* The name of the default route, and of a route of Envoy that has no name.
NoName == ""

VARIABLES
    api,    \* the world there is
    edited, \* whether the user has changed it
    envoy,  \* what Envoy does, per virtual host and route; None without a filter
    made,   \* (history) the world envoy was made from
    queue,  \* requests for the worker reconciler
    req     \* the request under way

vars == <<storeVars, api, edited, envoy, made, queue, req>>

ASSUME EnforcementAssumption ==
    /\ DOMAIN Hosts = Policies
    /\ IsFiniteSet(Policies) /\ None \notin Policies
    /\ Edits \subseteq (DOMAIN Worlds) \X (DOMAIN Worlds) /\ None \notin DOMAIN Worlds
    /\ \A w \in DOMAIN Worlds : DOMAIN Worlds[w].pols \subseteq Policies

Pols(w) == Worlds[w].pols
Rms(w) == Worlds[w].rms

\* There is no request.
NoRequest == [at |-> "none", r |-> None, to |-> None, is |-> "none", headers |-> {},
              made |-> None, world |-> None]

\* The request under way with its answer, and the world that was decided by.
Answered(is, hs, w) == [at |-> "done", r |-> req.r, to |-> req.to, is |-> is, headers |-> hs,
                        made |-> req.made, world |-> w]

-----------------------------------------------------------------------------
(* accesspolicy.New *)

ConvertRoute(route) ==
    [enable |-> ~route.off, roles |-> route.roles, headers |-> route.headers]

\* The last of the routes with one name counts.
LastNamed(routes, n) == routes[Max({i \in DOMAIN routes : routes[i].name = n})]
RouteNames(routes) == {routes[i].name : i \in DOMAIN routes}

StoreName(p) == <<"namespace", p>>

NewPolicy(p, routes) ==
    [name |-> StoreName(p),
     default |-> IF NoName \in RouteNames(routes) THEN ConvertRoute(LastNamed(routes, NoName))
                 ELSE [enable |-> TRUE, roles |-> {}, headers |-> <<>>],
     routes |-> [n \in RouteNames(routes) \ {NoName} |-> ConvertRoute(LastNamed(routes, n))]]

-----------------------------------------------------------------------------
(* newEnvoyFilter *)

Disabled == [check |-> FALSE, policy |-> None, route |-> NoName]
ExtAuthzPerRoute(pol, n, route) ==
    IF route.enable THEN [check |-> TRUE, policy |-> pol.name, route |-> n] ELSE Disabled

\* What the patches of a policy match: its virtual hosts, and in each of them
\* the routes it has a name for.
Matched(p, pol) == Hosts[p] \X (DOMAIN pol.routes \cup {NoName})

Patches(p, pol) ==
    [key \in Matched(p, pol) |->
       ExtAuthzPerRoute(pol, key[2], IF key[2] = NoName THEN pol.default ELSE pol.routes[key[2]])]

\* Patches are merged in their order, so that of two policies with a virtual
\* host or a route in common the one listed last counts.  Before them comes
\* the one that turns checks off on every virtual host of the gateway.
NewEnvoyFilter(order, pols) ==
    LET patches(i) == Patches(order[i], NewPolicy(order[i], pols[order[i]]))
        all == UNION {DOMAIN patches(i) : i \in DOMAIN order}
    IN  [key \in all |-> patches(Max({i \in DOMAIN order : key \in DOMAIN patches(i)}))[key]]

\* None stands for no filter at all.
ASSUME FilterAssumption ==
    \A w \in DOMAIN Worlds : \A order \in SetToSeqs(DOMAIN Pols(w)) : NewEnvoyFilter(order, Pols(w)) # None

\* What Envoy does with a request: the most specific entry counts.
PerRoute(r) ==
    LET named == <<r.vhost, r.route>>
        default == <<r.vhost, NoName>>
    IN  IF envoy = None THEN Disabled
        ELSE IF named \in DOMAIN envoy THEN envoy[named]
        ELSE IF default \in DOMAIN envoy THEN envoy[default] ELSE Disabled

-----------------------------------------------------------------------------
Init ==
    /\ StoreInit
    /\ api \in {e[1] : e \in Edits} /\ edited = FALSE
    /\ envoy = None /\ made = None
    /\ queue = DOMAIN Pols(api)
    /\ req = NoRequest

UserEdits ==
    /\ ~edited /\ edited' = TRUE
    /\ \E w \in DOMAIN Worlds : <<api, w>> \in Edits /\ api' = w
    /\ queue' = queue \cup DOMAIN Pols(api) \cup DOMAIN Pols(api')
    /\ UNCHANGED <<storeVars, envoy, made, req>>

\* The EnvoyFilter reconciler and Istio.  The policies come in any order.
Program ==
    /\ IF DOMAIN Pols(api) = {} THEN envoy' = None
       ELSE \E order \in SetToSeqs(DOMAIN Pols(api)) : envoy' = NewEnvoyFilter(order, Pols(api))
    /\ made' = api
    /\ UNCHANGED <<storeVars, api, edited, queue, req>>

-----------------------------------------------------------------------------
(* The worker reconciler *)

WorkStep(p) ==
    /\ p \in queue /\ ~call.on
    /\ UNCHANGED <<api, edited, envoy, made>>

Mappings == ConvertMappings(Rms(api))

\* The policy with its role mappings, as it is stored; world is history.
Reconciled(p, w, maps) ==
    LET pol == NewPolicy(p, Pols(w)[p])
    IN  [name |-> pol.name, default |-> pol.default, routes |-> pol.routes,
         maps |-> maps, world |-> w]

\* The provider or its configuration, or the secret, may not be had, and then,
\* as when a mapping is wrong, the store stays as it is and nothing is retried.
ReconcileAuth(p) ==
    /\ WorkStep(p) /\ p \in DOMAIN Pols(api)
    /\ \/ /\ Mappings.is = "maps"
          /\ UpdateCall(StoreName(p), Reconciled(p, api, Mappings.maps))
       \/ UNCHANGED storeVars
    /\ queue' = queue \ {p}
    /\ UNCHANGED req

\* A policy that is gone, or that the worker sees with its deletion timestamp.
DeleteAuth(p) ==
    /\ WorkStep(p) /\ p \notin DOMAIN Pols(api)
    /\ UNCHANGED storeVars \/ UpdateCall(p, None)
    /\ queue' = queue \ {p}
    /\ UNCHANGED req

\* A panic in a reconciler ends the process; Envoy refuses the request that
\* was being checked.  The next process comes to the same point.
ReconcilePanics(p) ==
    /\ WorkStep(p) /\ p \in DOMAIN Pols(api)
    /\ Mappings.is = "panic"
    /\ StoreLost
    /\ queue' = DOMAIN Pols(api)
    /\ req' = IF req.at = "check" THEN Answered("error", {}, None) ELSE req

WorkRuns == UpdateRun /\ UNCHANGED <<api, edited, envoy, made, queue, req>>
Worker ==
    \/ WorkRuns
    \/ \E p \in Policies : ReconcileAuth(p) \/ DeleteAuth(p) \/ ReconcilePanics(p)

-----------------------------------------------------------------------------
(* A request *)

Send(r) ==
    LET to == PerRoute(r)
    IN  /\ req = NoRequest
        /\ req' = [NoRequest EXCEPT !.at = IF to.check THEN "check" ELSE "done", !.r = r, !.to = to,
                                    !.is = IF to.check THEN "none" ELSE "pass", !.made = made]
        /\ UNCHANGED <<storeVars, api, edited, envoy, made, queue>>

\* Faulty: the route in the metadata is not looked at.
RouteOf_Default(pol, n) == pol.default

\* newRequest, when it does not fail: the route of the policy.
RouteOf(pol, n) == IF n = NoName THEN pol.default ELSE pol.routes[n]

\* authorize: later headers replace earlier ones of the same name.
Headers(hs, roles) ==
    LET granted == {i \in DOMAIN hs : HasRoles(hs[i].roles, roles)}
    IN  {<<hs[i].name, hs[i].value>> :
           i \in {i \in granted : \A j \in granted : hs[j].name = hs[i].name => j <= i}}

\* newRequest and check, with the tokens the user gets from this provider.  When
\* the roles cannot be extracted from them no login succeeds.
Check ==
    LET pol == Get(req.to.policy)
        n == req.to.route
        route == RouteOf(pol, n)
        answer(is, hs) == req' = Answered(is, hs, IF pol = None THEN None ELSE pol.world)
    IN  /\ req.at = "check" /\ Open
        /\ IF pol = None \/ (pol # None /\ n \notin {NoName} \cup DOMAIN pol.routes) THEN answer("error", {})
           ELSE \E data \in {TokenData(pol.maps, Tokens[req.r.user])} :
                  \/ ~data.ok /\ answer("noToken", {})
                  \/ data.ok /\ HasRoles(route.roles, data.roles)
                     /\ answer("allow", Headers(route.headers, data.roles))
                  \/ data.ok /\ ~HasRoles(route.roles, data.roles) /\ answer("deny", {})
        /\ UNCHANGED <<storeVars, api, edited, envoy, made, queue>>

Finish ==
    /\ req.at = "done"
    /\ req' = NoRequest
    /\ UNCHANGED <<storeVars, api, edited, envoy, made, queue>>

-----------------------------------------------------------------------------
Page(d) == StreamStep(d) /\ UNCHANGED <<api, edited, envoy, made, queue, req>>
Visit(d) ==
    /\ StreamStart(d) \/ StreamAbandon(d)
    /\ UNCHANGED <<api, edited, envoy, made, queue, req>>

Next ==
    \/ UserEdits \/ Program \/ Worker
    \/ (\E r \in Requests : Send(r)) \/ Check \/ Finish
    \/ \E d \in Dashboards : Page(d) \/ Visit(d)

Spec == Init /\ [][Next]_vars

\* An update that has been called, the handlers and the goroutines of streams
\* go on, and a handler gets the lock some time when it is free again and again;
\* nobody has to visit the dashboard, or to stay.
FairSpec ==
    /\ Spec
    /\ WF_vars(WorkRuns) /\ SF_vars(Check)
    /\ \A d \in Dashboards : WF_vars(Page(d))

-----------------------------------------------------------------------------
(* What the objects say, as a reference *)

\* The rule of policy p for a route: its own, or the default, or to be logged in.
Rule(w, p, n) ==
    LET routes == Pols(w)[p]
        for == RouteNames(routes) \cap {n, NoName}
    IN  IF for = {} THEN [name |-> NoName, off |-> FALSE, roles |-> {}, headers |-> <<>>]
        ELSE LastNamed(routes, IF n \in for THEN n ELSE NoName)

\* The roles of a user, from the reading of each path.
Holds(w, user) ==
    TokenData([i \in DOMAIN Rms(w) |->
                 [from |-> From[Rms(w)[i].from], prefix |-> Rms(w)[i].prefix,
                  path |-> CHOOSE ids \in Readings(Rms(w)[i].path) : TRUE]], Tokens[user])

Declared(w, p, r) ==
    LET rule == Rule(w, p, r.route)
        held == Holds(w, r.user)
    IN  IF rule.off THEN [is |-> "pass", headers |-> {}]
        ELSE IF ~held.ok THEN [is |-> "noToken", headers |-> {}]
        ELSE IF HasRoles(rule.roles, held.roles)
             THEN [is |-> "allow", headers |-> Headers(rule.headers, held.roles)]
             ELSE [is |-> "deny", headers |-> {}]

PoliciesFor(w, r) == {p \in DOMAIN Pols(w) : r.vhost \in Hosts[p]}
Admits(w, r) ==
    \/ w = None \/ PoliciesFor(w, r) = {}
    \/ \E p \in PoliciesFor(w, r) : Declared(w, p, r).is \in {"pass", "allow"}

-----------------------------------------------------------------------------
(* Properties *)

\* The store is locked by those who use it, and what is in it and in Envoy was
\* made from a world there was.
TypeOK ==
    /\ StoreTypeOK
    /\ DOMAIN dict \subseteq {StoreName(p) : p \in Policies}
    /\ api \in DOMAIN Worlds /\ edited \in BOOLEAN
    /\ queue \subseteq Policies
    /\ req.at \in {"none", "check", "done"}
    /\ req.is \in {"none", "pass", "allow", "deny", "noToken", "error"}

\* Whatever paths a user writes, as long as they have no escape sequences, the
\* parser of role paths finds the names that are separated by dots, quoted or
\* not, and nothing else.
EscapeFree(s) == \A k \in DOMAIN s : s[k] # Backslash
ParseExact ==
    [][api' # api => \A i \in DOMAIN Rms(api') :
          LET s == Rms(api')[i].path IN EscapeFree(s) => ParsesExactly(s)]_vars

\* The parser reads all paths in the objects as they are meant: what the
\* proofs of the following properties ask for.
PathsRead ==
    \A w \in DOMAIN Worlds : \A i \in DOMAIN Rms(w) : ParsesExactly(Rms(w)[i].path)

\* When Envoy and the store have caught up with the objects, a request gets
\* what a policy for its virtual host says: of the route, or the default, or
\* without a check.  Where there are several policies, it is one of them.
EnforcedAsDeclared ==
    LET r == req.r
        w == req.made
        caughtUp == req.at = "done" /\ w # None /\ (req.is = "pass" \/ req.world = w)
    IN  caughtUp =>
          \/ PoliciesFor(w, r) = {} /\ req.is = "pass"
          \/ \E p \in PoliciesFor(w, r) :
                Declared(w, p, r) = [is |-> req.is, headers |-> req.headers]

\* While Envoy and the store are made from different versions of a policy, a
\* request that is let in would have been by the version that decided: the one
\* in Envoy, if it was not checked, and the one in the store, if it was.  There
\* is one exception: a route that only the version in the store has a name for
\* is decided by the default of that version, which may let in what neither
\* version does.
NoTornDecision ==
    LET r == req.r
        named(w, p) == p \in DOMAIN Pols(w) /\ r.route \in RouteNames(Pols(w)[p])
    IN  /\ req.at = "done" /\ req.is = "pass" => Admits(req.made, r)
        /\ req.at = "done" /\ req.is = "allow" =>
             \/ Admits(req.world, r)
             \/ \E p \in Policies : req.to.policy = StoreName(p)
                                   /\ named(req.world, p) /\ ~named(req.made, p)

\* A page that is given up half way keeps the lock, and the next update that
\* waits for it keeps every request out: from then on none is answered.
Wedged == call.on /\ \E d \in Dashboards : Stuck(d)
PolicyWedge == [][Wedged => Wedged' /\ dict' = dict /\ (req.at = "check" => req' = req)]_vars

\* Every request that is checked gets an answer, unless a page was given up.
RequestsAnswered == req.at = "check" ~> req.at # "check" \/ \E d \in Dashboards : Stuck(d)
=============================================================================
