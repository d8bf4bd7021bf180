--------------------------- MODULE DecisionProofs ---------------------------
(***************************************************************************)
(* More proofs about Enforcement: that requests get what the objects say.   *)
(* That the parser of role paths reads the paths in the objects right is    *)
(* taken from the runs.                                                     *)
(***************************************************************************)
EXTENDS EnforcementProofs, FiniteSetTheorems, WellFoundedInduction

\* A set of naturals has a least element.
LEMMA LeastNatural ==
  ASSUME NEW T, T \subseteq Nat, T # {}
  PROVE  \E x \in T : \A y \in T : x <= y
  <1> DEFINE Less == {ss \in Nat \X Nat : ss[1] < ss[2]}
  <1>1. IsWellFoundedOn(Less, Nat)
    BY NatLessThanWellFounded, Zenon DEF OpToRel
  <1> HIDE DEF Less
  <1>2. PICK x \in T : \A y \in T : ~(<<y, x>> \in Less)
    BY <1>1, WFMin
  <1>3. ASSUME NEW y \in T PROVE x <= y
    <2>1. x \in Nat /\ y \in Nat
      OBVIOUS
    <2>2. y < x => <<y, x>> \in Less
      BY <2>1 DEF Less
    <2> QED
      BY <1>2, <2>1, <2>2
  <1> QED
    BY <1>3

\* There is a last one among numbered things.
LEMMA MaxIn ==
  ASSUME NEW n \in Nat, NEW S, S \subseteq 1..n, S # {}
  PROVE  Max(S) \in S
  <1> DEFINE T == {n - i : i \in S}
  <1>1. T \subseteq Nat /\ T # {}
    <2>1. \A i \in S : n - i \in Nat
      OBVIOUS
    <2>2. PICK i \in S : n - i \in T
      OBVIOUS
    <2> QED
      BY <2>1, <2>2
  <1>2. PICK x \in T : \A y \in T : x <= y
    BY <1>1, LeastNatural
  <1>3. PICK i \in S : x = n - i
    BY <1>2
  <1>4. \A j \in S : i >= j
    <2>1. \A j \in S : n - i <= n - j
      BY <1>2, <1>3
    <2> QED
      BY <2>1
  <1> QED
    BY <1>4 DEF Max

\* A list of a set has all of it.
LEMMA ListsAll ==
  ASSUME NEW D, IsFiniteSet(D), NEW order \in SetToSeqs(D)
  PROVE  /\ Cardinality(D) \in Nat
         /\ order \in [1..Cardinality(D) -> D]
         /\ \A p \in D : \E i \in 1..Cardinality(D) : order[i] = p
  <1> DEFINE c == Cardinality(D)
  <1>1. c \in Nat
    BY FS_CardinalityType
  <1>2. order \in Injection(1..c, D)
    BY DEF SetToSeqs, Injection, IsInjective
  <1>3. IsFiniteSet(1..c) /\ Cardinality(1..c) = c
    BY <1>1, FS_Interval
  <1>4. order \in Surjection(1..c, D)
    BY <1>2, <1>3, FS_Injection
  <1> QED
    BY <1>1, <1>4 DEF Surjection

-----------------------------------------------------------------------------
(* What the filter of a world says of a request *)

\* The name under which policy p of world w has the route of a request.
NameIn(w, p, n) == IF n \in RouteNames(Pols(w)[p]) THEN n ELSE NoName

\* The entry that policy p of world w makes for a request.
EntryOf(w, p, r) ==
    LET pol == NewPolicy(p, Pols(w)[p])
        n == NameIn(w, p, r.route)
    IN  ExtAuthzPerRoute(pol, n, RouteOf(pol, n))

\* A request is told to go where a policy for its virtual host says, if there
\* is one.
Entry(w, r, to) ==
    \/ PoliciesFor(w, r) = {} /\ to = Disabled
    \/ \E p \in PoliciesFor(w, r) : to = EntryOf(w, p, r)

\* The route a policy has under that name is made from the rule of the policy.
LEMMA RouteIsRule ==
  ASSUME NEW w, NEW p, NEW n
  PROVE  /\ RouteOf(NewPolicy(p, Pols(w)[p]), NameIn(w, p, n)) = ConvertRoute(Rule(w, p, n))
         /\ NewPolicy(p, Pols(w)[p]).name = StoreName(p)
         /\ DOMAIN NewPolicy(p, Pols(w)[p]).routes = RouteNames(Pols(w)[p]) \ {NoName}
  <1> DEFINE routes == Pols(w)[p]
             names == RouteNames(routes)
             pol == NewPolicy(p, routes)
  <1>1. /\ pol.name = StoreName(p)
        /\ pol.default = IF NoName \in names THEN ConvertRoute(LastNamed(routes, NoName))
                         ELSE [enable |-> TRUE, roles |-> {}, headers |-> <<>>]
        /\ pol.routes = [k \in names \ {NoName} |-> ConvertRoute(LastNamed(routes, k))]
    BY DEF NewPolicy
  <1> HIDE DEF pol, names, routes
  <1>2. CASE n \in names
    <2>1. Rule(w, p, n) = LastNamed(routes, n) /\ NameIn(w, p, n) = n
      BY <1>2 DEF Rule, NameIn, names, routes
    <2>2. RouteOf(pol, n) = ConvertRoute(LastNamed(routes, n))
      BY <1>1, <1>2 DEF RouteOf
    <2> QED
      BY <1>1, <2>1, <2>2 DEF pol, names, routes
  <1>3. CASE n \notin names /\ NoName \in names
    <2>1. Rule(w, p, n) = LastNamed(routes, NoName) /\ NameIn(w, p, n) = NoName
      BY <1>3 DEF Rule, NameIn, names, routes
    <2>2. RouteOf(pol, NoName) = ConvertRoute(LastNamed(routes, NoName))
      BY <1>1, <1>3 DEF RouteOf
    <2> QED
      BY <1>1, <2>1, <2>2 DEF pol, names, routes
  <1>4. CASE n \notin names /\ NoName \notin names
    <2>1. /\ Rule(w, p, n) = [name |-> NoName, off |-> FALSE, roles |-> {}, headers |-> <<>>]
          /\ NameIn(w, p, n) = NoName
      BY <1>4 DEF Rule, NameIn, names, routes
    <2>2. RouteOf(pol, NoName) = ConvertRoute(Rule(w, p, n))
      <3>1. /\ Rule(w, p, n).off = FALSE /\ Rule(w, p, n).roles = {}
            /\ Rule(w, p, n).headers = <<>>
        BY <2>1
      <3>2. ConvertRoute(Rule(w, p, n)) = [enable |-> TRUE, roles |-> {}, headers |-> <<>>]
        BY <3>1, Zenon DEF ConvertRoute
      <3> QED
        BY <1>1, <1>4, <3>2 DEF RouteOf
    <2> QED
      BY <1>1, <2>1, <2>2 DEF pol, names, routes
  <1> QED
    BY <1>2, <1>3, <1>4

\* A key that some policy has a patch for has the entry of such a policy.
LEMMA FilterKey ==
  ASSUME NEW w, IsFiniteSet(DOMAIN Pols(w)), NEW order \in SetToSeqs(DOMAIN Pols(w)), NEW key
  PROVE  LET filter == NewEnvoyFilter(order, Pols(w))
             of(p) == Patches(p, NewPolicy(p, Pols(w)[p]))
         IN  /\ key \in DOMAIN filter <=> \E p \in DOMAIN Pols(w) : key \in DOMAIN of(p)
             /\ key \in DOMAIN filter =>
                  \E p \in DOMAIN Pols(w) : key \in DOMAIN of(p) /\ filter[key] = of(p)[key]
  <1> DEFINE D == DOMAIN Pols(w)
             c == Cardinality(D)
             filter == NewEnvoyFilter(order, Pols(w))
             of(p) == Patches(p, NewPolicy(p, Pols(w)[p]))
             has == {i \in 1..c : key \in DOMAIN of(order[i])}
  <1>1. /\ c \in Nat /\ order \in [1..c -> D] /\ DOMAIN order = 1..c
        /\ \A p \in D : \E i \in 1..c : order[i] = p
    BY ListsAll
  <1> HIDE DEF D, c
  <1>2. filter = [k \in UNION {DOMAIN of(order[i]) : i \in 1..c} |->
                    of(order[Max({i \in 1..c : k \in DOMAIN of(order[i])})])[k]]
    BY <1>1 DEF NewEnvoyFilter
  <1> HIDE DEF of, filter
  <1>3. key \in DOMAIN filter <=> has # {}
    BY <1>2
  <1>4. has # {} <=> \E p \in D : key \in DOMAIN of(p)
    BY <1>1
  <1>5. ASSUME key \in DOMAIN filter
        PROVE  \E p \in D : key \in DOMAIN of(p) /\ filter[key] = of(p)[key]
    <2>1. Max(has) \in has
      BY <1>1, <1>3, <1>5, MaxIn
    <2>2. filter[key] = of(order[Max(has)])[key]
      BY <1>2, <1>5
    <2> QED
      BY <1>1, <2>1, <2>2
  <1> QED
    BY <1>3, <1>4, <1>5 DEF D, of, filter

\* The filter of a world gives every request the entry of a policy for its
\* virtual host: one that has a name for the route, if there is one.
LEMMA FilterEntry ==
  ASSUME NEW w \in DOMAIN Worlds, NEW order \in SetToSeqs(DOMAIN Pols(w)),
         envoy = NewEnvoyFilter(order, Pols(w)), NEW r
  PROVE  Entry(w, r, PerRoute(r))
  <1> DEFINE pol(p) == NewPolicy(p, Pols(w)[p])
             of(p) == Patches(p, pol(p))
             names(p) == RouteNames(Pols(w)[p])
             key == <<r.vhost, r.route>>
             key0 == <<r.vhost, NoName>>
  <1>1. envoy # None /\ IsFiniteSet(DOMAIN Pols(w))
    BY FilterAssumption, EnforcementAssumption, FS_Subset DEF Pols
  <1>2. ASSUME NEW p
        PROVE  /\ DOMAIN of(p) = Hosts[p] \X (names(p) \cup {NoName})
               /\ \A k \in DOMAIN of(p) : of(p)[k] = ExtAuthzPerRoute(pol(p), k[2], RouteOf(pol(p), k[2]))
    <2>1. DOMAIN pol(p).routes = names(p) \ {NoName}
      BY RouteIsRule
    <2> QED
      BY <2>1 DEF Patches, Matched, RouteOf
  <1>3. ASSUME NEW k
        PROVE  /\ k \in DOMAIN envoy <=> \E p \in DOMAIN Pols(w) : k \in DOMAIN of(p)
               /\ k \in DOMAIN envoy =>
                    \E p \in DOMAIN Pols(w) : k \in DOMAIN of(p) /\ envoy[k] = of(p)[k]
    BY <1>1, FilterKey
  <1> HIDE DEF pol, of, names
  <1>4. CASE key \in DOMAIN envoy
    <2>1. PerRoute(r) = envoy[key]
      BY <1>1, <1>4 DEF PerRoute
    <2>2. PICK p \in DOMAIN Pols(w) : key \in DOMAIN of(p) /\ envoy[key] = of(p)[key]
      BY <1>3, <1>4
    <2>3. r.vhost \in Hosts[p] /\ r.route \in names(p) \cup {NoName}
      <3>1. key \in Hosts[p] \X (names(p) \cup {NoName})
        BY <1>2, <2>2
      <3> QED
        BY <3>1
    <2>4. NameIn(w, p, r.route) = r.route
      BY <2>3 DEF NameIn, names
    <2>5. PerRoute(r) = EntryOf(w, p, r)
      BY <1>2, <2>1, <2>2, <2>4 DEF EntryOf, pol
    <2> QED
      BY <2>2, <2>3, <2>5 DEF Entry, PoliciesFor
  <1>5. CASE key \notin DOMAIN envoy /\ key0 \in DOMAIN envoy
    <2>1. PerRoute(r) = envoy[key0]
      BY <1>1, <1>5 DEF PerRoute
    <2>2. PICK p \in DOMAIN Pols(w) : key0 \in DOMAIN of(p) /\ envoy[key0] = of(p)[key0]
      BY <1>3, <1>5
    <2>3. r.vhost \in Hosts[p]
      <3>1. key0 \in Hosts[p] \X (names(p) \cup {NoName})
        BY <1>2, <2>2
      <3> QED
        BY <3>1
    <2>4. r.route \notin names(p)
      BY <1>2, <1>3, <1>5, <2>2, <2>3
    <2>5. NameIn(w, p, r.route) = NoName
      BY <2>4 DEF NameIn, names
    <2>6. PerRoute(r) = EntryOf(w, p, r)
      BY <1>2, <2>1, <2>2, <2>5 DEF EntryOf, pol
    <2> QED
      BY <2>2, <2>3, <2>6 DEF Entry, PoliciesFor
  <1>6. CASE key \notin DOMAIN envoy /\ key0 \notin DOMAIN envoy
    <2>1. PerRoute(r) = Disabled
      BY <1>1, <1>6 DEF PerRoute
    <2>2. ASSUME NEW p \in DOMAIN Pols(w), r.vhost \in Hosts[p] PROVE FALSE
      BY <1>2, <1>3, <1>6, <2>2
    <2> QED
      BY <2>1, <2>2 DEF Entry, PoliciesFor
  <1> QED
    BY <1>4, <1>5, <1>6

-----------------------------------------------------------------------------
(* What is in Envoy, in the store and in requests *)

\* The policy in the store under a name was made from a world.
Stored(name, pol) ==
    \E p \in Policies, w \in DOMAIN Worlds :
        /\ name = StoreName(p) /\ p \in DOMAIN Pols(w)
        /\ pol.default = NewPolicy(p, Pols(w)[p]).default
        /\ pol.routes = NewPolicy(p, Pols(w)[p]).routes
        /\ ConvertMappings(Rms(w)).is = "maps"
        /\ pol.maps = ConvertMappings(Rms(w)).maps
        /\ pol.world = w

StoreMade ==
    /\ \A name \in DOMAIN dict : Stored(name, dict[name])
    /\ call.on => call.pol = None \/ Stored(call.name, call.pol)

\* Envoy has the filter of the world made, if that has policies.
EnvoyMade ==
    \/ made = None /\ envoy = None
    \/ /\ made \in DOMAIN Worlds
       /\ \/ DOMAIN Pols(made) = {} /\ envoy = None
          \/ \E order \in SetToSeqs(DOMAIN Pols(made)) : envoy = NewEnvoyFilter(order, Pols(made))

\* A request that is to be checked was told so by the filter there was.
ToldIn(q) == q.at = "check" => q.made \in DOMAIN Worlds /\ q.to.check /\ Entry(q.made, q.r, q.to)

Decided == EnforcedAsDeclared /\ NoTornDecision

DecisionInv == StoreMade /\ EnvoyMade /\ ToldIn(req) /\ Decided

\* When the paths are read as they are meant, the roles of a user are those
\* the mappings in the store find.
LEMMA HoldsStored ==
  ASSUME PathsRead, NEW w \in DOMAIN Worlds, ConvertMappings(Rms(w)).is = "maps", NEW user
  PROVE  Holds(w, user) = TokenData(ConvertMappings(Rms(w)).maps, Tokens[user])
  <1> DEFINE rms == Rms(w)
             path(i) == IF rms[i].from \in DOMAIN From THEN ParseRolePath(rms[i].path) ELSE ParseError
             bad == {i \in DOMAIN rms : path(i).is # "ids"}
  <1>1. /\ bad = {}
        /\ ConvertMappings(rms).maps = [i \in DOMAIN rms |->
             [from |-> From[rms[i].from], prefix |-> rms[i].prefix, path |-> path(i).ids]]
    BY DEF ConvertMappings
  <1>2. ASSUME NEW i \in DOMAIN rms
        PROVE  path(i).ids = CHOOSE ids \in Readings(rms[i].path) : TRUE
    <2>1. path(i).is = "ids" /\ path(i) = ParseRolePath(rms[i].path)
      BY <1>1 DEF ParseError
    <2>2. ParsesExactly(rms[i].path)
      BY DEF PathsRead
    <2>3. Readings(rms[i].path) = {path(i).ids}
      BY <2>1, <2>2 DEF ParsesExactly
    <2> QED
      BY <2>3
  <1> QED
    BY <1>1, <1>2 DEF Holds

\* ReconcileAuth stores what it makes from the world there is.
LEMMA MadeIsStored ==
  ASSUME NEW w \in DOMAIN Worlds, NEW p \in DOMAIN Pols(w), ConvertMappings(Rms(w)).is = "maps"
  PROVE  Stored(StoreName(p), Reconciled(p, w, ConvertMappings(Rms(w)).maps))
  <1>1. p \in Policies
    BY EnforcementAssumption DEF Pols
  <1> QED
    BY <1>1 DEF Stored, Reconciled

-----------------------------------------------------------------------------
(* Decisions *)

\* The two properties of the request under way, of any request q.
EnforcedFor(q) ==
    q.at = "done" /\ q.made # None /\ (q.is = "pass" \/ q.world = q.made) =>
        \/ PoliciesFor(q.made, q.r) = {} /\ q.is = "pass"
        \/ \E p \in PoliciesFor(q.made, q.r) :
              Declared(q.made, p, q.r) = [is |-> q.is, headers |-> q.headers]

NamedIn(w, p, n) == p \in DOMAIN Pols(w) /\ n \in RouteNames(Pols(w)[p])
NotTorn(q) ==
    /\ q.at = "done" /\ q.is = "pass" => Admits(q.made, q.r)
    /\ q.at = "done" /\ q.is = "allow" =>
         \/ Admits(q.world, q.r)
         \/ \E p \in Policies : /\ q.to.policy = StoreName(p)
                                /\ NamedIn(q.world, p, q.r.route) /\ ~NamedIn(q.made, p, q.r.route)

\* They are the properties.
LEMMA DecidedParts == Decided <=> EnforcedFor(req) /\ NotTorn(req)
  BY DEF Decided, EnforcedAsDeclared, EnforcedFor, NoTornDecision, NotTorn, NamedIn

\* Envoy lets a request pass when the filter has no entry for it, or that of a
\* route without checks.
LEMMA PassDecided ==
  ASSUME NEW w, NEW r, NEW to, Entry(w, r, to), ~to.check
  PROVE  \/ PoliciesFor(w, r) = {}
         \/ \E p \in PoliciesFor(w, r) : Declared(w, p, r) = [is |-> "pass", headers |-> {}]
  <1> SUFFICES ASSUME NEW p \in PoliciesFor(w, r), to = EntryOf(w, p, r)
               PROVE  Declared(w, p, r) = [is |-> "pass", headers |-> {}]
    BY DEF Entry
  <1> DEFINE rule == Rule(w, p, r.route)
  <1>1. to = ExtAuthzPerRoute(NewPolicy(p, Pols(w)[p]), NameIn(w, p, r.route), ConvertRoute(rule))
    BY RouteIsRule DEF EntryOf
  <1>2. ~ConvertRoute(rule).enable
    BY <1>1 DEF ExtAuthzPerRoute
  <1>3. rule.off
    BY <1>2 DEF ConvertRoute
  <1> QED
    BY <1>3 DEF Declared

\* A request that is to be checked has the names of a policy and of its route.
LEMMA CheckNames ==
  ASSUME NEW w, NEW r, NEW to, Entry(w, r, to), to.check
  PROVE  \E p \in PoliciesFor(w, r) :
           /\ to.policy = StoreName(p) /\ to.route = NameIn(w, p, r.route)
           /\ ~Rule(w, p, r.route).off
  <1>1. to # Disabled
    BY DEF Disabled
  <1>2. PICK p \in PoliciesFor(w, r) : to = EntryOf(w, p, r)
    BY <1>1 DEF Entry
  <1> DEFINE rule == Rule(w, p, r.route)
             pol == NewPolicy(p, Pols(w)[p])
  <1>3. to = ExtAuthzPerRoute(pol, NameIn(w, p, r.route), ConvertRoute(rule)) /\ pol.name = StoreName(p)
    BY <1>2, RouteIsRule DEF EntryOf
  <1> HIDE DEF pol
  <1>4. ConvertRoute(rule).enable
    BY <1>1, <1>3 DEF ExtAuthzPerRoute
  <1>5. ~rule.off
    BY <1>4 DEF ConvertRoute
  <1>6. to.policy = StoreName(p) /\ to.route = NameIn(w, p, r.route)
    BY <1>3, <1>4 DEF ExtAuthzPerRoute
  <1> QED
    BY <1>5, <1>6

\* The routes of a stored policy are made from the rules of its world.
LEMMA StoredRoutes ==
  ASSUME NEW p, NEW pol, Stored(StoreName(p), pol)
  PROVE  LET w == pol.world
         IN  /\ w \in DOMAIN Worlds /\ p \in DOMAIN Pols(w)
             /\ DOMAIN pol.routes = RouteNames(Pols(w)[p]) \ {NoName}
             /\ \A n : RouteOf(pol, NameIn(w, p, n)) = ConvertRoute(Rule(w, p, n))
             /\ ConvertMappings(Rms(w)).is = "maps" /\ pol.maps = ConvertMappings(Rms(w)).maps
  <1>1. PICK q \in Policies, w \in DOMAIN Worlds :
          /\ StoreName(p) = StoreName(q) /\ q \in DOMAIN Pols(w)
          /\ pol.default = NewPolicy(q, Pols(w)[q]).default
          /\ pol.routes = NewPolicy(q, Pols(w)[q]).routes
          /\ ConvertMappings(Rms(w)).is = "maps"
          /\ pol.maps = ConvertMappings(Rms(w)).maps
          /\ pol.world = w
    BY DEF Stored
  <1>2. p = q
    BY <1>1 DEF StoreName
  <1>3. \A n : RouteOf(pol, n) = RouteOf(NewPolicy(p, Pols(w)[p]), n)
    BY <1>1, <1>2 DEF RouteOf
  <1> QED
    BY <1>1, <1>2, <1>3, RouteIsRule

\* The answer to a check is by the rule of the world the policy in the store is
\* from, if that has the same name for the route as the filter.
LEMMA CheckDecided ==
  ASSUME PathsRead, StoreMade, ToldIn(req), Check
  PROVE  EnforcedFor(req') /\ NotTorn(req') /\ req'.at = "done"
  <1> DEFINE w == req.made
             r == req.r
             pol == Get(req.to.policy)
             n == req.to.route
             v == pol.world
  <1>1. /\ w \in DOMAIN Worlds /\ w # None /\ req.to.check /\ Entry(w, r, req.to)
    BY EnforcementAssumption DEF Check, ToldIn
  <1>2. PICK p \in PoliciesFor(w, r) :
          /\ req.to.policy = StoreName(p) /\ n = NameIn(w, p, r.route)
          /\ ~Rule(w, p, r.route).off
    BY <1>1, CheckNames
  <1>3. ASSUME NEW is, NEW hs, NEW x, req' = Answered(is, hs, x)
        PROVE  /\ req'.at = "done" /\ req'.r = r /\ req'.to = req.to /\ req'.is = is
               /\ req'.headers = hs /\ req'.made = w /\ req'.world = x
    BY <1>3 DEF Answered
  <1>4. ASSUME NEW x, x # w, req' = Answered("error", {}, x)
        PROVE  EnforcedFor(req') /\ NotTorn(req') /\ req'.at = "done"
    BY <1>3, <1>4 DEF EnforcedFor, NotTorn
  <1>5. CASE pol = None
    <2>1. req' = Answered("error", {}, None)
      BY <1>5 DEF Check
    <2> QED
      BY <1>1, <1>4, <2>1
  <1>6. CASE pol # None
    <2>1. Stored(StoreName(p), pol)
      BY <1>2, <1>6 DEF Get, StoreMade
    <2>2. /\ v \in DOMAIN Worlds /\ p \in DOMAIN Pols(v)
          /\ DOMAIN pol.routes = RouteNames(Pols(v)[p]) \ {NoName}
          /\ \A k : RouteOf(pol, NameIn(v, p, k)) = ConvertRoute(Rule(v, p, k))
          /\ ConvertMappings(Rms(v)).is = "maps" /\ pol.maps = ConvertMappings(Rms(v)).maps
      BY <2>1, StoredRoutes
    <2>3. CASE n \notin {NoName} \cup DOMAIN pol.routes
      <3>1. req' = Answered("error", {}, v)
        BY <1>6, <2>3 DEF Check
      <3>2. v # w
        BY <1>2, <2>2, <2>3 DEF NameIn
      <3> QED
        BY <1>4, <3>1, <3>2
    <2>4. CASE n \in {NoName} \cup DOMAIN pol.routes
      <3> DEFINE data == TokenData(pol.maps, Tokens[r.user])
                 route == RouteOf(pol, n)
                 rule == Rule(v, p, r.route)
      <3>1. data = Holds(v, r.user)
        BY <2>2, HoldsStored
      <3>2. \/ ~data.ok /\ req' = Answered("noToken", {}, v)
            \/ data.ok /\ HasRoles(route.roles, data.roles)
               /\ req' = Answered("allow", Headers(route.headers, data.roles), v)
            \/ data.ok /\ ~HasRoles(route.roles, data.roles) /\ req' = Answered("deny", {}, v)
        BY <1>6, <2>4 DEF Check
      <3> HIDE DEF pol, data, route, rule
      <3>3. NameIn(v, p, r.route) = n =>
              route = ConvertRoute(rule) /\ route.roles = rule.roles /\ route.headers = rule.headers
        BY <2>2 DEF ConvertRoute, route, rule
      <3>4. EnforcedFor(req')
        <4> SUFFICES ASSUME v = w
                     PROVE  Declared(w, p, r) = [is |-> req'.is, headers |-> req'.headers]
          BY <1>2, <1>3, <3>2 DEF EnforcedFor
        <4>1. ~rule.off /\ route.roles = rule.roles /\ route.headers = rule.headers
          BY <1>2, <3>3 DEF rule
        <4>2. Declared(w, p, r) =
                IF ~data.ok THEN [is |-> "noToken", headers |-> {}]
                ELSE IF HasRoles(rule.roles, data.roles)
                     THEN [is |-> "allow", headers |-> Headers(rule.headers, data.roles)]
                     ELSE [is |-> "deny", headers |-> {}]
          BY <3>1, <4>1 DEF Declared, rule
        <4> QED
          BY <1>3, <3>2, <4>1, <4>2
      <3>5. NotTorn(req')
        <4> SUFFICES ASSUME data.ok, HasRoles(route.roles, data.roles)
                     PROVE  Admits(v, r) \/ (NamedIn(v, p, r.route) /\ ~NamedIn(w, p, r.route))
          <5>1. p \in Policies
            BY <2>2, EnforcementAssumption DEF Pols
          <5> QED
            BY <1>2, <1>3, <3>2, <5>1 DEF NotTorn
        <4>1. CASE NameIn(v, p, r.route) = n
          <5>1. p \in PoliciesFor(v, r)
            BY <1>2, <2>2 DEF PoliciesFor
          <5>2. HasRoles(rule.roles, data.roles)
            BY <3>3, <4>1
          <5>3. Declared(v, p, r).is \in {"pass", "allow"}
            BY <3>1, <5>2 DEF Declared, rule
          <5> QED
            BY <5>1, <5>3 DEF Admits
        <4>2. CASE NameIn(v, p, r.route) # n
          <5>1. n = NoName /\ r.route \notin RouteNames(Pols(w)[p]) /\ r.route \in RouteNames(Pols(v)[p])
            BY <1>2, <2>2, <2>4, <4>2 DEF NameIn
          <5> QED
            BY <2>2, <5>1 DEF NamedIn
        <4> QED
          BY <4>1, <4>2
      <3> QED
        BY <1>3, <3>2, <3>4, <3>5
    <2> QED
      BY <2>3, <2>4
  <1> QED
    BY <1>5, <1>6

\* A request that is sent is told by the filter there is.
LEMMA SendDecided ==
  ASSUME EnvoyMade, NEW r \in Requests, Send(r)
  PROVE  EnforcedFor(req') /\ NotTorn(req') /\ ToldIn(req')
  <1> DEFINE to == PerRoute(r)
  <1>1. /\ req'.at = (IF to.check THEN "check" ELSE "done")
        /\ req'.is = (IF to.check THEN "none" ELSE "pass")
        /\ req'.r = r /\ req'.to = to /\ req'.headers = {} /\ req'.made = made
    BY DEF Send, NoRequest
  <1>2. CASE made = None
    <2>1. to = Disabled
      BY <1>2, EnforcementAssumption DEF EnvoyMade, PerRoute
    <2>2. ~to.check
      BY <2>1 DEF Disabled
    <2> QED
      BY <1>1, <1>2, <2>2 DEF EnforcedFor, NotTorn, ToldIn, Admits
  <1>3. CASE made # None
    <2>1. made \in DOMAIN Worlds
      BY <1>3 DEF EnvoyMade
    <2>2. Entry(made, r, to)
      <3>1. CASE DOMAIN Pols(made) = {} /\ envoy = None
        BY <3>1 DEF Entry, PoliciesFor, PerRoute
      <3>2. CASE \E order \in SetToSeqs(DOMAIN Pols(made)) : envoy = NewEnvoyFilter(order, Pols(made))
        BY <2>1, <3>2, FilterEntry
      <3> QED
        BY <1>3, <3>1, <3>2 DEF EnvoyMade
    <2> HIDE DEF to
    <2>3. CASE to.check
      BY <1>1, <2>1, <2>2, <2>3 DEF EnforcedFor, NotTorn, ToldIn
    <2>4. CASE ~to.check
      <3>1. \/ PoliciesFor(made, r) = {}
            \/ \E p \in PoliciesFor(made, r) : Declared(made, p, r) = [is |-> "pass", headers |-> {}]
        BY <2>2, <2>4, PassDecided
      <3>2. Admits(made, r)
        BY <3>1 DEF Admits
      <3> QED
        BY <1>1, <2>4, <3>1, <3>2 DEF EnforcedFor, NotTorn, ToldIn
    <2> QED
      BY <2>3, <2>4
  <1> QED
    BY <1>2, <1>3

\* A request that is answered with an error, or that there is not, is no
\* decision.
LEMMA NoDecision ==
  /\ EnforcedFor(NoRequest) /\ NotTorn(NoRequest) /\ ToldIn(NoRequest)
  /\ req.made # None =>
       LET q == Answered("error", {}, None) IN EnforcedFor(q) /\ NotTorn(q) /\ ToldIn(q)
  BY DEF EnforcedFor, NotTorn, ToldIn, NoRequest, Answered

\* What is in the store stays made from a world.
LEMMA StoreStep ==
  ASSUME Inv, StoreMade, [Next]_vars
  PROVE  StoreMade'
  <1>1. ASSUME UNCHANGED <<dict, call>> PROVE StoreMade'
    BY <1>1 DEF StoreMade
  <1>2. ASSUME NEW p \in Policies, ReconcileAuth(p) PROVE StoreMade'
    <2>1. CASE UNCHANGED storeVars
      BY <1>1, <2>1 DEF storeVars
    <2>2. CASE Mappings.is = "maps" /\ UpdateCall(StoreName(p), Reconciled(p, api, Mappings.maps))
      <3>1. Stored(StoreName(p), Reconciled(p, api, Mappings.maps))
        BY <1>2, <2>2, MadeIsStored DEF Inv, TypeOK, ReconcileAuth, Mappings
      <3> QED
        BY <2>2, <3>1 DEF UpdateCall, StoreMade
    <2> QED
      BY <1>2, <2>1, <2>2 DEF ReconcileAuth
  <1>3. ASSUME NEW p \in Policies, DeleteAuth(p) PROVE StoreMade'
    BY <1>1, <1>3 DEF DeleteAuth, UpdateCall, StoreMade, storeVars
  <1>4. ASSUME NEW p \in Policies, ReconcilePanics(p) PROVE StoreMade'
    BY <1>4 DEF ReconcilePanics, StoreLost, StoreMade, Empty, NoCall
  <1>5. CASE WorkRuns
    <2>1. dict' = Written /\ call' = NoCall /\ call.on
      BY <1>5 DEF WorkRuns, UpdateRun
    <2>2. \A name \in DOMAIN Written : Stored(name, Written[name])
      BY <2>1 DEF StoreMade, Written, Restrict
    <2> QED
      BY <2>1, <2>2 DEF StoreMade, NoCall
  <1>6. ASSUME NEW d \in Dashboards, Page(d) \/ Visit(d) PROVE StoreMade'
    BY <1>1, <1>6 DEF Page, Visit, StreamStep, StreamLock, StreamEnd, StreamSend, StreamStart,
       StreamAbandon
  <1> QED
    BY <1>1, <1>2, <1>3, <1>4, <1>5, <1>6 DEF Next, Worker, UserEdits, Program, Send, Check, Finish,
       vars, storeVars

\* Envoy gets the filter of the world there is.
LEMMA EnvoyStep ==
  ASSUME Inv, EnvoyMade, [Next]_vars
  PROVE  EnvoyMade'
  <1>1. ASSUME UNCHANGED <<envoy, made>> PROVE EnvoyMade'
    BY <1>1 DEF EnvoyMade
  <1>2. CASE Program
    BY <1>2 DEF Program, EnvoyMade, Inv, TypeOK
  <1> QED
    BY <1>1, <1>2 DEF Next, Worker, WorkRuns, ReconcileAuth, DeleteAuth, ReconcilePanics, WorkStep,
       UserEdits, Send, Check, Finish, Page, Visit, vars

\* Every step keeps the invariant.
LEMMA DecisionStep ==
  ASSUME PathsRead, Inv, DecisionInv, [Next]_vars
  PROVE  DecisionInv'
  <1>1. StoreMade' /\ EnvoyMade'
    BY StoreStep, EnvoyStep DEF DecisionInv
  <1>2. EnforcedFor(req) /\ NotTorn(req) /\ ToldIn(req)
    BY DecidedParts DEF DecisionInv
  <1> DEFINE Good == EnforcedFor(req') /\ NotTorn(req') /\ ToldIn(req')
  <1>3. Good
    <2>1. CASE req' = req
      BY <1>2, <2>1
    <2>2. ASSUME NEW r \in Requests, Send(r) PROVE Good
      BY <2>2, SendDecided DEF DecisionInv
    <2>3. CASE Check
      BY <2>3, CheckDecided DEF DecisionInv, ToldIn
    <2>4. CASE Finish
      BY <2>4, NoDecision DEF Finish
    <2>5. ASSUME NEW p \in Policies, ReconcilePanics(p), req.at = "check" PROVE Good
      <3>1. req' = Answered("error", {}, None) /\ req.made # None
        BY <1>2, <2>5, EnforcementAssumption DEF ReconcilePanics, ToldIn
      <3> QED
        BY <3>1, NoDecision
    <2> QED
      BY <2>1, <2>2, <2>3, <2>4, <2>5 DEF Next, Worker, WorkRuns, ReconcileAuth, DeleteAuth,
         ReconcilePanics, UserEdits, Program, Page, Visit, vars
  <1>4. Decided'
    BY <1>3 DEF Decided, EnforcedAsDeclared, EnforcedFor, NoTornDecision, NotTorn, NamedIn
  <1> QED
    BY <1>1, <1>3, <1>4 DEF DecisionInv

\* It holds at the start.
LEMMA InitDecision == Init => DecisionInv
  <1> SUFFICES ASSUME Init PROVE DecisionInv
    OBVIOUS
  <1>1. StoreMade
    BY DEF Init, StoreInit, StoreMade, Empty, NoCall
  <1>2. EnvoyMade
    BY DEF Init, EnvoyMade
  <1>3. EnforcedFor(req) /\ NotTorn(req) /\ ToldIn(req)
    BY NoDecision DEF Init
  <1> QED
    BY <1>1, <1>2, <1>3, DecidedParts DEF DecisionInv

\* The invariant holds in every state of the specification.
THEOREM DecisionsSound ==
  ASSUME PathsRead
  PROVE  Spec => []DecisionInv
  <1>1. Inv /\ DecisionInv /\ [Next]_vars => DecisionInv'
    BY DecisionStep
  <1> QED
    BY <1>1, InitDecision, InitInv, NextInv, PTL DEF Spec

\* Whatever policies, routes and users there are, and in whatever order the
\* policies come: a request that Envoy and the store decide by the same world
\* gets what a policy for its virtual host says of its route.
THEOREM Enforced ==
  ASSUME PathsRead
  PROVE  Spec => []EnforcedAsDeclared
  <1>1. DecisionInv => EnforcedAsDeclared
    BY DEF DecisionInv, Decided
  <1> QED
    BY <1>1, DecisionsSound, PTL

\* And while they are made from different worlds, whoever decides lets in only
\* what its world does, but for routes that only the store has a name for.
THEOREM NeverTorn ==
  ASSUME PathsRead
  PROVE  Spec => []NoTornDecision
  <1>1. DecisionInv => NoTornDecision
    BY DEF DecisionInv, Decided
  <1> QED
    BY <1>1, DecisionsSound, PTL

=============================================================================
