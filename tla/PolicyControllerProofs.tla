----------------------- MODULE PolicyControllerProofs -----------------------
(***************************************************************************)
(* Proofs about PolicyController for every number of replicas, policies,    *)
(* filters, edits and restarts: the types, and what becomes of the key that *)
(* signs all cookies.  The inductive invariant adds to the types that every *)
(* usable key in a cache or in a policy store is the one in the secret.     *)
(***************************************************************************)
EXTENDS PolicyController, WellFoundedInduction, TLAPS

-----------------------------------------------------------------------------
(* Numbers *)

\* A set of naturals has a least element.
LEMMA LeastNatural ==
    ASSUME NEW T, T \subseteq Nat, T # {}
    PROVE  \E x \in T : \A y \in T : x <= y
<1>. DEFINE Less == {ss \in Nat \X Nat : ss[1] < ss[2]}
<1>1. IsWellFoundedOn(Less, Nat)
  BY NatLessThanWellFounded, Zenon DEF OpToRel
<1>. HIDE DEF Less
<1>2. PICK x \in T : \A y \in T : ~(<<y, x>> \in Less)
  BY <1>1, WFMin
<1>3. ASSUME NEW y \in T PROVE x <= y
  <2>1. x \in Nat /\ y \in Nat
    OBVIOUS
  <2>2. y < x => <<y, x>> \in Less
    BY <2>1 DEF Less
  <2>. QED
    BY <1>2, <2>1, <2>2
<1>. QED
  BY <1>3

\* Min picks a name among the free ones.
LEMMA MinIn ==
    ASSUME NEW T, T \subseteq Nat, T # {}
    PROVE  Min(T) \in T
<1>1. \E x \in T : \A y \in T : x <= y
  BY LeastNatural
<1>. QED
  BY <1>1 DEF Min

\* Among the times of numbered filters there is a last one: otherwise there
\* would be a least number up to which there is none, but the times up to the
\* number before it have one.
LEMMA LastTime ==
    ASSUME NEW n \in Nat, NEW E, E \subseteq 1..n, E # {}, NEW time, \A f \in E : time[f] \in Nat
    PROVE  \E f \in E : \A g \in E : time[g] <= time[f]
<1>. DEFINE UpTo(k) == {f \in E : f <= k}
            HasLast(k) == \E f \in UpTo(k) : \A g \in UpTo(k) : time[g] <= time[f]
            Bad == {k \in 0..n : UpTo(k) # {} /\ ~HasLast(k)}
<1>0. \A f \in E : f \in Nat /\ 1 <= f /\ f <= n
  OBVIOUS
<1>1. UpTo(n) = E /\ UpTo(0) = {}
  <2>1. UpTo(n) = E
    BY <1>0
  <2>2. \A f \in E : ~(f <= 0)
    BY <1>0
  <2>. QED
    BY <2>1, <2>2
<1>2. SUFFICES ASSUME n \in Bad PROVE FALSE
  BY <1>1
<1>3. PICK k \in Bad : \A j \in Bad : k <= j
  <2>1. Bad \subseteq Nat /\ Bad # {}
    BY <1>2
  <2>. HIDE DEF Bad
  <2>. QED
    BY <2>1, LeastNatural
<1>4. k \in Nat /\ k <= n /\ k # 0
  BY <1>1, <1>3
<1>5. k - 1 \in 0..n /\ k - 1 \notin Bad
  BY <1>3, <1>4
<1>6. \A f \in E : f \in UpTo(k) <=> f \in UpTo(k - 1) \/ f = k
  BY <1>0, <1>4
<1>7. CASE UpTo(k - 1) = {}
  <2>1. UpTo(k) \subseteq {k}
    BY <1>6, <1>7
  <2>. QED
    BY <1>3, <2>1
<1>8. CASE HasLast(k - 1)
  <2>1. PICK f \in UpTo(k - 1) : \A g \in UpTo(k - 1) : time[g] <= time[f]
    BY <1>8
  <2>2. CASE k \notin E \/ time[k] <= time[f]
    <3>1. f \in UpTo(k) /\ \A g \in UpTo(k) : time[g] <= time[f]
      BY <1>6, <2>1, <2>2
    <3>. QED
      BY <1>3, <3>1
  <2>3. CASE k \in E /\ time[f] < time[k]
    <3>1. k \in UpTo(k)
      BY <1>4, <2>3
    <3>2. ASSUME NEW g \in UpTo(k) PROVE time[g] <= time[k]
      <4>1. CASE g = k
        BY <2>3, <4>1
      <4>2. CASE g \in UpTo(k - 1)
        <5>1. time[g] <= time[f] /\ time[g] \in Nat /\ time[f] \in Nat /\ time[k] \in Nat
          BY <2>1, <2>3, <4>2
        <5>. QED
          BY <2>3, <5>1
      <4>. QED
        BY <1>6, <4>1, <4>2
    <3>. QED
      BY <1>3, <3>1, <3>2
  <2>4. time[f] \in Nat /\ (k \in E => time[k] \in Nat)
    BY <2>1
  <2>. QED
    BY <2>2, <2>3, <2>4
<1>. QED
  BY <1>5, <1>7, <1>8

\* The time of a new filter, and of one made in the same second as the last.
LEMMA MaxTime ==
    ASSUME NEW efs \in [Filters -> EnvoyFilter \cup {None}],
           NEW ts, ts = {efs[f].time : f \in Existing(efs)}, ts # {}
    PROVE  Max(ts) \in Nat
<1>. DEFINE E == Existing(efs)
            time == [f \in E |-> efs[f].time]
<1>1. MaxFilters \in Nat /\ E \subseteq 1..MaxFilters /\ E # {}
  BY PolicyAssumption DEF Existing, Filters
<1>2. \A f \in E : time[f] \in Nat /\ time[f] = efs[f].time
  BY DEF Existing, EnvoyFilter
<1>. HIDE DEF E, time
<1>3. PICK f \in E : \A g \in E : time[g] <= time[f]
  BY <1>1, <1>2, LastTime
<1>4. ts \subseteq Nat /\ time[f] \in ts /\ \A t \in ts : time[f] >= t
  BY <1>2, <1>3 DEF E
<1>5. Max(ts) \in ts
  BY <1>4 DEF Max
<1>. QED
  BY <1>4, <1>5

-----------------------------------------------------------------------------
(* Objects *)

\* Edits and new keys leave old copies valid.
LEMMA Later ==
    ASSUME NEW k \in Nat, NEW e \in Nat
    PROVE  /\ Objects(k, e) \subseteq Objects(k, e + 1)
           /\ Objects(k, e) \subseteq Objects(k + 1, e)
<1>1. 0..(e + 1) \subseteq 0..((e + 1) + 1) /\ (-2)..k \subseteq (-2)..(k + 1)
  OBVIOUS
<1>. QED
  BY <1>1 DEF Objects

\* The fields of the objects.
LEMMA Fields ==
    ASSUME NEW k \in Nat, NEW e \in Nat, NEW o \in Objects(k, e)
    PROVE  /\ o.ap \in [Policies -> AccessPolicy \cup {None}]
           /\ o.secret \in {None} \cup (-2)..k
           /\ o.gw \in Selectors \cup {None}
           /\ o.efs \in [Filters -> EnvoyFilter \cup {None}]
           /\ Existing(o.ap) \subseteq Policies
           /\ Existing(o.efs) \subseteq Filters
<1>1. /\ o.ap \in [Policies -> AccessPolicy \cup {None}]
      /\ o.secret \in {None} \cup (-2)..k
      /\ o.gw \in Selectors \cup {None}
      /\ o.efs \in [Filters -> EnvoyFilter \cup {None}]
  BY DEF Objects
<1>. QED
  BY <1>1 DEF Existing

\* The edits of an AccessPolicy by the user and by the leader.
LEMMA PolicyEdits ==
    ASSUME NEW a \in AccessPolicy
    PROVE  /\ \A s \in 0..MaxEdits, norm \in BOOLEAN, ok \in BOOLEAN :
                [a EXCEPT !.spec = s, !.ok = ok, !.norm = norm] \in AccessPolicy
           /\ [a EXCEPT !.del = TRUE] \in AccessPolicy
           /\ [a EXCEPT !.fin = TRUE] \in AccessPolicy
           /\ Normalize(a) \in AccessPolicy
           /\ \A sel \in Selectors \cup {None} : WithGateway(a, sel) \in AccessPolicy
BY DEF AccessPolicy, Normalize, WithGateway

-----------------------------------------------------------------------------
(* The steps keep the types, and leave a key of the right size alone.       *)

\* The secret has no key that a cookie may have been signed with.
Replaceable == api.secret = None \/ ~IsKey(api.secret)

\* The objects and caches keep their types when a write leaves the versions.
LEMMA UserStep ==
    ASSUME TypeOK, User
    PROVE  TypeOK' /\ (api'.secret = api.secret \/ Replaceable)
<1>1. /\ keys \in Nat /\ edits \in Nat /\ restarts \in Nat /\ ties \in Nat /\ MaxEdits \in Nat
      /\ edits + 1 \in 0..MaxEdits /\ (edits + 1) + restarts + ties <= MaxEdits
      /\ api \in Objects(keys, edits) /\ api \in Objects(keys, edits + 1)
  <2>1. /\ keys \in Nat /\ edits \in Nat /\ restarts \in Nat /\ ties \in Nat /\ MaxEdits \in Nat
        /\ api \in Objects(keys, edits)
    BY PolicyAssumption DEF TypeOK
  <2>2. edits + restarts + ties < MaxEdits
    BY DEF User
  <2>. QED
    BY <2>1, <2>2, Later
<1>2. ASSUME NEW p \in Policies, UserCreates(p)
      PROVE  api' \in Objects(keys, edits + 1) /\ api'.secret = api.secret
  <2>1. PICK o \in NewPolicy(edits + 1) : api' = [api EXCEPT !.ap[p] = o]
    BY <1>2 DEF UserCreates
  <2>2. o \in AccessPolicy
    BY <1>1, <2>1 DEF NewPolicy, AccessPolicy
  <2>. QED
    BY <1>1, <2>1, <2>2 DEF Objects
<1>3. ASSUME NEW p \in Policies, Live(api.ap[p]) PROVE api.ap[p] \in AccessPolicy
  BY <1>1, <1>3, Fields DEF Live
<1>4. ASSUME NEW p \in Policies, UserEdits(p)
      PROVE  api' \in Objects(keys, edits + 1) /\ api'.secret = api.secret
  <2>1. api.ap[p] \in AccessPolicy /\ api.ap[p].norm \in BOOLEAN
    BY <1>3, <1>4 DEF UserEdits, AccessPolicy
  <2>2. PICK norm \in BOOLEAN, ok \in BOOLEAN :
          api' = [api EXCEPT !.ap[p] = [@ EXCEPT !.spec = edits + 1, !.ok = ok, !.norm = norm]]
    BY <1>4, <2>1 DEF UserEdits
  <2>. DEFINE a == [api.ap[p] EXCEPT !.spec = edits + 1, !.ok = ok, !.norm = norm]
  <2>3. a \in AccessPolicy
    BY <1>1, <2>1, PolicyEdits
  <2>4. api' = [api EXCEPT !.ap[p] = a]
    BY <2>2
  <2>. HIDE DEF a
  <2>. QED
    BY <1>1, <2>3, <2>4 DEF Objects
<1>5. ASSUME NEW p \in Policies, UserDeletes(p)
      PROVE  api' \in Objects(keys, edits + 1) /\ api'.secret = api.secret
  <2>. DEFINE a == [api.ap[p] EXCEPT !.del = TRUE]
  <2>1. a \in AccessPolicy
    BY <1>3, <1>5, PolicyEdits DEF UserDeletes
  <2>2. api' = [api EXCEPT !.ap[p] = a] \/ api' = [api EXCEPT !.ap[p] = None]
    BY <1>5 DEF UserDeletes
  <2>. HIDE DEF a
  <2>. QED
    BY <1>1, <2>1, <2>2 DEF Objects
<1>6. ASSUME UserSecret
      PROVE  api' \in Objects(keys, edits + 1) /\ (api'.secret = api.secret \/ Replaceable)
  <2>1. PICK k \in (IF api.secret \in {None, NoData} THEN {NoData, NoKey} ELSE {api.secret}),
             client \in BOOLEAN : api' = [api EXCEPT !.secret = k, !.client = client]
    BY <1>6 DEF UserSecret
  <2>2. k \in {None} \cup (-2)..keys
    BY <1>1, <2>1, Fields DEF NoKey, NoData
  <2>3. api' \in Objects(keys, edits + 1) /\ api'.secret = k
    BY <1>1, <2>1, <2>2 DEF Objects
  <2>. QED
    BY <2>1, <2>3 DEF Replaceable, IsKey, NoData
<1>7. ASSUME UserGateway PROVE api' \in Objects(keys, edits + 1) /\ api'.secret = api.secret
  BY <1>1, <1>7 DEF Objects, UserGateway
<1>8. ASSUME UserProvider PROVE api' \in Objects(keys, edits + 1) /\ api'.secret = api.secret
  <2>1. PICK m \in Mappings : api' = [api EXCEPT !.op = @ + 1, !.maps = m]
    BY <1>8 DEF UserProvider
  <2>2. api.op + 1 \in 0..((edits + 1) + 1)
    BY <1>1 DEF Objects
  <2>. QED
    BY <1>1, <2>1, <2>2 DEF Objects
<1>9. api' \in Objects(keys, edits + 1) /\ (api'.secret = api.secret \/ Replaceable)
  BY <1>2, <1>4, <1>5, <1>6, <1>7, <1>8 DEF User
<1>10. cache \in [Nodes -> Objects(keys, edits + 1)]
  BY <1>1, Later DEF TypeOK
<1>11. /\ edits' = edits + 1
       /\ UNCHANGED <<cache, leader, lead, leadQueue, filterQueue, workQueue, store, missed,
                      keys, ties, restarts>>
  BY DEF User, queues
<1>. QED
  BY <1>1, <1>9, <1>10, <1>11 DEF TypeOK, Replaceable

\* What a watch brings to a cache and to the queues.
LEMMA WatchStep ==
    ASSUME TypeOK, Watch
    PROVE  /\ TypeOK'
           /\ UNCHANGED <<api, store>>
           /\ \A n \in Nodes : cache'[n].secret \in {cache[n].secret, api.secret}
<1>1. /\ keys \in Nat /\ edits \in Nat /\ leader \in Nodes
      /\ api \in Objects(keys, edits) /\ cache \in [Nodes -> Objects(keys, edits)]
  BY DEF TypeOK
<1>2. ASSUME NEW n \in Nodes, NEW lq \in SUBSET Policies, NEW fq \in SUBSET Filters,
             NEW wq \in SUBSET Policies, NEW o \in Objects(keys, edits),
             o.secret \in {cache[n].secret, api.secret},
             cache' = [cache EXCEPT ![n] = o], Enqueue(n, lq, fq, wq)
      PROVE  /\ TypeOK'
             /\ UNCHANGED <<api, store>>
             /\ \A m \in Nodes : cache'[m].secret \in {cache[m].secret, api.secret}
  <2>1. UNCHANGED <<api, leader, lead, store, missed, edits, keys, ties, restarts>>
    BY <1>2 DEF Enqueue, counts
  <2>2. cache' \in [Nodes -> Objects(keys, edits)]
    BY <1>1, <1>2
  <2>3. /\ leadQueue' \subseteq Policies /\ filterQueue' \subseteq Filters
        /\ workQueue' \in [Nodes -> SUBSET Policies]
    BY <1>2 DEF Enqueue, TypeOK
  <2>4. \A m \in Nodes : cache'[m].secret \in {cache[m].secret, api.secret}
    BY <1>1, <1>2
  <2>. QED
    BY <2>1, <2>2, <2>3, <2>4 DEF TypeOK
<1>. DEFINE G == /\ TypeOK'
                 /\ UNCHANGED <<api, store>>
                 /\ \A m \in Nodes : cache'[m].secret \in {cache[m].secret, api.secret}
<1>3. \A n \in Nodes : /\ Existing(cache[n].ap) \subseteq Policies
                       /\ \A pol : FiltersOf(pol, cache[n].efs) \subseteq Filters
                       /\ Changed(cache[n].ap, api.ap) \subseteq Policies
                       /\ Changed(cache[n].efs, api.efs) \subseteq Filters
  BY <1>1, Fields DEF FiltersOf, Changed
<1>4. ASSUME NEW n \in Nodes, WatchPolicies(n) PROVE G
  <2>. DEFINE changed == Changed(cache[n].ap, api.ap)
              fq == UNION {FiltersOf(cache[n].ap[p], cache[n].efs) \cup
                           FiltersOf(api.ap[p], cache[n].efs) : p \in changed}
              o == [cache[n] EXCEPT !.ap = api.ap]
  <2>1. fq \in SUBSET Filters /\ changed \in SUBSET Policies
    BY <1>3
  <2>2. o \in Objects(keys, edits) /\ o.secret = cache[n].secret
    BY <1>1 DEF Objects
  <2>3. cache' = [cache EXCEPT ![n] = o] /\ Enqueue(n, changed, fq, changed)
    BY <1>4 DEF WatchPolicies
  <2>. HIDE DEF o, fq, changed
  <2>. QED
    BY <1>2, <2>1, <2>2, <2>3
<1>5. ASSUME NEW n \in Nodes, WatchSecret(n) PROVE G
  <2>. DEFINE o == [cache[n] EXCEPT !.secret = api.secret, !.client = api.client]
  <2>1. o \in Objects(keys, edits) /\ o.secret = api.secret
    BY <1>1 DEF Objects
  <2>2. cache' = [cache EXCEPT ![n] = o] /\ Enqueue(n, Existing(cache[n].ap), {}, Existing(cache[n].ap))
    BY <1>5 DEF WatchSecret
  <2>. HIDE DEF o
  <2>. QED
    BY <1>2, <1>3, <2>1, <2>2
<1>6. ASSUME NEW n \in Nodes, WatchProvider(n) PROVE G
  <2>. DEFINE o == [cache[n] EXCEPT !.op = api.op, !.maps = api.maps]
              wq == IF Qualified THEN {} ELSE Existing(cache[n].ap)
  <2>1. o \in Objects(keys, edits) /\ o.secret = cache[n].secret
    BY <1>1 DEF Objects
  <2>2. cache' = [cache EXCEPT ![n] = o] /\ Enqueue(n, {}, {}, wq) /\ wq \subseteq Policies
    BY <1>3, <1>6 DEF WatchProvider
  <2>. HIDE DEF o, wq
  <2>. QED
    BY <1>2, <2>1, <2>2
<1>7. ASSUME WatchGateway PROVE G
  <2>. DEFINE o == [cache[leader] EXCEPT !.gw = api.gw]
  <2>1. o \in Objects(keys, edits) /\ o.secret = cache[leader].secret
    BY <1>1 DEF Objects
  <2>2. cache' = [cache EXCEPT ![leader] = o] /\ Enqueue(leader, Existing(cache[leader].ap), {}, {})
    BY <1>7 DEF WatchGateway
  <2>. HIDE DEF o
  <2>. QED
    BY <1>1, <1>2, <1>3, <2>1, <2>2
<1>8. ASSUME WatchFilters PROVE G
  <2>. DEFINE o == [cache[leader] EXCEPT !.efs = api.efs]
              changed == Changed(cache[leader].efs, api.efs)
  <2>1. o \in Objects(keys, edits) /\ o.secret = cache[leader].secret
    BY <1>1 DEF Objects
  <2>2. PICK S : Enqueue(leader, {p \in Existing(cache[leader].ap) : cache[leader].ap[p].sel \in S},
                         changed, {})
    BY <1>8 DEF WatchFilters
  <2>. DEFINE lq == {p \in Existing(cache[leader].ap) : cache[leader].ap[p].sel \in S}
  <2>3. cache' = [cache EXCEPT ![leader] = o] /\ lq \subseteq Policies /\ changed \subseteq Filters
    BY <1>1, <1>3, <1>8 DEF WatchFilters
  <2>4. Enqueue(leader, lq, changed, {})
    BY <2>2
  <2>. HIDE DEF o, lq, changed
  <2>. QED
    BY <1>1, <1>2, <2>1, <2>3, <2>4
<1>. QED
  BY <1>4, <1>5, <1>6, <1>7, <1>8 DEF Watch

Busy == [at : {"spec", "status", "secret", "filter"}, pol : Policies, ap : AccessPolicy]

\* A write of the policy that the leader has in hand, or its retry.
LEMMA UpdateType ==
    ASSUME TypeOK, NEW p \in Policies, NEW old, NEW new \in AccessPolicy,
           NEW at \in {"spec", "status", "secret"}, NEW queue \in SUBSET Policies,
           Update(p, old, new, at, queue)
    PROVE  /\ api' \in Objects(keys, edits) /\ api'.secret = api.secret
           /\ lead' = Idle \/ lead' \in Busy
           /\ leadQueue' \subseteq Policies
<1>1. api \in Objects(keys, edits) /\ leadQueue \subseteq Policies
  BY DEF TypeOK
<1>2. CASE /\ api' = [api EXCEPT !.ap[p] = new]
           /\ lead' = [at |-> at, pol |-> p, ap |-> new]
           /\ leadQueue' = queue
  <2>1. api' \in Objects(keys, edits) /\ api'.secret = api.secret
    BY <1>1, <1>2 DEF Objects
  <2>2. lead' \in Busy
    BY <1>2 DEF Busy
  <2>. QED
    BY <1>2, <2>1, <2>2
<1>3. CASE Retry(p) /\ UNCHANGED api
  BY <1>1, <1>3 DEF Retry
<1>. QED
  BY <1>2, <1>3 DEF Update

\* The leader reconciler keeps the types, and replaces only a key that is not
\* of the right size.
LEMMA LeaderStep ==
    ASSUME TypeOK, Lead \/ \E p \in Policies : Reconcile(p) \/ RemoveFinalizer(p)
    PROVE  /\ TypeOK'
           /\ UNCHANGED <<cache, store>>
           /\ api'.secret = api.secret \/ Replaceable
<1>1. /\ keys \in Nat /\ edits \in Nat /\ restarts \in Nat /\ ties \in Nat /\ leader \in Nodes
      /\ MaxEdits \in Nat /\ edits + restarts + ties <= MaxEdits
      /\ api \in Objects(keys, edits) /\ cache \in [Nodes -> Objects(keys, edits)]
      /\ lead = Idle \/ lead \in Busy
      /\ leadQueue \subseteq Policies
  BY PolicyAssumption DEF TypeOK, Busy
<1>2. ASSUME UNCHANGED <<cache, leader, filterQueue, workQueue, store, missed, edits, restarts, keys>>,
             ties' \in Nat, edits + restarts + ties' <= MaxEdits, api' \in Objects(keys, edits), lead' = Idle \/ lead' \in Busy,
             leadQueue' \subseteq Policies
      PROVE  TypeOK'
  BY <1>2 DEF TypeOK, Busy
<1>. DEFINE G == /\ TypeOK'
                 /\ UNCHANGED <<cache, store>>
                 /\ api'.secret = api.secret \/ Replaceable
<1>3. \A at : LeadStep(at) =>
        UNCHANGED <<cache, leader, filterQueue, workQueue, store, missed, edits, restarts>>
  BY DEF LeadStep
<1>4. ASSUME NEW p \in Policies, Reconcile(p) PROVE G
  <2>. DEFINE o == cache[leader].ap[p]
  <2>1. o \in AccessPolicy \cup {None}
    BY <1>1, Fields
  <2>2. /\ UNCHANGED <<cache, leader, filterQueue, workQueue, store, missed, edits, restarts>>
        /\ UNCHANGED <<keys, ties>>
    BY <1>3, <1>4 DEF Reconcile
  <2>3. leadQueue \ {p} \in SUBSET Policies
    BY <1>1
  <2>4. \/ leadQueue' = leadQueue \ {p} /\ UNCHANGED <<api, lead>>
        \/ /\ Live(o)
           /\ lead' = [at |-> "spec", pol |-> p, ap |-> o]
           /\ leadQueue' = leadQueue \ {p}
           /\ UNCHANGED api
        \/ Live(o) /\ Update(p, o, [o EXCEPT !.fin = TRUE], "spec", leadQueue \ {p})
    BY <1>4 DEF Reconcile
  <2>5. CASE leadQueue' = leadQueue \ {p} /\ UNCHANGED <<api, lead>>
    BY <1>1, <1>2, <2>2, <2>3, <2>5
  <2>6. CASE /\ Live(o)
             /\ lead' = [at |-> "spec", pol |-> p, ap |-> o]
             /\ leadQueue' = leadQueue \ {p}
             /\ UNCHANGED api
    <3>1. lead' \in Busy
      BY <2>1, <2>6 DEF Live, Busy
    <3>. QED
      BY <1>1, <1>2, <2>2, <2>3, <2>6, <3>1
  <2>7. CASE Live(o) /\ Update(p, o, [o EXCEPT !.fin = TRUE], "spec", leadQueue \ {p})
    <3>. DEFINE new == [o EXCEPT !.fin = TRUE]
    <3>1. new \in AccessPolicy
      BY <2>1, <2>7, PolicyEdits DEF Live
    <3>2. Update(p, o, new, "spec", leadQueue \ {p})
      BY <2>7
    <3>. HIDE DEF new, o
    <3>3. /\ api' \in Objects(keys, edits) /\ api'.secret = api.secret
          /\ lead' = Idle \/ lead' \in Busy
          /\ leadQueue' \subseteq Policies
      BY <2>3, <3>1, <3>2, UpdateType
    <3>. QED
      BY <1>1, <1>2, <2>2, <3>3
  <2>. QED
    BY <2>4, <2>5, <2>6, <2>7
<1>5. ASSUME NEW p \in Policies, RemoveFinalizer(p) PROVE G
  <2>1. /\ UNCHANGED <<cache, leader, filterQueue, workQueue, store, missed, edits, restarts>>
        /\ UNCHANGED <<keys, ties>>
    BY <1>3, <1>5 DEF RemoveFinalizer
  <2>2. \/ /\ api' = [api EXCEPT !.ap[p] = None]
           /\ leadQueue' = leadQueue \ {p}
           /\ UNCHANGED lead
        \/ Retry(p) /\ UNCHANGED api
    BY <1>5 DEF RemoveFinalizer
  <2>3. api' \in Objects(keys, edits) /\ api'.secret = api.secret
    <3>1. CASE api' = [api EXCEPT !.ap[p] = None]
      <4>1. [api.ap EXCEPT ![p] = None] \in [Policies -> AccessPolicy \cup {None}]
        BY <1>1, Fields
      <4>2. api' = [api EXCEPT !.ap = [api.ap EXCEPT ![p] = None]]
        BY <3>1
      <4>. QED
        BY <1>1, <4>1, <4>2 DEF Objects
    <3>. QED
      BY <1>1, <2>2, <3>1
  <2>4. (lead' = Idle \/ lead' \in Busy) /\ leadQueue' \subseteq Policies
    BY <1>1, <2>2 DEF Retry
  <2>. QED
    BY <1>1, <1>2, <2>1, <2>3, <2>4
<1>6. ASSUME NEW at, LeadStep(at), at # "idle"
      PROVE  lead \in Busy /\ lead.pol \in Policies /\ lead.ap \in AccessPolicy
  BY <1>1, <1>6 DEF LeadStep, Idle, Busy
<1>7. ASSUME ReconcileSpec PROVE G
  <2>1. LeadStep("spec") /\ Update(lead.pol, lead.ap, Normalize(lead.ap), "status", leadQueue)
        /\ UNCHANGED <<keys, ties>>
    BY <1>7 DEF ReconcileSpec
  <2>2. lead.pol \in Policies /\ Normalize(lead.ap) \in AccessPolicy
    BY <1>6, <2>1, PolicyEdits
  <2>3. /\ api' \in Objects(keys, edits) /\ api'.secret = api.secret
        /\ lead' = Idle \/ lead' \in Busy
        /\ leadQueue' \subseteq Policies
    BY <1>1, <2>1, <2>2, UpdateType
  <2>. QED
    BY <1>1, <1>2, <1>3, <2>1, <2>3
<1>8. ASSUME ReconcileStatus PROVE G
  <2>1. LeadStep("status") /\ UNCHANGED <<keys, ties>>
    BY <1>8 DEF ReconcileStatus
  <2>2. lead \in Busy /\ lead.pol \in Policies /\ lead.ap \in AccessPolicy
    BY <1>6, <2>1
  <2>3. \/ lead' = [lead EXCEPT !.at = "secret"] /\ UNCHANGED <<api, leadQueue>>
        \/ Update(lead.pol, lead.ap, WithGateway(lead.ap, cache[leader].gw), "secret", leadQueue)
    BY <1>8 DEF ReconcileStatus
  <2>4. WithGateway(lead.ap, cache[leader].gw) \in AccessPolicy
    BY <1>1, <2>2, PolicyEdits, Fields
  <2>5. [lead EXCEPT !.at = "secret"] \in Busy
    BY <2>2 DEF Busy
  <2>6. /\ api' \in Objects(keys, edits) /\ api'.secret = api.secret
        /\ lead' = Idle \/ lead' \in Busy
        /\ leadQueue' \subseteq Policies
    BY <1>1, <2>2, <2>3, <2>4, <2>5, UpdateType
  <2>. QED
    BY <1>1, <1>2, <1>3, <2>1, <2>6
<1>9. ASSUME ReconcileSecret PROVE G
  <2>. DEFINE k == cache[leader].secret
  <2>1. LeadStep("secret") /\ UNCHANGED ties
    BY <1>9 DEF ReconcileSecret
  <2>2. lead \in Busy /\ lead.pol \in Policies
    BY <1>6, <2>1
  <2>3. [lead EXCEPT !.at = "filter"] \in Busy
    BY <2>2 DEF Busy
  <2>4. CASE UNCHANGED <<api, keys>>
    <3>1. \/ lead' = [lead EXCEPT !.at = "filter"] /\ UNCHANGED leadQueue
          \/ Retry(lead.pol)
      BY <1>9 DEF ReconcileSecret
    <3>2. (lead' = Idle \/ lead' \in Busy) /\ leadQueue' \subseteq Policies
      BY <1>1, <2>2, <2>3, <3>1 DEF Retry
    <3>. QED
      BY <1>1, <1>2, <1>3, <2>1, <2>4, <3>2
  <2>5. CASE /\ SecretCurrent(leader) /\ ~IsKey(k)
             /\ lead' = [lead EXCEPT !.at = "filter"]
             /\ api' = [api EXCEPT !.secret = keys + 1] /\ keys' = keys + 1
             /\ UNCHANGED leadQueue
    <3>1. api \in Objects(keys + 1, edits) /\ keys + 1 \in (-2)..(keys + 1)
      BY <1>1, Later
    <3>2. api' \in Objects(keys + 1, edits)
      BY <2>5, <3>1 DEF Objects
    <3>3. cache \in [Nodes -> Objects(keys + 1, edits)]
      BY <1>1, Later
    <3>4. keys' \in Nat /\ lead' \in Busy
      BY <1>1, <2>3, <2>5
    <3>5. TypeOK'
      BY <1>1, <1>3, <2>1, <2>5, <3>2, <3>3, <3>4 DEF TypeOK, Busy
    <3>. QED
      BY <1>3, <2>1, <2>5, <3>5 DEF Replaceable, SecretCurrent
  <2>. QED
    BY <1>9, <2>4, <2>5 DEF ReconcileSecret
<1>10. ASSUME ReconcileEnvoyFilter PROVE G
  <2>. DEFINE sel == lead.ap.sel
  <2>1. LeadStep("filter") /\ lead' = Idle /\ UNCHANGED <<leadQueue, keys>>
    BY <1>10 DEF ReconcileEnvoyFilter
  <2>2. sel \in Selectors \cup {None}
    BY <1>6, <2>1 DEF AccessPolicy
  <2>3. CASE UNCHANGED <<api, ties>>
    BY <1>1, <1>2, <1>3, <2>1, <2>3
  <2>4. CASE sel # None /\ Create(sel)
    <3>. DEFINE ts == {api.efs[f].time : f \in Existing(api.efs)}
    <3>1. Free # {} /\ Free \subseteq Filters /\ Free \subseteq Nat
      BY <2>4, PolicyAssumption DEF Create, Free, Filters
    <3>2. Min(Free) \in Filters
      BY <3>1, MinIn
    <3>3. PICK t : /\ api' = [api EXCEPT !.efs[Min(Free)] = NewEnvoyFilter(sel, t)]
                   /\ \/ t = (IF ts = {} THEN 0 ELSE Max(ts) + 1) /\ ties' = ties
                      \/ /\ ts # {} /\ t = Max(ts) /\ ties' = ties + 1
                         /\ edits + restarts + ties < MaxEdits
      BY <2>4 DEF Create
    <3>4. ts # {} => Max(ts) \in Nat
      <4>1. api.efs \in [Filters -> EnvoyFilter \cup {None}]
        BY <1>1, Fields
      <4>. QED
        BY <4>1, MaxTime
    <3>. HIDE DEF ts
    <3>5. t \in Nat /\ ties' \in Nat /\ edits + restarts + ties' <= MaxEdits
      BY <1>1, <3>3, <3>4
    <3>6. NewEnvoyFilter(sel, t) \in EnvoyFilter
      <4>1. (CHOOSE o \in Orders : TRUE) \in Orders
        BY PolicyAssumption
      <4>. QED
        BY <2>2, <2>4, <3>5, <4>1 DEF NewEnvoyFilter, EnvoyFilter
    <3>7. api' \in Objects(keys, edits) /\ api'.secret = api.secret
      BY <1>1, <3>2, <3>3, <3>6 DEF Objects
    <3>. QED
      BY <1>1, <1>2, <1>3, <2>1, <3>5, <3>7
  <2>. QED
    BY <1>10, <2>3, <2>4 DEF ReconcileEnvoyFilter
<1>. QED
  BY <1>4, <1>5, <1>7, <1>8, <1>9, <1>10 DEF Lead

\* The EnvoyFilter reconciler writes filters and nothing else.
LEMMA FilterWrites ==
    ASSUME TypeOK, NEW f \in Filters, ReconcileFilter(f)
    PROVE  TypeOK' /\ UNCHANGED <<cache, store>> /\ api'.secret = api.secret
<1>1. /\ keys \in Nat /\ edits \in Nat /\ leader \in Nodes
      /\ api \in Objects(keys, edits) /\ cache \in [Nodes -> Objects(keys, edits)]
  BY DEF TypeOK
<1>2. /\ UNCHANGED <<cache, leader, lead, leadQueue, workQueue, store, missed, edits, keys, ties, restarts>>
      /\ filterQueue' \subseteq filterQueue
  BY DEF ReconcileFilter, ReconcileGone, DeleteDuplicate, DeleteUnused, UpdateFilter, FilterStep,
     Delete, counts
<1>3. CASE api' = api
  BY <1>1, <1>2, <1>3 DEF TypeOK
<1>4. ASSUME NEW x \in EnvoyFilter \cup {None}, api' = [api EXCEPT !.efs[f] = x]
      PROVE  TypeOK' /\ api'.secret = api.secret
  <2>1. api' \in Objects(keys, edits) /\ api'.secret = api.secret
    BY <1>1, <1>4 DEF Objects
  <2>. QED
    BY <1>2, <2>1 DEF TypeOK
<1>5. CASE Delete(f)
  BY <1>2, <1>3, <1>4, <1>5 DEF Delete
<1>6. ASSUME NEW order \in Orders, UpdateFilter(f, order)
      PROVE  TypeOK' /\ api'.secret = api.secret
  <2>. DEFINE efs == cache[leader].efs
              ap == cache[leader].ap
              pols == FetchAccessPolicies(f, efs, ap)
              x == [api.efs[f] EXCEPT !.pols = pols, !.order = order]
  <2>1. \/ api' = api
        \/ efs[f] # None /\ api.efs[f] = efs[f] /\ api' = [api EXCEPT !.efs[f] = [@ EXCEPT !.pols = pols, !.order = order]]
    BY <1>6 DEF UpdateFilter
  <2>2. CASE efs[f] # None /\ api.efs[f] = efs[f] /\ api' = [api EXCEPT !.efs[f] = [@ EXCEPT !.pols = pols, !.order = order]]
    <3>1. ap \in [Policies -> AccessPolicy \cup {None}] /\ api.efs[f] \in EnvoyFilter
      BY <1>1, <2>2, Fields
    <3>2. \A p \in Existing(ap) : p \in Policies /\ ap[p].spec \in 0..MaxEdits
      BY <3>1 DEF Existing, AccessPolicy
    <3>3. pols \subseteq Policies \X (0..MaxEdits)
      BY <3>2 DEF FetchAccessPolicies
    <3>. HIDE DEF pols
    <3>4. x \in EnvoyFilter
      BY <3>1, <3>3 DEF EnvoyFilter
    <3>5. api' = [api EXCEPT !.efs[f] = x]
      BY <2>2
    <3>. HIDE DEF x
    <3>. QED
      BY <1>2, <1>4, <3>4, <3>5
  <2>. QED
    BY <1>2, <1>3, <2>1, <2>2
<1>. QED
  BY <1>2, <1>3, <1>5, <1>6 DEF ReconcileFilter, ReconcileGone, DeleteDuplicate, DeleteUnused

\* The worker changes its own queue and store.
LEMMA WorkerStep ==
    ASSUME TypeOK, NEW n \in Nodes, NEW p \in Policies, Work(n, p)
    PROVE  TypeOK' /\ UNCHANGED <<api, cache>>
<1>1. /\ workQueue' = [workQueue EXCEPT ![n] = @ \ {p}]
      /\ UNCHANGED <<api, cache, leader, lead, leadQueue, filterQueue, edits, keys, ties, restarts>>
  BY DEF Work, WorkSkip, ReconcileAuth, ProviderFails, DeleteAuth, WorkStep, counts
<1>2. workQueue' \in [Nodes -> SUBSET Policies]
  BY <1>1 DEF TypeOK
<1>3. missed' \in [Nodes -> SUBSET Policies] /\ DOMAIN store' = Nodes
  BY DEF Work, WorkSkip, ReconcileAuth, ProviderFails, DeleteAuth, TypeOK
<1>. QED
  BY <1>1, <1>2, <1>3 DEF TypeOK

\* What a replacement of a replica leaves, its store empty and its cache new.
LEMMA ReplacedType ==
    ASSUME TypeOK, NEW n \in Nodes, Replaced(n), restarts' \in Nat, edits + restarts' + ties <= MaxEdits
    PROVE  /\ TypeOK'
           /\ api' = api
           /\ store' = [store EXCEPT ![n] = Empty]
           /\ \A m \in Nodes : cache'[m].secret \in {cache[m].secret, api.secret}
<1>1. /\ keys \in Nat /\ edits \in Nat /\ leader \in Nodes
      /\ api \in Objects(keys, edits) /\ cache \in [Nodes -> Objects(keys, edits)]
  BY DEF TypeOK
<1>2. PICK l \in Nodes :
        /\ leader' = l
        /\ cache' = [m \in Nodes |->
                       IF m = n THEN Seen(n, l)
                       ELSE IF n = leader /\ m = l
                            THEN [cache[m] EXCEPT !.gw = api.gw, !.efs = api.efs]
                       ELSE cache[m]]
        /\ workQueue' = [workQueue EXCEPT ![n] = Existing(api.ap)]
        /\ IF n = leader
           THEN /\ lead' = Idle
                /\ leadQueue' = Existing(cache'[l].ap)
                /\ filterQueue' = Existing(api.efs)
           ELSE UNCHANGED <<lead, leadQueue, filterQueue>>
  BY <1>1 DEF Replaced
<1>3. /\ store' = [store EXCEPT ![n] = Empty]
      /\ missed' = [missed EXCEPT ![n] = {}]
      /\ UNCHANGED <<api, edits, keys, ties>>
  BY DEF Replaced
<1>4. Seen(n, l) \in Objects(keys, edits) /\ Seen(n, l).secret = api.secret
  <2>1. NoFilters \in [Filters -> EnvoyFilter \cup {None}]
    BY DEF NoFilters
  <2>. QED
    BY <1>1, <2>1 DEF Objects, Seen
<1>5. \A m \in Nodes :
        /\ [cache[m] EXCEPT !.gw = api.gw, !.efs = api.efs] \in Objects(keys, edits)
        /\ [cache[m] EXCEPT !.gw = api.gw, !.efs = api.efs].secret = cache[m].secret
  BY <1>1 DEF Objects
<1>6. /\ cache' \in [Nodes -> Objects(keys, edits)]
      /\ \A m \in Nodes : cache'[m].secret \in {cache[m].secret, api.secret}
  BY <1>1, <1>2, <1>4, <1>5
<1>7. /\ Existing(api.ap) \subseteq Policies /\ Existing(api.efs) \subseteq Filters
      /\ Existing(cache'[l].ap) \subseteq Policies
  BY <1>1, <1>2, <1>6, Fields
<1>8. /\ leadQueue' \subseteq Policies /\ filterQueue' \subseteq Filters
      /\ workQueue' \in [Nodes -> SUBSET Policies]
  BY <1>2, <1>7 DEF TypeOK
<1>9. missed' \in [Nodes -> SUBSET Policies] /\ DOMAIN store' = Nodes
  BY <1>3 DEF TypeOK
<1>10. \/ lead' = Idle
       \/ lead' \in [at : {"spec", "status", "secret", "filter"}, pol : Policies, ap : AccessPolicy]
  BY <1>2 DEF TypeOK
<1>. QED
  BY <1>1, <1>2, <1>3, <1>6, <1>8, <1>9, <1>10 DEF TypeOK

\* The ends of processes: by hand, or by one of the panics.
Ends ==
    \/ \E n \in Nodes : Restart(n)
    \/ \E n \in Nodes, p \in Policies : MappingPanics(n, p)
    \/ \E f \in Filters : FilterPanics(f)
    \/ SecretPanics

LEMMA ReplacedStep ==
    ASSUME TypeOK, Ends
    PROVE  \E n \in Nodes :
             /\ TypeOK'
             /\ api' = api
             /\ store' = [store EXCEPT ![n] = Empty]
             /\ \A m \in Nodes : cache'[m].secret \in {cache[m].secret, api.secret}
<1>1. /\ edits \in Nat /\ restarts \in Nat /\ ties \in Nat /\ MaxEdits \in Nat
      /\ edits + restarts + ties <= MaxEdits
      /\ leader \in Nodes
  BY PolicyAssumption DEF TypeOK
<1>. DEFINE Bound == restarts' \in Nat /\ edits + restarts' + ties <= MaxEdits
<1>2. \A n \in Nodes : Restart(n) => Replaced(n) /\ Bound
  BY <1>1 DEF Restart
<1>3. \A f \in Filters : FilterPanics(f) => Replaced(leader) /\ Bound
  BY <1>1 DEF FilterPanics
<1>4. \A n \in Nodes, p \in Policies : MappingPanics(n, p) => Replaced(n) /\ Bound
  BY <1>1 DEF MappingPanics
<1>5. SecretPanics => Replaced(leader) /\ Bound
  BY <1>1 DEF SecretPanics
<1>. QED
  BY <1>1, <1>2, <1>3, <1>4, <1>5, ReplacedType DEF Ends

-----------------------------------------------------------------------------
(* The key that signs the cookies *)

\* Every key of the right size in a cache, however old, is the one in the
\* secret, and so is every one in the settings that a node checks requests with.
CachesAgree ==
    \A n \in Nodes : cache[n].secret # None /\ IsKey(cache[n].secret) => cache[n].secret = api.secret
StoresAgree ==
    \A n \in Nodes : \A name \in DOMAIN store[n] :
        LET k == store[n][name].key IN k # None /\ (IsKey(k) => k = api.secret)

Inv == TypeOK /\ CachesAgree /\ StoresAgree

\* The controllers start with caches that are up to date and empty stores.
LEMMA InitInv == Init => Inv
<1>. SUFFICES ASSUME Init PROVE Inv
  OBVIOUS
<1>1. /\ api \in Objects(1, 0) /\ edits = 0 /\ keys = 1 /\ ties = 0 /\ restarts = 0
      /\ leader \in Nodes /\ lead = Idle /\ MaxEdits \in Nat
  BY PreparedAssumption, PolicyAssumption DEF Init
<1>2. \A n \in Nodes : Seen(n, leader) \in Objects(1, 0) /\ Seen(n, leader).secret = api.secret
  <2>1. NoFilters \in [Filters -> EnvoyFilter \cup {None}]
    BY DEF NoFilters
  <2>. QED
    BY <1>1, <2>1 DEF Objects, Seen
<1>3. cache \in [Nodes -> Objects(1, 0)] /\ \A n \in Nodes : cache[n].secret = api.secret
  BY <1>2 DEF Init
<1>4. Existing(api.ap) \subseteq Policies /\ Existing(api.efs) \subseteq Filters
  BY <1>1, Fields
<1>5. /\ leadQueue \subseteq Policies /\ filterQueue \subseteq Filters
      /\ workQueue \in [Nodes -> SUBSET Policies]
      /\ missed \in [Nodes -> SUBSET Policies]
      /\ DOMAIN store = Nodes /\ \A n \in Nodes : DOMAIN store[n] = {}
  BY <1>4 DEF Init, Empty
<1>6. TypeOK
  BY <1>1, <1>3, <1>5 DEF TypeOK
<1>. QED
  BY <1>3, <1>5, <1>6 DEF Inv, CachesAgree, StoresAgree

\* A write to the secret replaces no key of the right size, so that what the
\* nodes have of it stays current.
LEMMA AgreeWhenWritten ==
    ASSUME CachesAgree, StoresAgree, UNCHANGED <<cache, store>>,
           api'.secret = api.secret \/ Replaceable
    PROVE  CachesAgree' /\ StoresAgree'
BY DEF CachesAgree, StoresAgree, Replaceable

\* The settings that the worker stores, or is left with, have a current key.
LEMMA WorkerAgrees ==
    ASSUME Inv, NEW n \in Nodes, NEW p \in Policies, Work(n, p)
    PROVE  CachesAgree' /\ StoresAgree'
<1>1. TypeOK /\ UNCHANGED <<api, cache>> /\ DOMAIN store = Nodes
  BY WorkerStep DEF Inv, TypeOK
<1>2. CachesAgree'
  BY <1>1 DEF Inv, CachesAgree
<1>3. CASE UNCHANGED store
  BY <1>1, <1>2, <1>3 DEF Inv, StoresAgree
<1>4. CASE ReconcileAuth(n, p)
  <2>. DEFINE c == cache[n]
              pol == [spec |-> c.ap[p].spec, key |-> c.secret, op |-> c.op]
  <2>1. /\ store' = [store EXCEPT ![n] = StoreUpdate(@, StoreName(p), pol)]
        /\ c.secret # None
    BY <1>4 DEF ReconcileAuth, Complete
  <2>2. pol.key # None /\ (IsKey(pol.key) => pol.key = api.secret)
    BY <2>1 DEF Inv, CachesAgree
  <2>. HIDE DEF pol
  <2>3. \A m \in Nodes : \A name \in DOMAIN store'[m] :
          store'[m][name] = pol \/ (name \in DOMAIN store[m] /\ store'[m][name] = store[m][name])
    BY <1>1, <2>1 DEF StoreUpdate
  <2>4. \A m \in Nodes : \A name \in DOMAIN store'[m] :
          store'[m][name].key # None /\ (IsKey(store'[m][name].key) => store'[m][name].key = api.secret)
    BY <2>2, <2>3 DEF Inv, StoresAgree
  <2>. QED
    BY <1>1, <1>2, <2>4 DEF StoresAgree
<1>5. CASE DeleteAuth(n, p)
  <2>1. store' = [store EXCEPT ![n] = StoreDelete(@, p)]
    BY <1>5 DEF DeleteAuth
  <2>2. \A m \in Nodes : \A name \in DOMAIN store'[m] :
          name \in DOMAIN store[m] /\ store'[m][name] = store[m][name]
    BY <1>1, <2>1 DEF StoreDelete, Restrict
  <2>. QED
    BY <1>1, <1>2, <2>2 DEF Inv, StoresAgree
<1>. QED
  BY <1>2, <1>3, <1>4, <1>5 DEF Work, WorkSkip, ProviderFails

\* What a step of the system is, as far as keys are concerned.
LEMMA NextInv ==
    ASSUME Inv, [Next]_vars
    PROVE  Inv' /\ (api'.secret = api.secret \/ Replaceable)
<1>0. TypeOK /\ CachesAgree /\ StoresAgree
  BY DEF Inv
<1>. DEFINE G == Inv' /\ (api'.secret = api.secret \/ Replaceable)
<1>1. CASE User
  <2>1. UNCHANGED <<cache, store>>
    BY <1>1 DEF User
  <2>. QED
    BY <1>0, <1>1, <2>1, UserStep, AgreeWhenWritten DEF Inv
<1>2. CASE Watch
  <2>1. /\ TypeOK' /\ UNCHANGED <<api, store>>
        /\ \A n \in Nodes : cache'[n].secret \in {cache[n].secret, api.secret}
    BY <1>0, <1>2, WatchStep
  <2>. QED
    BY <1>0, <2>1 DEF Inv, CachesAgree, StoresAgree
<1>3. CASE Lead \/ \E p \in Policies : Reconcile(p) \/ RemoveFinalizer(p)
  BY <1>0, <1>3, LeaderStep, AgreeWhenWritten DEF Inv
<1>4. CASE \E f \in Filters : ReconcileFilter(f)
  BY <1>0, <1>4, FilterWrites, AgreeWhenWritten DEF Inv
<1>5. CASE Ends
  <2>1. PICK n \in Nodes :
          /\ TypeOK' /\ api' = api
          /\ store' = [store EXCEPT ![n] = Empty]
          /\ \A m \in Nodes : cache'[m].secret \in {cache[m].secret, api.secret}
    BY <1>0, <1>5, ReplacedStep
  <2>2. CachesAgree'
    BY <1>0, <2>1 DEF CachesAgree
  <2>3. \A m \in Nodes : store'[m] = store[m] \/ DOMAIN store'[m] = {}
    BY <1>0, <2>1 DEF TypeOK, Empty
  <2>4. StoresAgree'
    BY <1>0, <2>1, <2>3 DEF StoresAgree
  <2>. QED
    BY <2>1, <2>2, <2>4 DEF Inv
<1>6. ASSUME NEW n \in Nodes, NEW p \in Policies, Work(n, p) PROVE G
  <2>1. TypeOK' /\ UNCHANGED <<api, cache>>
    BY <1>0, <1>6, WorkerStep
  <2>. QED
    BY <1>6, <2>1, WorkerAgrees DEF Inv
<1>7. CASE UNCHANGED vars
  <2>1. UNCHANGED <<cache, store>> /\ api' = api
    BY <1>7 DEF vars
  <2>2. TypeOK'
    BY <1>0, <1>7 DEF vars, TypeOK
  <2>. QED
    BY <1>0, <2>1, <2>2, AgreeWhenWritten DEF Inv
<1>. QED
  BY <1>1, <1>2, <1>3, <1>4, <1>5, <1>6, <1>7 DEF Next, Ends

\* The invariant holds whatever the caches lag, the user edits and restarts.
THEOREM Invariance == Spec => []Inv
<1>1. Inv /\ [Next]_vars => Inv'
  BY NextInv
<1>. QED
  BY <1>1, InitInv, PTL DEF Spec

\* The objects, the caches, the reconcilers' requests and their copy of a
\* policy keep their types; no filter is made without a selector.
THEOREM TypeCorrect == Spec => []TypeOK
<1>1. Inv => TypeOK
  BY DEF Inv
<1>. QED
  BY <1>1, Invariance, PTL

\* reconcileSecret never replaces a key of the right size.
THEOREM KeyNeverReplaced == Spec => KeyStable
<1>1. Inv /\ [Next]_vars =>
        [api.secret # None /\ IsKey(api.secret) => api'.secret = api.secret]_vars
  BY NextInv DEF Replaceable
<1>. QED
  BY <1>1, Invariance, PTL DEF Spec, KeyStable

\* No two nodes ever check cookies with different keys of the right size: each
\* has the one that is in the secret, or none yet.
OneKey ==
    \A n \in Nodes : \A name \in DOMAIN store[n] :
        LET k == store[n][name].key IN IsKey(k) => k = api.secret

\* Whatever policies were stored when, from however old a cache, and whichever
\* node was the leader: cookies signed by one node are good on all of them.
THEOREM NodesShareKey == Spec => []OneKey
<1>1. Inv => OneKey
  BY DEF Inv, StoresAgree, OneKey
<1>. QED
  BY <1>1, Invariance, PTL

=============================================================================
