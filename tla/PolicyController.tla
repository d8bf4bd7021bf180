-------------------------- MODULE PolicyController --------------------------
(***************************************************************************)
(* The Kubernetes controllers.  A user edits AccessPolicies, a credentials  *)
(* secret, a gateway and an OpenIDProvider; on the leader, the leader       *)
(* reconciler completes the policies and sees to it that there is an        *)
(* EnvoyFilter for every selector, and the EnvoyFilter reconciler fills the  *)
(* filters and deletes spare ones; on every node the worker reconciler puts *)
(* policies into the store that the authorization check reads.              *)
(*                                                                          *)
(* A reconciler reads the informers' caches of its node, which lag behind   *)
(* the API by any amount, and writes to the API, which refuses a write to   *)
(* an object that is no longer as it was read.  The version of an object is *)
(* its content: every edit by the user has a number of its own.  Reading a  *)
(* cache is one step with the write that follows it, for the cache may lag  *)
(* as long as it likes; the leader reconciler, with its several writes, is  *)
(* several steps.                                                           *)
(***************************************************************************)
EXTENDS Integers, FiniteSets, FiniteSetsExt, Functions

CONSTANTS
    Nodes,        \* the replicas
    Policies,     \* names of AccessPolicies, in one namespace
    Selectors,    \* what a gateway may select
    None,         \* no object, or no selector
    Prepared,     \* which objects there may be when the controllers start
    Qualified,    \* whether policies name their provider as namespace/name
    Orders,       \* the orders that the patches of one EnvoyFilter may come in
    MaxFilters,   \* bound on the EnvoyFilters there are at a time
    MaxCopies,    \* bound on the EnvoyFilters with one selector at a time
    MaxEdits      \* bound on the user's edits, the restarts of replicas and the
                  \* EnvoyFilters made in the same second as another, together

Filters == 1..MaxFilters

\* The token key of the secret: the secret has no data at all, no token key, one
\* of the wrong size, or a key of sha512.Size bytes.
NoData == -2
WrongKey == -1
NoKey == 0
IsKey(k) == k > 0

ASSUME PolicyAssumption ==
    /\ Nodes # {} /\ IsFiniteSet(Policies) /\ None \notin Selectors
    /\ Qualified \in BOOLEAN /\ Orders # {}
    /\ \A bound \in {MaxFilters, MaxCopies, MaxEdits} : bound \in Nat

\* The role mappings of the provider: New reads them, refuses them or, with a
\* path that is empty or ends in a dot, ends the process.
Mappings == {"fine", "invalid", "panic"}

\* The objects while the user has made e edits and the leader keys up to k.  A
\* policy is ok when its callback path parses; the secret has the client's id
\* and secret, or not; delete says whether the role that the service account of
\* the controllers is bound to lets them delete EnvoyFilters.
AccessPolicy ==
    [spec : 0..MaxEdits, ok : BOOLEAN, norm : BOOLEAN, fin : BOOLEAN, del : BOOLEAN,
     sel : Selectors \cup {None}]
EnvoyFilter ==
    [sel : Selectors, time : Nat, pols : SUBSET (Policies \X (0..MaxEdits)), order : Orders]
Objects(k, e) ==
    [ap : [Policies -> AccessPolicy \cup {None}], secret : {None} \cup (-2)..k, client : BOOLEAN,
     gw : Selectors \cup {None}, op : 0..(e + 1), maps : Mappings,
     efs : [Filters -> EnvoyFilter \cup {None}], delete : BOOLEAN]

ASSUME PreparedAssumption == Prepared \subseteq Objects(1, 0)

VARIABLES
    api,       \* the objects; op is the provider's version, 0 if there is none
    cache,     \* what each node has seen of them
    leader,    \* the node with the lease
    lead,      \* where the leader reconciler is, and its copy of the policy
    leadQueue, filterQueue, workQueue,   \* requests
    store,     \* the policy store of each node
    missed,    \* policies not stored because the provider did not answer
    edits, keys, ties, restarts          \* how many so far

vars == <<api, cache, leader, lead, leadQueue, filterQueue, workQueue,
          store, missed, edits, keys, ties, restarts>>
queues == <<leadQueue, filterQueue, workQueue>>
counts == <<edits, keys, ties, restarts>>

\* Policies have a deletion timestamp, or not.
Live(o) == o # None /\ ~o.del
Deleted(o) == o # None /\ o.del

Existing(objs) == {x \in DOMAIN objs : objs[x] # None}
Changed(old, new) == {x \in DOMAIN new : old[x] # new[x]}

NoFilters == [f \in Filters |-> None]
Idle == [at |-> "idle", pol |-> None, ap |-> None]
Empty == [x \in {} |-> None]

\* The policy store of a node: a dictionary, with names "namespace/name".
StoreName(p) == <<"namespace", p>>
StoreUpdate(dict, name, pol) ==
    [k \in DOMAIN dict \cup {name} |-> IF k = name THEN pol ELSE dict[k]]
StoreDelete(dict, name) == Restrict(dict, DOMAIN dict \ {name})

\* The manager of a node has informers for Gateways and EnvoyFilters only
\* when it leads.
Seen(n, l) == IF n = l THEN api ELSE [api EXCEPT !.gw = None, !.efs = NoFilters]

\* An AccessPolicy as the user makes it, with or without the names of the
\* keys in its secret.
NewPolicy(spec) ==
    [spec : {spec}, ok : BOOLEAN, norm : BOOLEAN, fin : {FALSE}, del : {FALSE}, sel : {None}]

\* The controllers start in a cluster that earlier processes may have left.
Init ==
    /\ api \in Prepared
    /\ leader \in Nodes
    /\ cache = [n \in Nodes |-> Seen(n, leader)]
    /\ lead = Idle
    /\ leadQueue = Existing(api.ap) /\ filterQueue = Existing(api.efs)
    /\ workQueue = [n \in Nodes |-> Existing(api.ap)]
    /\ store = [n \in Nodes |-> Empty]
    /\ missed = [n \in Nodes |-> {}]
    /\ edits = 0 /\ keys = 1 /\ ties = 0 /\ restarts = 0

-----------------------------------------------------------------------------
(* The user *)

UserCreates(p) == api.ap[p] = None /\ \E o \in NewPolicy(edits + 1) : api' = [api EXCEPT !.ap[p] = o]

UserEdits(p) ==
    /\ Live(api.ap[p])
    /\ \E norm \in {FALSE, api.ap[p].norm}, ok \in BOOLEAN :
         api' = [api EXCEPT !.ap[p] = [@ EXCEPT !.spec = edits + 1, !.ok = ok, !.norm = norm]]

\* An object with a finalizer is only marked.
UserDeletes(p) ==
    /\ Live(api.ap[p])
    /\ api' = IF api.ap[p].fin THEN [api EXCEPT !.ap[p] = [@ EXCEPT !.del = TRUE]]
                               ELSE [api EXCEPT !.ap[p] = None]

\* A secret may be made empty, and filled or corrected later.
UserSecret ==
    \E k \in IF api.secret \in {None, NoData} THEN {NoData, NoKey} ELSE {api.secret},
       client \in BOOLEAN :
      /\ k = NoData => ~client
      /\ <<k, client>> # <<api.secret, api.client>>
      /\ api' = [api EXCEPT !.secret = k, !.client = client]
UserGateway == \E s \in Selectors \cup {None} : s # api.gw /\ api' = [api EXCEPT !.gw = s]
UserProvider == \E m \in Mappings : api' = [api EXCEPT !.op = @ + 1, !.maps = m]

User ==
    /\ edits + restarts + ties < MaxEdits
    /\ \/ \E p \in Policies : UserCreates(p) \/ UserEdits(p) \/ UserDeletes(p)
       \/ UserSecret \/ UserGateway \/ UserProvider
    /\ edits' = edits + 1
    /\ UNCHANGED <<cache, leader, lead, queues, store, missed, keys, ties, restarts>>

-----------------------------------------------------------------------------
(* Watches: an informer catches up, and its handlers add requests *)

Enqueue(n, lq, fq, wq) ==
    /\ leadQueue' = IF n = leader THEN leadQueue \cup lq ELSE leadQueue
    /\ filterQueue' = IF n = leader THEN filterQueue \cup fq ELSE filterQueue
    /\ workQueue' = [workQueue EXCEPT ![n] = @ \cup wq]
    /\ UNCHANGED <<api, leader, lead, store, missed, counts>>

\* The EnvoyFilters of a policy's selector.
FiltersOf(pol, efs) == {f \in Existing(efs) : pol # None /\ efs[f].sel = pol.sel}

\* Faulty: a policy that changes its selector is not mapped to its old filter.
WatchPolicies_NewOnly(n) ==
    LET changed == Changed(cache[n].ap, api.ap)
    IN  /\ changed # {}
        /\ cache' = [cache EXCEPT ![n].ap = api.ap]
        /\ Enqueue(n, changed,
                   UNION {FiltersOf(api.ap[p], cache[n].efs) : p \in changed}, changed)

WatchPolicies(n) ==
    LET changed == Changed(cache[n].ap, api.ap)
    IN  /\ changed # {}
        /\ cache' = [cache EXCEPT ![n].ap = api.ap]
        /\ Enqueue(n, changed,
                   UNION {FiltersOf(cache[n].ap[p], cache[n].efs) \cup
                          FiltersOf(api.ap[p], cache[n].efs) : p \in changed},
                   changed)

SecretCurrent(n) == cache[n].secret = api.secret /\ cache[n].client = api.client

\* Faulty: only the leader watches secrets.
WatchSecret_Leader(n) ==
    /\ ~SecretCurrent(n)
    /\ cache' = [cache EXCEPT ![n].secret = api.secret, ![n].client = api.client]
    /\ Enqueue(n, Existing(cache[n].ap), {}, {})

WatchSecret(n) ==
    /\ ~SecretCurrent(n)
    /\ cache' = [cache EXCEPT ![n].secret = api.secret, ![n].client = api.client]
    /\ Enqueue(n, Existing(cache[n].ap), {}, Existing(cache[n].ap))

\* opIsRelated compares the provider's bare name with what the policy says.
WatchProvider(n) ==
    /\ cache[n].op # api.op
    /\ cache' = [cache EXCEPT ![n].op = api.op, ![n].maps = api.maps]
    /\ Enqueue(n, {}, {}, IF Qualified THEN {} ELSE Existing(cache[n].ap))

WatchGateway ==
    /\ cache[leader].gw # api.gw
    /\ cache' = [cache EXCEPT ![leader].gw = api.gw]
    /\ Enqueue(leader, Existing(cache[leader].ap), {}, {})

WatchFilters ==
    LET old == cache[leader].efs
        changed == Changed(old, api.efs)
        sels == {old[f].sel : f \in changed \cap Existing(old)} \cup
                {api.efs[f].sel : f \in changed \cap Existing(api.efs)}
        ap == cache[leader].ap
    IN  /\ changed # {}
        /\ cache' = [cache EXCEPT ![leader].efs = api.efs]
        /\ Enqueue(leader, {p \in Existing(ap) : ap[p].sel \in sels}, changed, {})

Watch == WatchGateway \/ WatchFilters \/
         \E n \in Nodes : WatchPolicies(n) \/ WatchSecret(n) \/ WatchProvider(n)

-----------------------------------------------------------------------------
(* The leader reconciler *)

LeadStep(at) == lead.at = at /\ UNCHANGED <<cache, leader, filterQueue, workQueue,
                                            store, missed, edits, restarts>>

\* The request goes back to the queue.
Retry(p) ==
    /\ lead' = Idle
    /\ leadQueue' = leadQueue \cup {p}

\* An update of the policy, refused if it is not as it was read.
Update(p, old, new, at, queue) ==
    \/ /\ api.ap[p] = old
       /\ api' = [api EXCEPT !.ap[p] = new]
       /\ lead' = [at |-> at, pol |-> p, ap |-> new]
       /\ leadQueue' = queue
    \/ /\ api.ap[p] # old
       /\ Retry(p)
       /\ UNCHANGED api

Reconcile(p) ==
    LET o == cache[leader].ap[p]
    IN  /\ LeadStep("idle") /\ p \in leadQueue
        /\ \/ /\ o = None \/ (Deleted(o) /\ ~o.fin)
              /\ leadQueue' = leadQueue \ {p}
              /\ UNCHANGED <<api, lead>>
           \/ /\ Live(o) /\ o.fin
              /\ lead' = [at |-> "spec", pol |-> p, ap |-> o]
              /\ leadQueue' = leadQueue \ {p}
              /\ UNCHANGED api
           \/ /\ Live(o) /\ ~o.fin
              /\ Update(p, o, [o EXCEPT !.fin = TRUE], "spec", leadQueue \ {p})
        /\ UNCHANGED <<keys, ties>>

\* Without its last finalizer a deleted policy is gone.
RemoveFinalizer(p) ==
    LET o == cache[leader].ap[p]
    IN  /\ LeadStep("idle") /\ p \in leadQueue
        /\ Deleted(o) /\ o.fin
        /\ \/ /\ api.ap[p] = o
              /\ api' = [api EXCEPT !.ap[p] = None]
              /\ leadQueue' = leadQueue \ {p}
              /\ UNCHANGED lead
           \/ /\ api.ap[p] # o
              /\ Retry(p)
              /\ UNCHANGED api
        /\ UNCHANGED <<keys, ties>>

\* Missing key names and a missing callback path get their defaults.
Normalize(o) == [o EXCEPT !.norm = TRUE]

\* The selector stands for the virtual hosts, too.
WithGateway(o, sel) == [o EXCEPT !.sel = sel]

\* Faulty: normalizing a spec twice is not the same as once.
ReconcileSpec_Toggles ==
    /\ LeadStep("spec")
    /\ Update(lead.pol, lead.ap, [lead.ap EXCEPT !.norm = ~@], "status", leadQueue)
    /\ UNCHANGED <<keys, ties>>

ReconcileSpec ==
    /\ LeadStep("spec")
    /\ Update(lead.pol, lead.ap, Normalize(lead.ap), "status", leadQueue)
    /\ UNCHANGED <<keys, ties>>

ReconcileStatus ==
    /\ LeadStep("status")
    /\ LET sel == cache[leader].gw
       IN  IF sel = None
           THEN lead' = [lead EXCEPT !.at = "secret"] /\ UNCHANGED <<api, leadQueue>>
           ELSE Update(lead.pol, lead.ap, WithGateway(lead.ap, sel), "secret", leadQueue)
    /\ UNCHANGED <<keys, ties>>

\* Faulty: the secret is written whatever it has become since it was read.
ReconcileSecret_Forced ==
    LET k == cache[leader].secret
    IN  /\ LeadStep("secret") /\ UNCHANGED ties
        /\ lead' = [lead EXCEPT !.at = "filter"]
        /\ k # NoData
        /\ IF k = None \/ api.secret = None \/ IsKey(k)
           THEN UNCHANGED <<api, keys>>
           ELSE api' = [api EXCEPT !.secret = keys + 1] /\ keys' = keys + 1
        /\ UNCHANGED leadQueue

ReconcileSecret ==
    LET k == cache[leader].secret
    IN  /\ LeadStep("secret") /\ UNCHANGED ties
        /\ k # NoData
        /\ \/ /\ k = None
              /\ lead' = [lead EXCEPT !.at = "filter"]
              /\ UNCHANGED <<api, leadQueue, keys>>
           \/ /\ k # None /\ SecretCurrent(leader)
              /\ lead' = [lead EXCEPT !.at = "filter"]
              /\ IF IsKey(k) THEN UNCHANGED <<api, keys>>
                             ELSE api' = [api EXCEPT !.secret = keys + 1] /\ keys' = keys + 1
              /\ UNCHANGED leadQueue
           \/ /\ k # None /\ ~SecretCurrent(leader)
              /\ Retry(lead.pol)
              /\ UNCHANGED <<api, keys>>

\* Names that neither the API nor the cache nor a request has.
Free == Filters \ (Existing(api.efs) \cup Existing(cache[leader].efs) \cup filterQueue)

NewEnvoyFilter(sel, time) ==
    [sel |-> sel, time |-> time, pols |-> {}, order |-> CHOOSE o \in Orders : TRUE]

\* Creation times are in whole seconds: a new filter may tie with the last.
Create(sel) ==
    LET ts == {api.efs[f].time : f \in Existing(api.efs)}
        made(t) == [api EXCEPT !.efs[Min(Free)] = NewEnvoyFilter(sel, t)]
    IN  /\ Free # {}
        /\ Cardinality({f \in Existing(api.efs) : api.efs[f].sel = sel}) < MaxCopies
        /\ \/ /\ api' = made(IF ts = {} THEN 0 ELSE Max(ts) + 1)
              /\ UNCHANGED ties
           \/ /\ ts # {} /\ edits + restarts + ties < MaxEdits
              /\ api' = made(Max(ts))
              /\ ties' = ties + 1

\* Faulty: a policy whose gateway is not known yet gets a filter, too.
ReconcileEnvoyFilter_AnySelector ==
    LET sel == lead.ap.sel
        found == \E f \in Existing(cache[leader].efs) : cache[leader].efs[f].sel = sel
    IN  /\ LeadStep("filter")
        /\ \/ found /\ UNCHANGED <<api, ties>>
           \/ ~found /\ Create(sel)
        /\ lead' = Idle
        /\ UNCHANGED <<leadQueue, keys>>

ReconcileEnvoyFilter ==
    LET sel == lead.ap.sel
        found == \E f \in Existing(cache[leader].efs) : cache[leader].efs[f].sel = sel
    IN  /\ LeadStep("filter")
        /\ \/ (sel = None \/ found) /\ UNCHANGED <<api, ties>>
           \/ sel # None /\ ~found /\ Create(sel)
        /\ lead' = Idle
        /\ UNCHANGED <<leadQueue, keys>>

Lead == ReconcileSpec \/ ReconcileStatus \/ ReconcileSecret \/ ReconcileEnvoyFilter

-----------------------------------------------------------------------------
(* The EnvoyFilter reconciler *)

\* The first of the filters with this selector, by time of creation.  The
\* sort is not stable and the list not in order: among equals, any.
First(f, efs) ==
    LET same == {g \in Existing(efs) : efs[g].sel = efs[f].sel}
    IN  {g \in same : \A h \in same : efs[g].time <= efs[h].time}

\* What the filter is made from: the policies with its selector that convert,
\* for which there is no need of a secret.
FetchAccessPolicies(f, efs, ap) ==
    {<<p, ap[p].spec>> : p \in {p \in Existing(ap) : ap[p].sel = efs[f].sel /\ ap[p].ok}}

FilterStep(f) ==
    /\ f \in filterQueue
    /\ UNCHANGED <<cache, leader, lead, leadQueue, workQueue, store, missed, counts>>

\* It is an error, and retried for ever, to delete a filter that is gone from
\* the API or without the right to.
Delete(f) ==
    \/ /\ api.delete /\ api.efs[f] # None
       /\ api' = [api EXCEPT !.efs[f] = None]
       /\ filterQueue' = filterQueue \ {f}
    \/ /\ ~api.delete \/ api.efs[f] = None
       /\ UNCHANGED <<api, filterQueue>>

ReconcileGone(f) ==
    /\ FilterStep(f)
    /\ cache[leader].efs[f] = None
    /\ filterQueue' = filterQueue \ {f}
    /\ UNCHANGED api

DeleteDuplicate(f) ==
    LET efs == cache[leader].efs
    IN  /\ FilterStep(f) /\ efs[f] # None
        /\ First(f, efs) # {f}
        /\ Delete(f)

DeleteUnused(f) ==
    LET efs == cache[leader].efs
    IN  /\ FilterStep(f) /\ efs[f] # None
        /\ f \in First(f, efs)
        /\ FetchAccessPolicies(f, efs, cache[leader].ap) = {}
        /\ Delete(f)

\* Policies come in the order of a list and their routes in that of a map: the
\* same policies may give another spec, and with it another generation, which
\* the watch of this controller lets through.
UpdateFilter(f, order) ==
    LET efs == cache[leader].efs
        pols == FetchAccessPolicies(f, efs, cache[leader].ap)
    IN  /\ FilterStep(f) /\ efs[f] # None
        /\ f \in First(f, efs)
        /\ pols # {}
        /\ IF api.efs[f] = efs[f]
           THEN /\ api' = [api EXCEPT !.efs[f] = [@ EXCEPT !.pols = pols, !.order = order]]
                /\ filterQueue' = filterQueue \ {f}
           ELSE UNCHANGED <<api, filterQueue>>

ReconcileFilter(f) ==
    \/ ReconcileGone(f) \/ DeleteDuplicate(f) \/ DeleteUnused(f)
    \/ \E order \in Orders : UpdateFilter(f, order)

\* The random order is the one the filter has already.
SameOrder(f) == api.efs[f] # None /\ UpdateFilter(f, api.efs[f].order)

-----------------------------------------------------------------------------
(* The worker reconciler *)

WorkStep(n, p) ==
    /\ p \in workQueue[n]
    /\ workQueue' = [workQueue EXCEPT ![n] = @ \ {p}]
    /\ UNCHANGED <<api, cache, leader, lead, leadQueue, filterQueue, counts>>

\* accesspolicy.New fails when the callback does not parse, without the names
\* of the keys, and without one of the keys.
Convertible(c, p) == c.ap[p].ok /\ c.ap[p].norm /\ c.client /\ c.secret \notin {NoData, NoKey}

\* What reconcileAuth finds before it asks the provider.
Complete(c, p) ==
    /\ Live(c.ap[p])
    /\ c.op # 0 /\ c.secret # None
    /\ Convertible(c, p)

WorkSkip(n, p) ==
    /\ WorkStep(n, p)
    /\ ~Deleted(cache[n].ap[p])
    /\ Complete(cache[n], p) => cache[n].maps = "invalid"
    /\ UNCHANGED <<store, missed>>

ReconcileAuth(n, p) ==
    LET c == cache[n]
        pol == [spec |-> c.ap[p].spec, key |-> c.secret, op |-> c.op]
    IN  /\ WorkStep(n, p) /\ Complete(c, p) /\ c.maps = "fine"
        /\ store' = [store EXCEPT ![n] = StoreUpdate(@, StoreName(p), pol)]
        /\ missed' = [missed EXCEPT ![n] = @ \ {p}]

\* openidprovider.New asks the provider for its configuration.
ProviderFails(n, p) ==
    /\ WorkStep(n, p) /\ Complete(cache[n], p)
    /\ missed' = [missed EXCEPT ![n] = @ \cup {p}]
    /\ UNCHANGED store

\* The name that is deleted is the policy's, not the one it is stored under.
DeleteAuth(n, p) ==
    /\ WorkStep(n, p)
    /\ Deleted(cache[n].ap[p])
    /\ store' = [store EXCEPT ![n] = StoreDelete(@, p)]
    /\ UNCHANGED missed

Work(n, p) == WorkSkip(n, p) \/ ReconcileAuth(n, p) \/ ProviderFails(n, p) \/ DeleteAuth(n, p)

-----------------------------------------------------------------------------
(* A replica is replaced.  Its informers list everything before its         *)
(* controllers start; if it was the leader, any replica may follow it.      *)

Replaced(n) ==
    /\ \E l \in IF n = leader THEN Nodes ELSE {leader} :
         /\ leader' = l
         /\ cache' = [m \in Nodes |->
                        IF m = n THEN Seen(n, l)
                        ELSE IF n = leader /\ m = l
                             THEN [cache[m] EXCEPT !.gw = api.gw, !.efs = api.efs]
                        ELSE cache[m]]
         /\ workQueue' = [workQueue EXCEPT ![n] = Existing(api.ap)]
         /\ IF n = leader
            THEN /\ lead' = Idle
                 /\ leadQueue' = Existing(cache'[l].ap)
                 /\ filterQueue' = Existing(api.efs)
            ELSE UNCHANGED <<lead, leadQueue, filterQueue>>
    /\ store' = [store EXCEPT ![n] = Empty]
    /\ missed' = [missed EXCEPT ![n] = {}]
    /\ UNCHANGED <<api, edits, keys, ties>>

Restart(n) ==
    /\ edits + restarts + ties < MaxEdits /\ restarts' = restarts + 1
    /\ Replaced(n)

\* reconcileSecret puts the key into the map of a secret that has none.
SecretPanics ==
    /\ lead.at = "secret" /\ cache[leader].secret = NoData
    /\ Replaced(leader)
    /\ UNCHANGED restarts

\* The provider has answered, and one of its role paths ends the process.
MappingPanics(n, p) ==
    /\ p \in workQueue[n]
    /\ Complete(cache[n], p) /\ cache[n].maps = "panic"
    /\ Replaced(n)
    /\ UNCHANGED restarts

\* isDuplicate takes the first of the filters with the selector of the filter
\* it was given.  When the last of them goes between Get and List there is
\* none, and the panic ends the process.
FilterPanics(f) ==
    LET efs == cache[leader].efs
    IN  /\ f \in filterQueue /\ efs[f] # None
        /\ \A g \in Existing(api.efs) : api.efs[g].sel # efs[f].sel
        /\ Replaced(leader)
        /\ UNCHANGED restarts

-----------------------------------------------------------------------------

Next ==
    \/ User \/ Watch \/ Lead
    \/ \E p \in Policies : Reconcile(p) \/ RemoveFinalizer(p)
    \/ \E f \in Filters : ReconcileFilter(f) \/ FilterPanics(f)
    \/ \E n \in Nodes, p \in Policies : Work(n, p) \/ MappingPanics(n, p)
    \/ SecretPanics
    \/ \E n \in Nodes : Restart(n)

Spec == Init /\ [][Next]_vars

\* The watches and the queues of the controllers are served in turn, and a random
\* order is, now and then, the one before; the user, restarts and panics are not
\* fair.
FairSpec ==
    /\ Spec
    /\ WF_vars(WatchGateway) /\ WF_vars(WatchFilters) /\ WF_vars(Lead)
    /\ \A n \in Nodes : WF_vars(WatchPolicies(n)) /\ WF_vars(WatchSecret(n)) /\ WF_vars(WatchProvider(n))
    /\ \A p \in Policies : SF_vars(Reconcile(p) \/ RemoveFinalizer(p))
    /\ \A f \in Filters : WF_vars(ReconcileFilter(f)) /\ SF_vars(SameOrder(f))
    /\ \A n \in Nodes, p \in Policies : WF_vars(Work(n, p))

-----------------------------------------------------------------------------
(* Properties *)

\* The leader never replaces a token key of the right size, however old its
\* copy of the secret is: all cookies are signed with it.
KeyStable ==
    [][api.secret # None /\ IsKey(api.secret) => api'.secret = api.secret]_vars

\* What every node has stored for a policy.
Stored(n, p) ==
    LET o == api.ap[p]
    IN  /\ StoreName(p) \in DOMAIN store[n]
        /\ store[n][StoreName(p)] = [spec |-> o.spec, key |-> api.secret, op |-> api.op]

\* The objects that no process or controller gets anywhere with: a secret
\* without data ends the leader and a path that panics ends every process; a
\* policy that does not convert has its filter made by the leader and deleted as
\* unused by the other controller, again and again.
Sound ==
    /\ api.secret # NoData
    /\ api.maps # "panic"
    /\ \A p \in Policies : Live(api.ap[p]) => api.ap[p].ok

\* When the user leaves sound objects, every node gets the policy as it is, with
\* the key in the secret, unless the provider failed to answer: that is not
\* retried.
StoreFollows ==
    <>[](Sound => \A n \in Nodes, p \in Policies :
           /\ Live(api.ap[p])
           /\ api.secret # None /\ api.client
           /\ api.op # 0 /\ api.maps = "fine"
           => Stored(n, p) \/ p \in missed[n])

Wanted(s) == FetchAccessPolicies(1, [f \in {1} |-> [sel |-> s]], api.ap)

\* The filters with a selector, and those that no other is older than.
Have(s) == {f \in Existing(api.efs) : api.efs[f].sel = s}
Oldest(s) == {f \in Have(s) : \A g \in Have(s) : api.efs[f].time <= api.efs[g].time}

\* When the user leaves sound objects, deleted policies are gone and there is an
\* EnvoyFilter for each selector that policies have, made from these policies.
\* If there are more, the oldest is; the rest goes, and all filters of a selector
\* that no policy has, only where the controllers have the right to delete.
FiltersMatch ==
    <>[](Sound =>
         /\ \A p \in Policies : api.ap[p] # None =>
              Live(api.ap[p]) /\ (api.gw # None => api.ap[p].sel = api.gw)
         /\ \A s \in Selectors :
              /\ Wanted(s) # {} => Have(s) # {} /\ \A f \in Oldest(s) : api.efs[f].pols = Wanted(s)
              /\ api.delete => Have(s) = Oldest(s) /\ (Wanted(s) = {} => Have(s) = {}))

\* What the EnvoyFilter controller would delete.
Spare(f) ==
    LET s == api.efs[f].sel
    IN  api.efs[f] # None /\ (f \notin Oldest(s) \/ Wanted(s) = {})

\* The controllers react to their own writes, also to those that differ in order
\* only, and yet come to rest, when the user leaves sound objects.  Where they
\* may not delete EnvoyFilters they try it for ever, and nothing else.
ComesToRest ==
    <>[](Sound =>
         /\ lead = Idle /\ leadQueue = {}
         /\ \A n \in Nodes : workQueue[n] = {}
         /\ \A f \in filterQueue : ~api.delete /\ Spare(f))

\* What deleteAuth and store.Delete log, "Deleting OIDC settings" and "Deleted
\* OIDC settings": the node no longer has the settings of the policy.
DeleteAuthDeletes ==
    [][\A n \in Nodes, p \in Policies : DeleteAuth(n, p) => StoreName(p) \notin DOMAIN store'[n]]_vars

\* The objects, their copies and the requests are of these kinds; an
\* EnvoyFilter always has a selector.
TypeOK ==
    /\ api \in Objects(keys, edits)
    /\ cache \in [Nodes -> Objects(keys, edits)]
    /\ leader \in Nodes
    /\ \/ lead = Idle
       \/ lead \in [at : {"spec", "status", "secret", "filter"}, pol : Policies, ap : AccessPolicy]
    /\ leadQueue \subseteq Policies /\ filterQueue \subseteq Filters
    /\ workQueue \in [Nodes -> SUBSET Policies]
    /\ DOMAIN store = Nodes
    /\ missed \in [Nodes -> SUBSET Policies]
    /\ edits \in Nat /\ restarts \in Nat /\ ties \in Nat /\ edits + restarts + ties <= MaxEdits
    /\ keys \in Nat
=============================================================================
