# A TLA+ model of istio-oidc

istio-oidc is an external authorization service for Istio ingress gateways. It
logs users in at an OpenID provider, keeps their sessions in memory, replicates
the sessions between its replicas, and configures itself and Envoy from
Kubernetes objects. The modules here model that program as it is written in
`src/`; TLC checks them on small instances, and TLAPS proves, for every instance,
all safety invariants and action properties of these runs but two,
`HeldUpForever` and the exactness of the parser of role paths. Liveness is
checked by TLC only.

## The system

| Part | State | Operations | Works with |
|---|---|---|---|
| Session store (`state/session`) | a list of stamped sessions per issuing peer, an index by id, the last own serial, two read-write mutexes | `Set`, `Get`, `Stream` (a goroutine), the cleaner | called by the check, the replication server, the dashboard |
| Replication (`replication`: connection, client, server, self) | per node: latest serial seen of each peer, connections with `live`, `dead` and a `once` | handshake, push of a session, stream of missing sessions, `reestablish` | gRPC between replicas; `Set` and `Stream` of the store |
| Peers, worker, readiness (`replication` peers, worker, lookup; `telemetry` probes) | the peer list, one tracker per connection, a condition variable, the readiness flag | `refresh`, `track`, broadcast, `/ready` | connections of replication; a lookup by DNS |
| Authorization check (`auth`) | none of its own but cookies and state tokens that the browser carries | `Check`: authorize, start a login, finish a login, refresh a token | policy store, session store, the provider, the client of replication |
| Controllers (`controller`) | work queues, informers' caches; in Kubernetes: policies, secret, EnvoyFilters | leader, worker and EnvoyFilter reconcilers | the Kubernetes API; the policy store |
| Policy store (`state/accesspolicy`) | a dictionary under a mutex | `Get`, `Update`, `Delete`, `Stream` | worker reconciler, check, dashboard |
| Provider (`state/openidprovider`) | its configuration, role mappings | discovery, token data, role paths | check, worker reconciler |
| Rest | - | configuration, logging, metrics, dashboard, deployment | - |

What is hard in it:

- *Concurrency.* Two mutexes of the session store are given up and taken again
  within one pass of the cleaner; a streaming goroutine walks the lists with
  only one of them. Every push, stream, handshake and reconnect is a goroutine
  of its own, and `live`, `dead` and `once` are shared without locks.
- *Failure.* RPCs fail after the peer has acted; replicas restart with a new
  peer id and empty stores; a provider does not answer; a handler panics.
- *Ordering.* Sessions of one node arrive by push and by stream, twice, out of
  order, or come back to their issuer. Informers lag behind the API.
- *Waiting.* Conditions are waited for without checking them under the lock;
  a consumer that goes away leaves a goroutine with a lock.

What makes each part correct: lists in order, an index that agrees with them, no
session lost before it expires and every call returning (store); only issued
sessions, no gap between a handshake and the pushes, and in the end the same
sessions everywhere (replication); readiness once a peer is reached (worker);
roles that are current, tokens that were really granted, no endless redirects
(check); one filter per gateway, a stable token key and a store that follows the
API (controllers); requests decided as the objects say, also while Envoy and the
store are at different versions of them, and answered (policy store, filter,
role paths).

## Modules

- `SessionStore`: `state/session/store.go`. Threads for callers of `Set` and
  `Get`, streams and the cleaner; `pc` says where each is. Taking a lock that
  may block is a step, what happens under it is one step where no other thread
  can see a part of it. `RLock`, `Announce`, `Owns` are Go's `RWMutex`, in which
  a waiting writer keeps new readers out. A list holds serials; the constant
  `Content` gives the session behind a stamp. `StreamAbandon` is
  `Server.StreamSessions` returning on a failed `Send` (`server.go:87`) without
  draining the channel.
- `SessionLog`: what the store promises, two variables and three actions.
  `SessionStore` implements it (`ImplementsLog`, theorem `Refinement`), and
  `Replication` has just that store at every node.
- `Replication`: nodes with their stores, `latest`, `conns`, `live` and `spent`
  (the `once` of each connection), and goroutines in `Slots`, each a record with
  the operation it is at. One action per step between two accesses that others can
  come between: `Server.Handshake` finds or makes the connection
  (`HandshakeConnect`), later reads `live` and starts `conn.update`
  (`HandshakeAccept`), later answers (`HandshakeReply`); the context of that
  update ends with the answer (`ctx`, `Answered`, `RpcCanceled`).
- `Readiness`: peer list, worker, trackers, condition variables and the probe.
  A connection is a record: `live`, `dead`, where the `reestablish` is that has
  used up `once` (`re`), and which goroutines run besides (`runs`), which appear
  as what they do to the record and to the condition variable. An inbound update
  may be canceled on a connection that is still listed (`UpdateFails`), and
  `reestablish` then gives that connection up; a failed update may assign its
  failure to `live` late (`Laggards`). A condition variable has no memory:
  `Broadcast` wakes who is parked and nobody else. `LookupEndpoints` is the
  lookup in its three modes; what the DNS may answer is the constant `Zones`, and
  a name that is not found is an empty answer. Any other failure changes nothing
  until the next tick, and is no step of the model.
- `AuthCheck`: a browser with one user, requests in flight, the nodes' session
  and policy stores, and a provider that grants or refuses. A handler is one
  step up to its call of the provider, one from there to the stored session
  (`StoreSession`) and one from there to the answer (`SetToken`); pushes
  (`Replicate`), the cleaner and the end of the process come in between.
  `ProcessEnds` is what a restart, the panic of a callback (`messages.go:36`) and
  the panic over a missing `id_token` (`token.go:32`) have in common: sessions,
  policies and requests of that node are gone. A token is its claims and the key
  that signed it; without `expires_in` it never expires (`Never`). `ChangePolicy`
  may take a policy away, which is what the store's interface allows.
- `PolicyController`: the Kubernetes objects (`api`), each node's informers
  (`cache`), three work queues, the leader reconciler in five steps, the other
  two reconcilers in one each, and the policy stores. Where the code goes wrong
  on what a user may write, the model does: a callback that does not parse
  (`ok`), a secret without data (`SecretPanics`) or without the client's keys, a
  role path that ends the process (`MappingPanics`). `delete` says whether the
  controllers' role lets them delete EnvoyFilters, which the role in the
  repository does not (`controller/role.go:11`). `order` stands for the order of
  the patches, which each `UpdateFilter` chooses anew: a filter that differs in
  it is another object, wakes the controller and may be refused as a conflict.
- `RolePath`: the parser of role paths (`path.go`) as recursive functions over
  sequences of code points, with its errors, its panic and its escapes; the
  conversion of role mappings; the roles that claims give along a path; and
  `hasRoles`. `Readings` says independently of the parser what a path without
  escapes means.
- `PolicyStore`: `state/accesspolicy/store.go`, a dictionary under a mutex. It
  has actions and no specification of its own: who calls them is said by
  `Enforcement`, which extends it. `StreamAbandon` is the dashboard's template
  giving up.
- `Enforcement`: composes `PolicyStore` and `RolePath` with the conversion of
  policies, the patches of the EnvoyFilter (`envoyfilter.go`), Envoy's choice
  among them (`PerRoute`, external) and the decision on a request
  (`newRequest`, `authorize`). A *world* is what the user has written; `Program`
  makes the filter from it, `ReconcileAuth` the entry in the store, each at its
  own time. `made`, and `world` in the entries, are history: the world something
  was made from. The login is abstracted to the claims of the user's tokens,
  which are as fresh as the check (`AuthCheck` is about how old they may be).
- `MC...`: values for the constants.
- The theorems: `SessionStoreProofs`; `ReplicationProofs` and, on top of it,
  `ReplicationJoinProofs`; `ReadinessProofs`; `AuthCheckProofs`;
  `EnforcementProofs` and, on top of it, `DecisionProofs`;
  `PolicyControllerProofs`.

What a constant has to satisfy is said by a named `ASSUME` in the module that
declares it; TLC evaluates them in every run, and the proofs use nothing else
about the constants, with one exception that the theorems name (`PathsRead`,
below).

A definition `X_Y` with a comment "Faulty:" is a wrong version of `X`. It is
used by no specification; it shows that the property listed with it in
`PROJECT.json` notices that mistake.

## Runs

| Run | Instance | Shows |
|---|---|---|
| `store_index` | two setters, a getter, the cleaner; 2 peers, 2 serials, shared ids, expiries not in list order | order, index, expiry, reachability; the store implements `SessionLog` |
| `store_stream` | a setter, a stream whose consumer may quit, the cleaner | streams are complete, ascending, undisturbed; the wedge of an abandoned stream is permanent |
| `store_live` | all four kinds of threads, consumers that receive | calls return, expired sessions go |
| `repl_faults` | 2 nodes, 3 goroutines at a time, 2 sessions of one node, one failed RPC or one restart, a cleaner | nothing unissued, reports are of held sessions, also those under way, no gap, one reconnector |
| `repl_live` | 2 nodes, 2 sessions of one of them, 3 goroutines at a time, no faults; updates canceled and late | the newest session gets everywhere, with two exceptions (below); a session missed once is not brought by any stream, until the next login |
| `repl_giveup` | as above, 3 goroutines | *violated*: a connection is abandoned that was not dropped |
| `ready_refresh` | 3 modes, 2 endpoints that come and go and this node's own address, an inbound peer that is slow, 2 connections with 2 goroutines each | no forgotten connection; readiness, unless every connection that stays is lost in one of three ways (below) or keeps failing |
| `auth_sessions` | 2 replicas, one whose process may end at any step, one request, tokens that expire at once or never, 3 times, 2 sessions | tokens are as granted, cookies have sessions, revoked roles stop to count |
| `auth_nav` | 1 replica whose process may end, 2 requests, 2 versions of the policy, old links | navigations end, unless processes go on ending |
| `policy_sync` | 1 replica, 1 policy, 2 selectors, 8 clusters to start in, with and without the right to delete, one edit, restart or tie, up to 2 filters of a selector and 3 in all, 2 orders of patches | when the user leaves sound objects, store, filters and key come to be right, and all queues empty but for filters that may not be deleted; the token key is kept |
| `enforce` | 2 policies with one virtual host in common, 3 worlds to start in and 4 edits, 6 requests of 3 users, one page of the dashboard that may be given up, all role paths of up to 4 characters from 5 and of 5 from 4 | requests get what the objects say, no mix of two versions lets anybody in but in one case (below), the parser is exact, requests are answered unless a page was given up, and then for good |
| `policy_delete` | 2 replicas | *violated*: a deleted policy stays in the store |

Why the bounds are enough for the cases that matter. Two serials per peer make
a list with a front, a back and a middle between two steps; with two stamps
under one id they show what removal does to the index. Three goroutines let a
push, a handshake and the update it starts overlap; a fourth only repeats one of
them. Two connections are two peers, or one that is dropped and made again while
the worker or a tracker waits for the first; two goroutines of a connection
besides its `reestablish` are a handshake and an inbound update, or an update
and a late one. `MaxNow` lets tokens, sessions and grace periods end in different
orders; `MaxSessions` in `auth_sessions` is a login and one more, and in
`auth_nav` is never reached.
In `policy_sync` the starting clusters stand for the history: one misses the
secret, one the provider, one has a secret without data and no gateway, and of
the complete ones some miss the filter and some have an old filter without its
policy, with and without the right to delete; one more edit or restart then
meets every state of the caches. Two orders are enough for a filter to differ
from what it is rewritten to.
In `enforce` one edit makes the two versions that Envoy and the store can be at,
and the policies have rules of every kind: a default, none, a route that is off,
roles, headers that depend on roles, a route named twice. The characters of the
paths are one that starts a name, one that may follow, a dot, a quote and one
that is none of these.
`CHECK_DEADLOCK FALSE` is set where the bounds, or in `store_stream` the program
itself, let everything stop.

### What is violated

- `GivesUpOnlyDisconnected` (`replication/server.go:34`): the update that a
  handshake starts runs with the handler's context. When the handler returns
  first, the stream is canceled, `reestablish` takes that for a disconnect and
  leaves a connection that is in the peer list without anybody to reconnect it.
- `DeleteAuthDeletes` (`controller/accesspolicy/worker.go:99`): policies are
  stored as `namespace/name` and deleted as `name`.

### Met while modelling

These are visible in the passing runs, and the properties say them:

- A stream begins with the newest session its receiver has noted
  (`store.go:113`, `Offered`). The receiver has it, refuses it, and gives the
  whole stream up (`StreamRefused`). So a node that has noted one session of an
  issuer and misses the next is brought it by no stream, however often it
  reconnects: `HeldUpForever` says so, and a login that is pushed is the only
  way out. Missing one takes no fault: a push goes to the connections there
  are, and of two logins that overlap the later may be pushed before a handshake
  makes the connection and the earlier after it (`Overtaken`). And as a session
  that a stream has brought is not noted in `latest`, the next stream begins with
  it, too (`Streamed`). These are the two exceptions of `NewestArrives`; a push
  that overtakes another, a stream or a canceled update is none.
- A listed connection can be lost to the node's readiness (`Lost`): the broadcast
  is missed (`Missed`, `worker.go:51` and `:67`; or the connection was made by a
  peer's handshake and has no tracker); an inbound update is canceled and the
  connection given up (`GivenUp`, `server.go:34`); or a failed update assigns
  `live` after the next handshake has succeeded (`Overwritten`,
  `connection.go:100`). A stream that is refused every time keeps a connection
  down again and again (`Fails`).
- A restart, a callback link with more codes than states, or an answer of the
  provider without an `id_token` ends a process with its sessions. A cookie whose
  session no other replica has yet then leads to a new login (`lost` in
  `CookieBacked`). Between the storing and the answer it does not: no answer
  comes.
- A token made without `expires_in` never expires: roles taken from its user
  count until its session is cleaned (`RevokedInTime` allows it for these).
- Under the role in the repository, the EnvoyFilter controller cannot delete:
  unused and duplicate filters stay and are tried again for ever (`FiltersMatch`,
  `ComesToRest`).
- Patches are written in a random order, and each order is another generation:
  the controller rewrites the filter, and wakes itself, until an order comes up
  twice in a row. With a constant order it would rest at once; if the same order
  never came twice it would never (`ComesToRest` is violated without the strong
  fairness of `SameOrder`).
- A policy whose callback does not parse gets a filter from the leader, which
  counts selectors, and loses it to the EnvoyFilter controller, which counts
  policies that convert: the two create and delete it for ever. A secret without
  data ends each leader, a role path that panics each process. `Sound` excludes
  these three from what is promised of the controllers.
- While Envoy has the old version of a policy and the store the new one, a route
  that only the new version names is decided by the default of the new version:
  a user may be let in whom neither version lets in (`NoTornDecision`). While
  there is no filter yet nothing is checked.
- Where two policies name one virtual host, the default of the one and a route of
  the other may be in force, in the order of the list (`EnforcedAsDeclared`
  allows each of them). Of two routes with one name the last counts.
- An empty role path, or one that ends in a dot, ends the process
  (`path.go:15`), and so does every process that follows; requests in flight are
  refused. Escape sequences skip a character (`path.go:125`, `Escaped`).
- A page of the dashboard that is given up keeps the read lock of the policy
  store, and the next update stops all checks (`PolicyWedge`).
- A filter created within one second of another may be kept or deleted together
  with it, as the sort cannot order them (`FiltersMatch` allows the first, and
  the leader repairs the second); a list that is empty when the filter was just
  read ends the process (`FilterPanics`).
- Two logins with the same claims in the same second share a session id, and
  cleaning one hides the other (`ReachableUntilExpiry`).

## Fairness

- Store: every thread that can step does; the cleaner's ticker goes on. A
  mutex wait is a step whose enabling condition is the lock; strong fairness is
  used where Go's `RWMutex` guarantees that a waiter gets its turn. Consumers
  keep receiving in `store_live` (no `Quitters`).
- Replication: every goroutine and the worker's refresh go on; faults, restarts
  and logins are not fair. A session that is offered again and again is stored
  at last (strong fairness of `StreamStore`): a stream sends the sessions in
  order, and the ones before it are finitely many.
- Readiness: the worker, trackers and connections go on; failed pushes and
  inbound handshakes are not fair. Lookups succeed at last: a failing one is no
  step, and the worker's steps are weakly fair.
- Check: handlers answer, the provider answers, the browser follows redirects
  (strong fairness of `Browse`: a free handler may be taken by another request
  first).
  Replication is not fair, so `NavigationEnds` is stated for one replica.
- Controllers: informers catch up, queues are served. `Reconcile` needs strong
  fairness, as the leader reconciler takes one request at a time from a queue.
  A random order of patches is at some time the one before: strong fairness of
  `SameOrder`. The user, restarts and panics are not fair, and ties are bounded
  with them (`MaxEdits`): the order of a list is random, and with unbounded ties
  two filters could delete each other for ever, with probability 0.
- Enforcement: an update that has been called, the goroutine of a stream and its
  page, and the handler of a request go on. A handler waits for the lock, which
  Go's `RWMutex` gives to waiting readers after every writer: strong fairness of
  `Check`. Nothing makes the user edit, the controllers run or a page stay.

## Proofs

Each module below has an inductive invariant `Inv`, a lemma or a step for every
action that says how the action keeps it, and theorems that follow from it.
TLC checked the invariants on the runs before they were proved.

### Session store

For any number of peers, serials, sessions, threads and requests:

- `TypeCorrect`, `ListsOrdered`, `IndexBacked`, `StreamsUndisturbed`: the
  invariants `TypeOK`, `StoreOrdered`, `LookupBacked`, `StreamUndisturbed`;
- `GotSound`, which no run lists: what `Get` has returned is listed until it has
  been expired for the grace period (`GotListedOrExpired`), a consequence of
  `LookupBacked` and `OnlyExpiredRemoved` over the time the copy is used;
- `LocalSetsAccepted`, `RemovalsExpired`, `WedgeIsPermanent`: action properties;
- `Refinement`: every step of the store is a step of `SessionLog` or none;
- `StreamsComplete`, `StreamsAscend`, `StaysReachable`: `StreamComplete`,
  `StreamAscending` and `ReachableUntilExpiry`.

`LockInv` ties each lock to the places of the threads, so that the cleaner is
alone when it deletes and no stream walks then. `CursorInv` says that the cursor
of the cleaner still points at the expired session it found although `mu` was
given up in between: only `Set` runs then, and appends. `OwnInv` bounds copies of
own sessions by `curr`, in the list and in calls under way; without it a fresh
serial could be refused. `SnapInv` is `StreamUndisturbed` from the moment a
stream is opened. `StoreOrdered` is needed for the index, since it makes stamps
in a list unique: removing one element removes exactly one stamp
(`HeldAfterDelete`).

That a stream is complete needs to know where it is. `WalkInv` says of a stream
that it is in a list it will not visit again, that it has sent nothing of the
lists yet to be visited and of its own list only what is up to its position, and
that everything it was asked for is sent or still ahead. `ListsGrow` makes this
survive `Set`: while a stream walks, nothing moves within a list.

### Replication

For any nodes, goroutines, sessions, failed RPCs and restarts:

- `TypeCorrect`, `NothingInvented` (`OnlyIssued`), `ReportsTrue` (`ReportHeld`).
  The invariant says the same of what is under way: a session that a goroutine
  carries, in a push, a stream or a login, was issued, and a report that a
  goroutine carries is of sessions its sender has had.
- `NothingBetween` (`JoinGapFree`). `JoinInv` adds that a process has noted each
  session it issued unless the goroutine that is about to still runs (`Unnoted`),
  that logins and pushes die with their process, and that who has accepted a
  handshake has a connection back before it answers (`ConnectsBack`): so a
  session is in the answer, or there is a connection that it will be pushed to.
- `OnceIsExclusive` (`OneReestablisher`): whoever waits to reconnect has used up
  the `once`.
- `StoresAreLogs`: while a process runs, every step changes its store as
  `SessionLog` allows. `SessionStoreProofs!Refinement` says that the session
  store implements `SessionLog`; `Replication` has no more of it than that.

### Readiness

For any endpoints, modes, zones, connections and goroutines: `TypeCorrect`,
`NeverOrphaned` (`NoOrphan`), `NeverWaitsForDropped` (`WaitsForCurrent`). The
invariant has the peer list and the connections agree both ways: what is listed
under an endpoint is a connection to it, and a connection is dead exactly when
the list does not have it. The worker's connection is a listed one from when it
is made to when a tracker has it.

### Authorization check

For any nodes, requests, policies, roles and lifetimes:

- `TypeCorrect`, `ClaimsGranted` (`TokensGranted`), `RolesRevokedInTime`
  (`RevokedInTime`). The invariant says of every token, in the cookie, in a
  session or in the hands of a handler, that its roles were granted at its time
  of issue, which its expiry gives.
- `CookiesBacked` (`CookieBacked`), whichever processes end and whenever. The
  invariant says of a handler between storing and answering that the session of
  the token it is about to hand out is found on its node, or that the cleaner may
  have removed it by then (`StoredThere`, `Backs`); a process that
  ends takes its handlers with it. What the cleaner removes from the index is an
  expired session's token, which two sessions can share only if they say the
  same: hence `MayBeCleaned` is about a token and not about a session.

### Policy store, filter and decision

For any policies, worlds, requests and pages: `TypeCorrect` (`TypeOK`) and
`WedgeIsPermanent` (`PolicyWedge`). The invariant has the lock of the policy
store held exactly by the streams that send: so the dictionary changes only when
no stream has anything left to send, and an update that waits for an abandoned
stream waits for ever.

`Enforced` (`EnforcedAsDeclared`) and `NeverTorn` (`NoTornDecision`) rest on
`DecisionInv`: every entry of the store, and of an update under way, was made
from some world; Envoy has the filter of the world `made`, in some order of its
policies; what a request was told follows from the filter there was. The core
is that `PerRoute` finds, in a filter of any number of policies in any order, an
entry that one of the policies for the virtual host declares, and that the
roles the store's mappings find are the ones the user holds by the mappings as
written. The latter is the hypothesis `PathsRead`: the parser reads each path in
the objects as it is meant. It stays a hypothesis because what the parser does
with a path is an induction over the path. For the objects of `enforce` it is
what `ParseExact` says there: each of their paths is in a world that some edit
leads to, and none has an escape sequence. Without it the theorems are false, as
an escape sequence in a path is misread.

### Controllers

For any replicas, policies, filters, edits and restarts: `TypeCorrect` (`TypeOK`)
and `KeyNeverReplaced` (`KeyStable`). A leader decides by a cache that may be
old, so the invariant speaks of the caches: whatever a cache shows of a key of
the right size is what the secret has (`CachesAgree`). The same of the policy
stores (`StoresAgree`) gives `NodesShareKey`, which no run lists: no two replicas
check cookies with different keys. `TypeCorrect` includes that no filter is
ever made without a selector, which is the leader's check of `sel` two steps
before.

### Only model-checked

- All liveness properties, since the provers have no `ENABLED` and so cannot use
  fairness: `OperationsReturn`, `ExpiredCleaned`, `NewestArrives`,
  `ReadyUnlessMissed`, `NavigationEnds`, `StoreFollows`, `FiltersMatch`,
  `ComesToRest`, `RequestsAnswered`.
- `ParseExact`, for the reason given, and `HeldUpForever`, which needs to know of
  every stream under way what it has sent.
- The two violated properties: a counterexample needs no proof.

## Not modelled

- Signatures and encodings: a token verifies exactly with the key that made it.
- Counters, tracing, logging, configuration, the dashboard's output, the
  manifests: input read once, or output only. The Unicode tables behind role
  paths, and the names of clusters and authorities.
- How Istio and Envoy merge patches is taken from how `envoyfilter.go` uses it: in order,
  the last for a virtual host or a route replacing the ones before.
- In the controllers: recorded events; errors of the API other than conflicts,
  missing objects and missing rights to delete; an old leader whose last request
  comes late. In `PolicyController` an order of patches is one of a set;
  `Enforcement` says what the order does.
  A cache jumps to the newest version; versions in between are seen when the
  cache is updated in between.
- `auth_nav` has one replica: a browser that reaches another one before its
  session does is sent through another login, as often as that happens. A refresh
  token without `exp`, whose session counts as expired at once, is not modelled.
- `policy_sync` has one replica. A worker on another replica runs the same code
  over caches of its own; with two replicas the state space is beyond a
  liveness check.
- Unsynchronised fields: a read or write of `live`, `dead` or `once` is one step
  with the old or the new value; a torn `sync.Once` is not modelled.
- Random peer ids and session ids do not collide, apart from equal sessions.

## Plan

Done: session store and its contract, replication over that contract, readiness
with the lookup, the check, the controllers, role paths, the policy store and
the way from the objects to the decision on a request; the proofs of all safety
invariants and action properties but `ParseExact` and `HeldUpForever`. Next:

1. `ParseExact`, by a least counterexample: `LeastNatural` gives induction over
   naturals for a predicate that is written out, here the position in a path at
   which the parser and `Readings` first differ. Then `PathsRead` follows for
   paths without escape sequences.
2. `HeldUpForever`, from what `StreamsComplete` says of a stream's order.
3. Two policies with one gateway, and a worker on a second replica, in
   `PolicyController`, with a smaller model of the leader; the theorems do not
   depend on the number of either.
