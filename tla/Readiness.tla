----------------------------- MODULE Readiness -----------------------------
(***************************************************************************)
(* How a node becomes ready: the replication worker refreshes the peer      *)
(* list, waits for the first news of every connection it makes and leaves a *)
(* goroutine to track it; the first tracker that sees its connection live   *)
(* closes the channel the readiness probe waits for.                        *)
(*                                                                          *)
(* The goroutines of a connection appear here as what they do to live, to   *)
(* once and to the condition variable; Replication has what they exchange.  *)
(* Neither the reads of live and dead nor the broadcasts are synchronised   *)
(* with the condition variable.                                             *)
(***************************************************************************)
EXTENDS Integers, FiniteSets

CONSTANTS
    Endpoints,  \* the addresses of possible peers
    Self,       \* the address this node advertises
    Modes,      \* the replication modes it may be configured with
    StaticPeers, \* config.Replication.StaticPeers
    Zones,      \* the addresses the DNS may give for the peers' service
    MaxConns,   \* bound on the connections made
    MaxRuns,    \* bound on the goroutines of a connection (one of a kind)
    Inbound,    \* the peers that may handshake with this node
    Laggards    \* the peers for which update may be slow to assign live

Conns == 1..MaxConns
Addresses == Endpoints \cup {Self}
Nil == 0

ASSUME ReadinessAssumption ==
    /\ Self \notin Endpoints /\ Nil \notin Addresses
    /\ Modes \subseteq {"static", "dns", "none"}
    /\ StaticPeers \subseteq Addresses
    /\ Zones \subseteq SUBSET Addresses
    /\ Inbound \cup Laggards \subseteq Endpoints
    /\ MaxConns \in Nat /\ MaxRuns \in Nat

VARIABLES
    mode,    \* config.Replication.Mode
    conns,   \* Peers.conns
    conn,    \* the connections: endpoint, live, dead, where the reestablish is that
             \* has used up once (re), and what else runs (runs)
    track,   \* where the tracker of each connection is
    worker,  \* where the worker is, with which connection and endpoints to go
    init,    \* whether the channel is closed
    ready    \* ready.ready

vars == <<mode, conns, conn, track, worker, init, ready>>

Conn(e, runs) == [ep |-> e, live |-> FALSE, dead |-> FALSE, re |-> "none", runs |-> runs]
NoConn == Conn(Nil, {})

Init ==
    /\ mode \in Modes
    /\ conns = [e \in Addresses |-> Nil]
    /\ conn = [c \in Conns |-> NoConn]
    /\ track = [c \in Conns |-> "none"]
    /\ worker = [at |-> "tick", conn |-> Nil, todo |-> {}]
    /\ init = FALSE
    /\ ready = FALSE

-----------------------------------------------------------------------------
(* A connection *)

\* getConnection when there is none: newConnection, which starts a handshake.
Make(e, c) ==
    /\ conns[e] = Nil
    /\ conn[c] = NoConn /\ \A d \in 1..(c - 1) : conn[d] # NoConn
    /\ conns' = [conns EXCEPT ![e] = c]
    /\ conn' = [conn EXCEPT ![c] = Conn(e, {"shake"})]

\* Connections that can still be made, and those the worker is about to make of
\* the endpoints eps (for the bound MaxConns only).
Spare == {c \in Conns : conn[c] = NoConn}
Missing(eps) == {e \in eps : conns[e] = Nil}

\* cond.Wait.  Who begins to wait for news of a live connection when they have
\* been broadcast has overslept.
Waiting == {"parked", "overslept"}
Park(c) == IF conn[c].live /\ "tell" \notin conn[c].runs THEN "overslept" ELSE "parked"

\* cond.Broadcast reaches whoever is waiting at that moment.
Broadcast(c) ==
    /\ track' = [track EXCEPT ![c] = IF @ \in Waiting THEN "check" ELSE @]
    /\ worker' = IF worker.at \in Waiting /\ worker.conn = c
                 THEN [worker EXCEPT !.at = "woken"] ELSE worker

\* Goroutine k of connection c goes on as those of K, and the connection as r.
GoesOn(c, k, K, r) ==
    LET others == conn[c].runs \ {k}
    IN /\ k \in conn[c].runs
       /\ others \cap K = {} /\ Cardinality(others \cup K) <= MaxRuns
       /\ conn' = [conn EXCEPT ![c] = [r EXCEPT !.runs = others \cup K]]
       /\ UNCHANGED <<mode, conns, track, worker, init, ready>>

\* What reestablish makes of a connection at first: a canceled RPC uses up the
\* once for good.  Its goroutine changes nothing when once is used up.
Reestablish(r, canceled) ==
    IF r.re # "none" THEN r
    ELSE [r EXCEPT !.live = FALSE, !.re = IF canceled THEN "over" ELSE "down"]

\* On a closed connection every RPC is canceled.
HandshakeOk(c) == ~conn[c].dead /\ GoesOn(c, "shake", {"update"}, conn[c])
HandshakeFails(c) == GoesOn(c, "shake", {}, Reestablish(conn[c], conn[c].dead))

\* Faulty: update only broadcasts failures.
Updated_Silent(c, k) == GoesOn(c, k, {}, [conn[c] EXCEPT !.live = TRUE])

\* update, k = "update" after an own handshake and "inbound" for a peer's, whose
\* stream is also canceled when that handshake has been answered.
Updated(c, k) == GoesOn(c, k, {"tell"}, [conn[c] EXCEPT !.live = TRUE])
UpdateFails(c, k) ==
    \E canceled \in {conn[c].dead, FALSE, k = "inbound"} :
        GoesOn(c, k, {IF conn[c].ep \in Laggards THEN "late" ELSE "tell"},
               Reestablish(conn[c], canceled))

\* update assigns the failure to live, when reestablish is under way.
UpdateFailed(c) == GoesOn(c, "late", {"tell"}, [conn[c] EXCEPT !.live = FALSE])

\* A push fails.  (It is when nothing else goes on that this makes a difference.)
PushFails(c) ==
    /\ conn[c] # NoConn /\ conn[c].runs = {}
    /\ conn' = [conn EXCEPT ![c] = Reestablish(@, @.dead)]
    /\ UNCHANGED <<mode, conns, track, worker, init, ready>>

Tell(c) ==
    /\ "tell" \in conn[c].runs
    /\ conn' = [conn EXCEPT ![c].runs = @ \ {"tell"}]
    /\ Broadcast(c)
    /\ UNCHANGED <<mode, conns, init, ready>>

\* reestablish broadcasts, and then waits for the transport or gives up.
ReestablishTell(c) ==
    /\ conn[c].re \in {"down", "over"}
    /\ conn' = [conn EXCEPT ![c].re = IF @ = "over" THEN "gone" ELSE "wait"]
    /\ Broadcast(c)
    /\ UNCHANGED <<mode, conns, init, ready>>

Recover(c) ==
    /\ conn[c].re = "wait"
    /\ "shake" \notin conn[c].runs /\ Cardinality(conn[c].runs) < MaxRuns
    /\ conn' = [conn EXCEPT ![c].re = "none", ![c].runs = @ \cup {"shake"}]
    /\ UNCHANGED <<mode, conns, track, worker, init, ready>>

\* Server.Handshake: a connection the node does not have is made; then a live
\* one is updated, with the context of the handshake.
InboundNew(e, c) ==
    /\ Cardinality(Missing(worker.todo \ {e})) < Cardinality(Spare)
    /\ Make(e, c)
    /\ UNCHANGED <<mode, track, worker, init, ready>>

InboundUpdate(c) ==
    /\ conn[c].ep \in Inbound /\ conn[c].live
    /\ "inbound" \notin conn[c].runs /\ Cardinality(conn[c].runs) < MaxRuns
    /\ conn' = [conn EXCEPT ![c].runs = @ \cup {"inbound"}]
    /\ UNCHANGED <<mode, conns, track, worker, init, ready>>

-----------------------------------------------------------------------------
(* The worker *)

\* Faulty: a node is a peer of itself.
LookupEndpoints_WithSelf ==
    CASE mode = "static" -> {StaticPeers}
      [] mode = "dns" -> Zones \cup {{}}
      [] mode = "none" -> {{}}

\* lookupEndpoints, when it succeeds: the peers in the configuration, or the
\* addresses behind the SRV records, or nobody if there are no such records.
LookupEndpoints ==
    CASE mode = "static" -> {StaticPeers \ {Self}}
      [] mode = "dns" -> {z \ {Self} : z \in Zones} \cup {{}}
      [] mode = "none" -> {{}}

\* Faulty: endpoints are dropped from the peer list and not disconnected.
Refresh_NoDisconnect(eps) ==
    /\ worker.at = "tick"
    /\ worker' = [worker EXCEPT !.at = "list", !.todo = eps]
    /\ conns' = [e \in Addresses |-> IF e \in eps THEN conns[e] ELSE Nil]
    /\ init' = (init \/ eps = {})
    /\ UNCHANGED <<mode, conn, track, ready>>

\* Faulty: the worker does not wait for the last refresh to be done.
Refresh_Overlaps(eps) ==
    /\ Cardinality(Missing(eps)) <= Cardinality(Spare)
    /\ worker' = IF worker.at = "tick" THEN [worker EXCEPT !.at = "list", !.todo = eps] ELSE worker
    /\ conns' = [e \in Addresses |-> IF e \in eps THEN conns[e] ELSE Nil]
    /\ conn' = [c \in Conns |->
         IF \E e \in Endpoints \ eps : conns[e] = c THEN [conn[c] EXCEPT !.dead = TRUE] ELSE conn[c]]
    /\ init' = (init \/ eps = {})
    /\ UNCHANGED <<mode, track, ready>>

\* Peers.refresh disconnects from everyone the lookup no longer returns; a
\* node that finds nobody is ready.
Refresh(eps) ==
    /\ worker.at = "tick" /\ Cardinality(Missing(eps)) <= Cardinality(Spare)
    /\ worker' = [worker EXCEPT !.at = "list", !.todo = eps]
    /\ conns' = [e \in Addresses |-> IF e \in eps THEN conns[e] ELSE Nil]
    /\ conn' = [c \in Conns |->
         IF \E e \in Endpoints \ eps : conns[e] = c THEN [conn[c] EXCEPT !.dead = TRUE] ELSE conn[c]]
    /\ init' = (init \/ eps = {})
    /\ UNCHANGED <<mode, track, ready>>

GetExisting(e) ==
    /\ worker.at = "list" /\ e \in worker.todo
    /\ conns[e] # Nil
    /\ worker' = [worker EXCEPT !.todo = @ \ {e}]
    /\ UNCHANGED <<mode, conns, conn, track, init, ready>>

GetNew(e, c) ==
    /\ worker.at = "list" /\ e \in worker.todo
    /\ Make(e, c)
    /\ worker' = [at |-> "made", conn |-> c, todo |-> worker.todo \ {e}]
    /\ UNCHANGED <<mode, track, init, ready>>

WorkerPark ==
    /\ worker.at = "made"
    /\ worker' = [worker EXCEPT !.at = Park(worker.conn)]
    /\ UNCHANGED <<mode, conns, conn, track, init, ready>>

StartTrack ==
    /\ worker.at = "woken"
    /\ track' = [track EXCEPT ![worker.conn] = "check"]
    /\ worker' = [worker EXCEPT !.at = "list", !.conn = Nil]
    /\ UNCHANGED <<mode, conns, conn, init, ready>>

RefreshDone ==
    /\ worker.at = "list" /\ worker.todo = {}
    /\ worker' = [worker EXCEPT !.at = "tick"]
    /\ UNCHANGED <<mode, conns, conn, track, init, ready>>

-----------------------------------------------------------------------------
(* track, and the readiness probe *)

TrackCheck(c) ==
    /\ track[c] = "check"
    /\ \/ /\ conn[c].live
          /\ track' = [track EXCEPT ![c] = "done"]
          /\ init' = TRUE
       \/ /\ ~conn[c].live
          /\ track' = [track EXCEPT ![c] = IF conn[c].dead THEN "done" ELSE "waits"]
          /\ UNCHANGED init
    /\ UNCHANGED <<mode, conns, conn, worker, ready>>

TrackPark(c) ==
    /\ track[c] = "waits"
    /\ track' = [track EXCEPT ![c] = Park(c)]
    /\ UNCHANGED <<mode, conns, conn, worker, init, ready>>

Ready ==
    /\ init /\ ~ready
    /\ ready' = TRUE
    /\ UNCHANGED <<mode, conns, conn, track, worker, init>>

-----------------------------------------------------------------------------
ConnStep(c) ==
    \/ HandshakeOk(c) \/ HandshakeFails(c)
    \/ (\E k \in {"update", "inbound"} : Updated(c, k) \/ UpdateFails(c, k))
    \/ UpdateFailed(c) \/ Tell(c)
    \/ ReestablishTell(c) \/ Recover(c)
TrackStep(c) == TrackCheck(c) \/ TrackPark(c)
WorkerStep ==
    \/ \E eps \in LookupEndpoints : Refresh(eps)
    \/ \E e \in Endpoints : GetExisting(e) \/ \E c \in Conns : GetNew(e, c)
    \/ WorkerPark \/ StartTrack \/ RefreshDone
InboundStep == \E c \in Conns : InboundUpdate(c) \/ \E e \in Inbound : InboundNew(e, c)

Next ==
    \/ \E c \in Conns : ConnStep(c) \/ PushFails(c) \/ TrackStep(c)
    \/ WorkerStep
    \/ Ready
    \/ InboundStep

Spec == Init /\ [][Next]_vars

\* Goroutines that can run do run, the ticker ticks, and a handshake that does
\* not fail is answered.  Nothing makes a peer handshake with this node.
Fairness ==
    /\ \A c \in Conns : WF_vars(ConnStep(c)) /\ WF_vars(TrackStep(c))
    /\ WF_vars(WorkerStep)
    /\ WF_vars(Ready)
FairSpec == Spec /\ Fairness

-----------------------------------------------------------------------------
(* Properties *)

Runs == {"shake", "update", "inbound", "late", "tell"}
Stages == {"none", "down", "over", "wait", "gone"}

\* The shape of the worker's, the trackers' and the connections' state; this
\* node is not among its peers, which would end it with a peer id conflict.
TypeOK ==
    /\ mode \in Modes
    /\ conns \in [Addresses -> Conns \cup {Nil}]
    /\ conn \in [Conns -> [ep : Endpoints \cup {Nil}, live : BOOLEAN, dead : BOOLEAN,
                         re : Stages, runs : SUBSET Runs]]
    /\ track \in [Conns -> {"none", "check", "waits", "done"} \cup Waiting]
    /\ worker \in [at : {"tick", "list", "made", "woken"} \cup Waiting,
                   conn : Conns \cup {Nil}, todo : SUBSET Endpoints]
    /\ init \in BOOLEAN /\ ready \in BOOLEAN

\* Every connection that was not disconnected is the one its endpoint has in
\* the peer list, and no disconnected one is: there are never two connections
\* to a peer, and none is forgotten while it still reconnects.
NoOrphan ==
    \A c \in Conns : conn[c] # NoConn => (conn[c].dead <=> conns[conn[c].ep] # c)

\* A connection the worker waits for is not disconnected meanwhile.
WaitsForCurrent ==
    worker.conn # Nil => conns[conn[worker.conn].ep] = worker.conn

\* A connection of the peer list is lost to the node's readiness when it is live
\* and the broadcast of that has come before its tracker or the worker began to
\* wait, or it was made by a peer's handshake and has no tracker (Missed); when
\* reestablish took a canceled update for a disconnect (GivenUp); or when update
\* assigned a failure to live after the next handshake had succeeded
\* (Overwritten).
Listed(c) == conn[c] # NoConn /\ ~conn[c].dead
Missed(c) ==
    /\ conn[c].live
    /\ \/ track[c] = "overslept"
       \/ worker.at = "overslept" /\ worker.conn = c
       \/ track[c] = "none" /\ worker.conn # c
GivenUp(c) == conn[c].re = "gone"
Overwritten(c) ==
    ~conn[c].live /\ conn[c].re = "none" /\ conn[c].runs \cap {"shake", "update"} = {}
Lost(c) == Listed(c) /\ (Missed(c) \/ GivenUp(c) \/ Overwritten(c))

\* A node becomes ready, unless every connection that stays in its peer list is
\* lost in one of these ways, or fails again and again.
Fails(c) == conn[c].re = "down"
ReadyUnlessMissed ==
    \/ <>ready
    \/ /\ \E c \in Conns : <>[]Listed(c)
       /\ \A c \in Conns : <>[]~Listed(c) \/ <>[]Lost(c) \/ []<>Fails(c)
=============================================================================
