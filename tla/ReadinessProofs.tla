-------------------------- MODULE ReadinessProofs --------------------------
(***************************************************************************)
(* Proofs about Readiness for every set of endpoints, every zone, mode and  *)
(* list of static peers and every bound: the types, with this node never a  *)
(* peer of itself, one connection to a peer that none forgets, and a worker *)
(* that waits for a connection of the peer list only.                       *)
(***************************************************************************)
EXTENDS Readiness, TLAPS

\* The records TypeOK is about.
ConnRecords == [ep : Endpoints \cup {Nil}, live : BOOLEAN, dead : BOOLEAN,
                re : Stages, runs : SUBSET Runs]
WorkerRecords == [at : {"tick", "list", "made", "woken"} \cup Waiting,
                  conn : Conns \cup {Nil}, todo : SUBSET Endpoints]
Places == {"none", "check", "waits", "done"} \cup Waiting

\* A connection that was made has an endpoint, and one that was not is untouched.
Made == \A c \in Conns : conn[c].ep = Nil => conn[c] = NoConn

\* The peer list holds, under an endpoint, a connection that was made to it,
\* and nothing for this node.
PeerList ==
    /\ conns[Self] = Nil
    /\ \A e \in Endpoints : conns[e] # Nil => /\ conn[conns[e]].ep # Nil
                                              /\ conn[conns[e]].ep = e

\* NoOrphan, in terms of what a connection does.
Kept ==
    \A c \in Conns : conn[c].ep # Nil => (conn[c].dead <=> conns[conn[c].ep] # c)

\* The worker has a connection at hand from when it has made it to when it
\* leaves it to its tracker, and it is one of the peer list.
Waits ==
    /\ worker.at \in {"tick", "list"} => worker.conn = Nil
    /\ worker.conn # Nil => /\ conn[worker.conn].ep # Nil
                            /\ conns[conn[worker.conn].ep] = worker.conn
    /\ worker.conn = Nil => worker.at \in {"tick", "list"}

Inv == TypeOK /\ Made /\ PeerList /\ Kept /\ Waits

-----------------------------------------------------------------------------
(* The lookup, and what makes a connection or changes one *)

\* What a lookup returns are endpoints: this node is left out.
LEMMA LookupFindsOthers ==
  ASSUME TypeOK, NEW eps \in LookupEndpoints
  PROVE  eps \subseteq Endpoints
  <1>1. mode \in {"static", "dns", "none"}
    BY ReadinessAssumption DEF TypeOK
  <1>2. CASE mode = "static"
    BY <1>2, ReadinessAssumption DEF LookupEndpoints, Addresses
  <1>3. CASE mode = "dns"
    BY <1>3, ReadinessAssumption DEF LookupEndpoints, Addresses
  <1>4. CASE mode = "none"
    BY <1>4 DEF LookupEndpoints
  <1> QED
    BY <1>1, <1>2, <1>3, <1>4

\* A connection is made where the peer list has none, and a number that was
\* not used becomes it: the ones that were made before stay as they were.
LEMMA MakeInv ==
  ASSUME Inv, NEW e \in Endpoints, NEW c \in Conns, Make(e, c)
  PROVE  /\ conns' \in [Addresses -> Conns \cup {Nil}]
         /\ conn' \in [Conns -> ConnRecords]
         /\ Made' /\ PeerList' /\ Kept'
         /\ conn'[c].ep # Nil /\ conn'[c].ep = e /\ conns'[e] = c
         /\ \A d \in Conns : /\ conn[d].ep # Nil => conn'[d] = conn[d]
                             /\ conn[d].ep # Nil /\ conns[conn[d].ep] = d
                                  => conns'[conn[d].ep] = d
  <1>1. /\ conns[e] = Nil /\ conn[c] = NoConn
        /\ conns' = [conns EXCEPT ![e] = c]
        /\ conn' = [conn EXCEPT ![c] = Conn(e, {"shake"})]
    BY DEF Make
  <1>2. /\ conns \in [Addresses -> Conns \cup {Nil}]
        /\ conn \in [Conns -> ConnRecords]
        /\ e \in Addresses /\ e # Self /\ c # Nil
    BY ReadinessAssumption DEF Inv, TypeOK, ConnRecords, Addresses, Conns, Nil
  <1>3. /\ conns' \in [Addresses -> Conns \cup {Nil}]
        /\ conn' \in [Conns -> ConnRecords]
    BY <1>1, <1>2, ReadinessAssumption DEF ConnRecords, Conn, Stages, Runs
  <1>4. /\ conn'[c].ep = e /\ e # Nil /\ conns'[e] = c /\ ~conn'[c].dead
        /\ \A d \in Conns \ {c} : conn'[d] = conn[d]
        /\ \A a \in Addresses \ {e} : conns'[a] = conns[a]
        /\ conn[c].ep = Nil
    BY <1>1, <1>2, ReadinessAssumption DEF NoConn, Conn, Addresses
  <1>5. \A a \in Endpoints : conns[a] # c
    BY <1>2, <1>4 DEF Inv, PeerList, Addresses, Conns, Nil
  <1>6. Made'
    BY <1>4 DEF Inv, Made
  <1>7. PeerList'
    <2>1. conns'[Self] = Nil
      BY <1>2, <1>4 DEF Inv, PeerList, Addresses
    <2>2. ASSUME NEW a \in Endpoints, conns'[a] # Nil
          PROVE  conn'[conns'[a]].ep # Nil /\ conn'[conns'[a]].ep = a
      BY <2>2, <1>2, <1>3, <1>4, <1>5 DEF Inv, PeerList, Addresses
    <2> QED
      BY <2>1, <2>2 DEF PeerList
  <1>8. Kept'
    <2> SUFFICES ASSUME NEW d \in Conns, conn'[d].ep # Nil
                 PROVE  conn'[d].dead <=> conns'[conn'[d].ep] # d
      BY DEF Kept
    <2>1. CASE d = c
      BY <2>1, <1>4
    <2>2. CASE d # c
      <3>1. conn'[d] = conn[d] /\ conn[d].ep \in Endpoints
        BY <2>2, <1>2, <1>4 DEF ConnRecords
      <3>2. CASE conn[d].ep = e
        BY <3>1, <3>2, <2>2, <1>1, <1>2, <1>4 DEF Inv, Kept, Conns, Nil
      <3>3. CASE conn[d].ep # e
        BY <3>1, <3>3, <1>4 DEF Inv, Kept, Addresses
      <3> QED
        BY <3>2, <3>3
    <2> QED
      BY <2>1, <2>2
  <1>9. ASSUME NEW d \in Conns, conn[d].ep # Nil
        PROVE  conn'[d] = conn[d] /\ (conns[conn[d].ep] = d => conns'[conn[d].ep] = d)
    <2>1. d # c /\ conn'[d] = conn[d] /\ conn[d].ep \in Endpoints
      BY <1>9, <1>2, <1>4 DEF ConnRecords
    <2>2. conns[conn[d].ep] = d => conn[d].ep # e
      BY <1>1 DEF Conns, Nil
    <2> QED
      BY <2>1, <2>2, <1>4 DEF Addresses
  <1> QED
    BY <1>3, <1>4, <1>6, <1>7, <1>8, <1>9

\* A step of a connection that was made, which leaves its endpoint, whether it
\* was disconnected and the peer list alone, keeps the invariant.
LEMMA ConnInv ==
  ASSUME Inv, NEW c \in Conns, conn[c].ep # Nil,
         conn' \in [Conns -> ConnRecords],
         conn'[c].ep # Nil, conn'[c].ep = conn[c].ep, conn'[c].dead = conn[c].dead,
         \A d \in Conns \ {c} : conn'[d] = conn[d],
         conns' = conns,
         worker' \in WorkerRecords, worker'.conn = worker.conn,
         worker'.at \in {"tick", "list"} <=> worker.at \in {"tick", "list"},
         mode' = mode, init' = init, ready' = ready,
         track' \in [Conns -> Places]
  PROVE  Inv'
  <1>1. /\ conn \in [Conns -> ConnRecords]
        /\ worker \in WorkerRecords
    BY DEF Inv, TypeOK, ConnRecords, WorkerRecords
  <1>2. TypeOK'
    BY <1>1 DEF Inv, TypeOK, ConnRecords, WorkerRecords, Places
  <1>3. Made'
    BY DEF Inv, Made
  <1>4. PeerList'
    <2> SUFFICES ASSUME NEW e \in Endpoints, conns[e] # Nil
                 PROVE  conn'[conns[e]].ep # Nil /\ conn'[conns[e]].ep = e
      BY DEF Inv, PeerList
    <2>1. conns[e] \in Conns
      BY DEF Inv, TypeOK, Addresses
    <2> QED
      BY <2>1 DEF Inv, PeerList
  <1>5. Kept'
    BY DEF Inv, Kept
  <1>6. Waits'
    <2>1. ASSUME worker.conn # Nil
          PROVE  conn'[worker.conn].ep # Nil /\ conns[conn'[worker.conn].ep] = worker.conn
      BY <2>1, <1>1 DEF Inv, Waits, WorkerRecords
    <2> QED
      BY <2>1 DEF Inv, Waits
  <1> QED
    BY <1>2, <1>3, <1>4, <1>5, <1>6 DEF Inv

\* A step that leaves the connections and the peer list alone, and the worker
\* with the connection it has at hand.
LEMMA StillInv ==
  ASSUME Inv, conn' = conn, conns' = conns, mode' = mode,
         init' \in BOOLEAN, ready' \in BOOLEAN,
         track' \in [Conns -> Places],
         worker' \in WorkerRecords,
         \/ worker'.conn = worker.conn
            /\ (worker'.at \in {"tick", "list"} <=> worker.at \in {"tick", "list"})
         \/ worker'.conn = Nil /\ worker'.at = "list"
  PROVE  Inv'
  <1>1. TypeOK'
    BY DEF Inv, TypeOK, ConnRecords, WorkerRecords, Places
  <1>2. Made' /\ PeerList' /\ Kept'
    BY DEF Inv, Made, PeerList, Kept
  <1>3. Waits'
    BY DEF Inv, Waits
  <1> QED
    BY <1>1, <1>2, <1>3 DEF Inv

-----------------------------------------------------------------------------
(* The peer list is refreshed *)

\* Who is disconnected by a refresh is dropped from the peer list by the same
\* refresh, and nobody else is.  The worker has no connection at hand then.
LEMMA RefreshInv ==
  ASSUME Inv, NEW eps \in SUBSET Endpoints, Refresh(eps)
  PROVE  Inv'
  <1>1. /\ conns \in [Addresses -> Conns \cup {Nil}]
        /\ conn \in [Conns -> ConnRecords]
        /\ worker \in WorkerRecords
        /\ Self \notin eps /\ Self \notin Endpoints
    BY ReadinessAssumption DEF Inv, TypeOK, ConnRecords, WorkerRecords, Places
  <1>2. /\ conns' = [e \in Addresses |-> IF e \in eps THEN conns[e] ELSE Nil]
        /\ \A c \in Conns :
              /\ conn'[c].ep = conn[c].ep
              /\ conn'[c].dead <=> conn[c].dead \/ (\E e \in Endpoints \ eps : conns[e] = c)
              /\ conn[c] = NoConn /\ (\A e \in Endpoints : conns[e] # c) => conn'[c] = NoConn
    BY <1>1 DEF Refresh, ConnRecords
  <1>3. conn' \in [Conns -> ConnRecords]
    <2>1. \A c \in Conns : conn[c] \in ConnRecords /\ [conn[c] EXCEPT !.dead = TRUE] \in ConnRecords
      BY <1>1 DEF ConnRecords
    <2>2. DOMAIN conn' = Conns /\ \A c \in Conns : conn'[c] \in {conn[c], [conn[c] EXCEPT !.dead = TRUE]}
      BY DEF Refresh
    <2>3. conn' = [c \in Conns |-> conn'[c]]
      BY DEF Refresh
    <2> QED
      BY <2>1, <2>2, <2>3
  <1>4. worker'.conn = Nil /\ worker'.at = "list" /\ worker'.todo = eps
    BY <1>1 DEF Refresh, Inv, Waits, WorkerRecords
  <1>5. TypeOK'
    <2>1. init' \in BOOLEAN /\ mode' = mode /\ track' = track /\ ready' = ready
      BY DEF Refresh
    <2>2. conns' \in [Addresses -> Conns \cup {Nil}]
      BY <1>1, <1>2
    <2>3. worker' \in WorkerRecords
      BY <1>1 DEF Refresh, WorkerRecords
    <2> QED
      BY <2>1, <2>2, <2>3, <1>3 DEF Inv, TypeOK, ConnRecords, WorkerRecords
  <1>6. Made'
    <2>1. \A c \in Conns : conn[c].ep = Nil => \A e \in Endpoints : conns[e] # c
      BY <1>1 DEF Inv, PeerList, Addresses, Conns, Nil
    <2> QED
      BY <2>1, <1>2 DEF Inv, Made
  <1>7. PeerList'
    <2>1. conns'[Self] = Nil
      BY <1>1, <1>2 DEF Addresses
    <2>2. ASSUME NEW e \in Endpoints, conns'[e] # Nil
          PROVE  conn'[conns'[e]].ep # Nil /\ conn'[conns'[e]].ep = e
      <3>1. conns'[e] = conns[e] /\ conns[e] \in Conns
        BY <2>2, <1>1, <1>2 DEF Addresses
      <3> QED
        BY <2>2, <3>1, <1>2 DEF Inv, PeerList
    <2> QED
      BY <2>1, <2>2 DEF PeerList
  <1>8. Kept'
    <2> SUFFICES ASSUME NEW c \in Conns, conn[c].ep # Nil
                 PROVE  conn'[c].dead <=> conns'[conn[c].ep] # c
      BY <1>2 DEF Kept
    <2>1. conn[c].ep \in Endpoints /\ c # Nil
      BY <1>1 DEF ConnRecords, Conns, Nil
    <2>2. ASSUME NEW e \in Endpoints, conns[e] = c PROVE e = conn[c].ep
      BY <2>1, <2>2 DEF Inv, PeerList
    <2>3. conn'[c].dead <=> conn[c].dead \/ (conn[c].ep \notin eps /\ conns[conn[c].ep] = c)
      BY <2>1, <2>2, <1>2
    <2>4. conn[c].dead <=> conns[conn[c].ep] # c
      BY DEF Inv, Kept
    <2>5. conns'[conn[c].ep] = IF conn[c].ep \in eps THEN conns[conn[c].ep] ELSE Nil
      BY <2>1, <1>2 DEF Addresses
    <2> QED
      BY <2>1, <2>3, <2>4, <2>5
  <1>9. Waits'
    BY <1>4 DEF Waits
  <1> QED
    BY <1>5, <1>6, <1>7, <1>8, <1>9 DEF Inv

-----------------------------------------------------------------------------
(* The specification *)

\* A node starts with no connection.
LEMMA InitInv == Init => Inv
  <1> SUFFICES ASSUME Init PROVE Inv
    OBVIOUS
  <1>1. TypeOK
    <2>1. NoConn \in ConnRecords
      BY DEF NoConn, Conn, ConnRecords, Stages
    <2>2. conn \in [Conns -> ConnRecords]
      BY <2>1 DEF Init
    <2>3. /\ conns \in [Addresses -> Conns \cup {Nil}]
          /\ track \in [Conns -> Places]
          /\ worker \in WorkerRecords
      BY DEF Init, WorkerRecords, Places
    <2>4. mode \in Modes /\ init \in BOOLEAN /\ ready \in BOOLEAN
      BY DEF Init
    <2> QED
      BY <2>2, <2>3, <2>4 DEF TypeOK, ConnRecords, WorkerRecords, Places
  <1>2. Made /\ PeerList /\ Kept /\ Waits
    BY DEF Init, Made, PeerList, Kept, Waits, NoConn, Conn, Addresses, Nil
  <1> QED
    BY <1>1, <1>2 DEF Inv

\* A connection on which something runs, or that was used up or fails, was made.
LEMMA ActiveMade ==
  ASSUME Inv, NEW c \in Conns, conn[c] # NoConn
  PROVE  conn[c].ep # Nil
  BY DEF Inv, Made

\* A goroutine goes on, and leaves the endpoint of its connection and whether
\* that was disconnected alone.
LEMMA GoesOnInv ==
  ASSUME Inv, NEW c \in Conns, NEW k \in Runs, NEW K \in SUBSET Runs, NEW r \in ConnRecords,
         r.ep = conn[c].ep, r.dead = conn[c].dead,
         GoesOn(c, k, K, r)
  PROVE  Inv'
  <1>1. /\ conn \in [Conns -> ConnRecords]
        /\ track \in [Conns -> Places]
        /\ worker \in WorkerRecords
    BY DEF Inv, TypeOK, ConnRecords, WorkerRecords, Places
  <1>2. PICK runs \in SUBSET Runs : conn' = [conn EXCEPT ![c] = [r EXCEPT !.runs = runs]]
    <2>1. (conn[c].runs \ {k}) \cup K \in SUBSET Runs
      BY <1>1 DEF ConnRecords
    <2> QED
      BY <2>1 DEF GoesOn
  <1>3. conn[c].ep # Nil
    <2>1. k \in conn[c].runs
      BY DEF GoesOn
    <2> QED
      BY <2>1, ActiveMade DEF NoConn, Conn
  <1>4. /\ conn' \in [Conns -> ConnRecords]
        /\ conn'[c].ep # Nil /\ conn'[c].ep = conn[c].ep /\ conn'[c].dead = conn[c].dead
        /\ \A d \in Conns \ {c} : conn'[d] = conn[d]
    BY <1>1, <1>2, <1>3 DEF ConnRecords
  <1>5. UNCHANGED <<mode, conns, track, worker, init, ready>>
    BY DEF GoesOn
  <1> QED
    BY <1>1, <1>3, <1>4, <1>5, ConnInv

\* A first reestablish does the same.
LEMMA ReestablishRecord ==
  ASSUME NEW r \in ConnRecords, NEW canceled
  PROVE  /\ Reestablish(r, canceled) \in ConnRecords
         /\ Reestablish(r, canceled).ep = r.ep /\ Reestablish(r, canceled).dead = r.dead
  BY DEF Reestablish, ConnRecords, Stages

\* A broadcast wakes up who waits, and no more.
LEMMA BroadcastRecords ==
  ASSUME Inv, NEW c \in Conns, Broadcast(c)
  PROVE  /\ track' \in [Conns -> Places]
         /\ worker' \in WorkerRecords /\ worker'.conn = worker.conn
         /\ worker'.at \in {"tick", "list"} <=> worker.at \in {"tick", "list"}
  <1>1. track \in [Conns -> Places] /\ worker \in WorkerRecords
    BY DEF Inv, TypeOK, WorkerRecords, Places
  <1>2. track' \in [Conns -> Places]
    BY <1>1 DEF Broadcast, Places
  <1>3. CASE worker.at \in Waiting /\ worker.conn = c
    BY <1>1, <1>2, <1>3 DEF Broadcast, WorkerRecords, Waiting
  <1>4. CASE ~(worker.at \in Waiting /\ worker.conn = c)
    BY <1>1, <1>2, <1>4 DEF Broadcast
  <1> QED
    BY <1>3, <1>4

\* A connection that was made goes on otherwise.
LEMMA ConnChangeInv ==
  ASSUME Inv, NEW c \in Conns, conn[c] # NoConn, NEW r \in ConnRecords,
         r.ep = conn[c].ep, r.dead = conn[c].dead,
         conn' = [conn EXCEPT ![c] = r],
         UNCHANGED <<mode, conns, init, ready>>,
         Broadcast(c) \/ UNCHANGED <<track, worker>>
  PROVE  Inv'
  <1>1. /\ conn \in [Conns -> ConnRecords]
        /\ track \in [Conns -> Places]
        /\ worker \in WorkerRecords
    BY DEF Inv, TypeOK, ConnRecords, WorkerRecords, Places
  <1>2. conn[c].ep # Nil
    BY ActiveMade
  <1>3. /\ conn' \in [Conns -> ConnRecords]
        /\ conn'[c].ep # Nil /\ conn'[c].ep = conn[c].ep /\ conn'[c].dead = conn[c].dead
        /\ \A d \in Conns \ {c} : conn'[d] = conn[d]
    BY <1>1, <1>2
  <1>4. /\ track' \in [Conns -> Places]
        /\ worker' \in WorkerRecords /\ worker'.conn = worker.conn
        /\ worker'.at \in {"tick", "list"} <=> worker.at \in {"tick", "list"}
    BY <1>1, BroadcastRecords
  <1> QED
    BY <1>2, <1>3, <1>4, ConnInv

\* The steps of a connection's goroutines.
LEMMA ConnStepInv ==
  ASSUME Inv, NEW c \in Conns, ConnStep(c) \/ PushFails(c) \/ InboundUpdate(c)
  PROVE  Inv'
  <1>1. conn[c] \in ConnRecords
    BY DEF Inv, TypeOK, ConnRecords
  <1>2. /\ [conn[c] EXCEPT !.live = TRUE] \in ConnRecords
        /\ [conn[c] EXCEPT !.live = FALSE] \in ConnRecords
    BY <1>1 DEF ConnRecords
  <1>3. CASE HandshakeOk(c)
    BY <1>1, <1>3, GoesOnInv DEF HandshakeOk, Runs
  <1>4. CASE HandshakeFails(c)
    <2>1. {} \in SUBSET Runs /\ "shake" \in Runs
      BY DEF Runs
    <2> QED
      BY <1>1, <1>4, <2>1, ReestablishRecord, GoesOnInv DEF HandshakeFails
  <1>5. ASSUME NEW k \in {"update", "inbound"}, Updated(c, k)
        PROVE  Inv'
    <2>1. {"tell"} \in SUBSET Runs /\ k \in Runs
      BY DEF Runs
    <2>2. [conn[c] EXCEPT !.live = TRUE].ep = conn[c].ep
          /\ [conn[c] EXCEPT !.live = TRUE].dead = conn[c].dead
      BY <1>1 DEF ConnRecords
    <2> QED
      BY <1>2, <1>5, <2>1, <2>2, GoesOnInv DEF Updated
  <1>6. ASSUME NEW k \in {"update", "inbound"}, UpdateFails(c, k)
        PROVE  Inv'
    <2>1. PICK canceled \in {conn[c].dead, FALSE, k = "inbound"} :
            GoesOn(c, k, {IF conn[c].ep \in Laggards THEN "late" ELSE "tell"},
                   Reestablish(conn[c], canceled))
      BY <1>6 DEF UpdateFails
    <2>2. {IF conn[c].ep \in Laggards THEN "late" ELSE "tell"} \in SUBSET Runs /\ k \in Runs
      BY DEF Runs
    <2> QED
      BY <1>1, <2>1, <2>2, ReestablishRecord, GoesOnInv
  <1>7. CASE UpdateFailed(c)
    <2>1. {"tell"} \in SUBSET Runs /\ "late" \in Runs
      BY DEF Runs
    <2>2. [conn[c] EXCEPT !.live = FALSE].ep = conn[c].ep
          /\ [conn[c] EXCEPT !.live = FALSE].dead = conn[c].dead
      BY <1>1 DEF ConnRecords
    <2> QED
      BY <1>2, <1>7, <2>1, <2>2, GoesOnInv DEF UpdateFailed
  <1>8. CASE Tell(c)
    <2> DEFINE r == [conn[c] EXCEPT !.runs = @ \ {"tell"}]
    <2>1. conn[c] # NoConn
      BY <1>8 DEF Tell, NoConn, Conn
    <2>2. r \in ConnRecords /\ r.ep = conn[c].ep /\ r.dead = conn[c].dead
      BY <1>1 DEF ConnRecords
    <2>3. conn' = [conn EXCEPT ![c] = r] /\ Broadcast(c) /\ UNCHANGED <<mode, conns, init, ready>>
      BY <1>8 DEF Tell
    <2> HIDE DEF r
    <2> QED
      BY <2>1, <2>2, <2>3, ConnChangeInv
  <1>9. CASE ReestablishTell(c)
    <2> DEFINE r == [conn[c] EXCEPT !.re = IF @ = "over" THEN "gone" ELSE "wait"]
    <2>1. conn[c] # NoConn
      BY <1>9 DEF ReestablishTell, NoConn, Conn
    <2>2. r \in ConnRecords /\ r.ep = conn[c].ep /\ r.dead = conn[c].dead
      BY <1>1 DEF ConnRecords, Stages
    <2>3. conn' = [conn EXCEPT ![c] = r] /\ Broadcast(c) /\ UNCHANGED <<mode, conns, init, ready>>
      BY <1>9 DEF ReestablishTell
    <2> HIDE DEF r
    <2> QED
      BY <2>1, <2>2, <2>3, ConnChangeInv
  <1>10. CASE Recover(c)
    <2> DEFINE r == [conn[c] EXCEPT !.re = "none", !.runs = @ \cup {"shake"}]
    <2>1. conn[c] # NoConn
      BY <1>10 DEF Recover, NoConn, Conn
    <2>2. r \in ConnRecords /\ r.ep = conn[c].ep /\ r.dead = conn[c].dead
      BY <1>1 DEF ConnRecords, Stages, Runs
    <2>3. conn' = [conn EXCEPT ![c] = r] /\ UNCHANGED <<mode, conns, track, worker, init, ready>>
      BY <1>10 DEF Recover
    <2> HIDE DEF r
    <2> QED
      BY <2>1, <2>2, <2>3, ConnChangeInv
  <1>11. CASE PushFails(c)
    <2> DEFINE r == Reestablish(conn[c], conn[c].dead)
    <2>1. r \in ConnRecords /\ r.ep = conn[c].ep /\ r.dead = conn[c].dead
      BY <1>1, ReestablishRecord
    <2>2. conn[c] # NoConn /\ conn' = [conn EXCEPT ![c] = r]
          /\ UNCHANGED <<mode, conns, track, worker, init, ready>>
      BY <1>11 DEF PushFails
    <2> HIDE DEF r
    <2> QED
      BY <2>1, <2>2, ConnChangeInv
  <1>12. CASE InboundUpdate(c)
    <2> DEFINE r == [conn[c] EXCEPT !.runs = @ \cup {"inbound"}]
    <2>1. conn[c] # NoConn
      BY <1>12 DEF InboundUpdate, NoConn, Conn
    <2>2. r \in ConnRecords /\ r.ep = conn[c].ep /\ r.dead = conn[c].dead
      BY <1>1 DEF ConnRecords, Runs
    <2>3. conn' = [conn EXCEPT ![c] = r] /\ UNCHANGED <<mode, conns, track, worker, init, ready>>
      BY <1>12 DEF InboundUpdate
    <2> HIDE DEF r
    <2> QED
      BY <2>1, <2>2, <2>3, ConnChangeInv
  <1> QED
    BY <1>3, <1>4, <1>5, <1>6, <1>7, <1>8, <1>9, <1>10, <1>11, <1>12 DEF ConnStep

\* The steps in which the worker makes a connection, or a peer's handshake
\* does.
LEMMA MakeStepInv ==
  ASSUME Inv, NEW e \in Endpoints, NEW c \in Conns, GetNew(e, c) \/ InboundNew(e, c)
  PROVE  Inv'
  <1>1. Make(e, c) /\ UNCHANGED <<mode, track, init, ready>>
    BY DEF GetNew, InboundNew
  <1>2. /\ conns' \in [Addresses -> Conns \cup {Nil}]
        /\ conn' \in [Conns -> ConnRecords]
        /\ Made' /\ PeerList' /\ Kept'
        /\ conn'[c].ep # Nil /\ conn'[c].ep = e /\ conns'[e] = c
        /\ \A d \in Conns : /\ conn[d].ep # Nil => conn'[d] = conn[d]
                            /\ conn[d].ep # Nil /\ conns[conn[d].ep] = d
                                 => conns'[conn[d].ep] = d
    BY <1>1, MakeInv
  <1>3. worker \in WorkerRecords
    BY DEF Inv, TypeOK, WorkerRecords
  <1>4. worker' \in WorkerRecords /\ Waits'
    <2>1. CASE GetNew(e, c)
      <3>1. worker' = [at |-> "made", conn |-> c, todo |-> worker.todo \ {e}]
        BY <2>1 DEF GetNew
      <3> QED
        BY <1>2, <1>3, <3>1 DEF WorkerRecords, Waits, Conns, Nil
    <2>2. CASE InboundNew(e, c)
      <3>1. worker' = worker
        BY <2>2 DEF InboundNew
      <3>2. ASSUME worker.conn # Nil
            PROVE  conn'[worker.conn].ep # Nil /\ conns'[conn'[worker.conn].ep] = worker.conn
        <4>1. /\ worker.conn \in Conns /\ conn[worker.conn].ep # Nil
              /\ conns[conn[worker.conn].ep] = worker.conn
          BY <3>2, <1>3 DEF Inv, Waits, WorkerRecords
        <4> QED
          BY <4>1, <1>2
      <3> QED
        BY <1>3, <3>1, <3>2 DEF Inv, Waits
    <2> QED
      BY <2>1, <2>2
  <1>5. TypeOK'
    BY <1>1, <1>2, <1>4 DEF Inv, TypeOK, ConnRecords, WorkerRecords
  <1> QED
    BY <1>2, <1>4, <1>5 DEF Inv

\* One step per action.
LEMMA NextInv == Inv /\ [Next]_vars => Inv'
  <1> SUFFICES ASSUME Inv, [Next]_vars PROVE Inv'
    OBVIOUS
  <1>1. /\ worker \in WorkerRecords /\ track \in [Conns -> Places]
        /\ init \in BOOLEAN /\ ready \in BOOLEAN
    BY DEF Inv, TypeOK, WorkerRecords, Places
  <1>2. CASE UNCHANGED vars
    BY <1>1, <1>2, StillInv DEF vars
  <1>3. ASSUME NEW c \in Conns, ConnStep(c) \/ PushFails(c) \/ InboundUpdate(c)
        PROVE  Inv'
    BY <1>3, ConnStepInv
  <1>4. ASSUME NEW c \in Conns, TrackCheck(c)
        PROVE  Inv'
    <2>1. track' \in [Conns -> Places] /\ init' \in BOOLEAN
      BY <1>1, <1>4 DEF TrackCheck, Places
    <2>2. UNCHANGED <<mode, conns, conn, worker, ready>>
      BY <1>4 DEF TrackCheck
    <2> QED
      BY <1>1, <2>1, <2>2, StillInv
  <1>5. ASSUME NEW c \in Conns, TrackPark(c)
        PROVE  Inv'
    <2>1. track' \in [Conns -> Places]
      BY <1>1, <1>5 DEF TrackPark, Park, Waiting, Places
    <2>2. UNCHANGED <<mode, conns, conn, worker, init, ready>>
      BY <1>5 DEF TrackPark
    <2> QED
      BY <1>1, <2>1, <2>2, StillInv
  <1>6. ASSUME NEW eps \in LookupEndpoints, Refresh(eps)
        PROVE  Inv'
    BY <1>6, LookupFindsOthers, RefreshInv DEF Inv
  <1>7. ASSUME NEW e \in Endpoints, GetExisting(e)
        PROVE  Inv'
    <2>1. /\ worker' \in WorkerRecords /\ worker'.conn = worker.conn /\ worker'.at = worker.at
          /\ UNCHANGED <<mode, conns, conn, track, init, ready>>
      BY <1>1, <1>7 DEF GetExisting, WorkerRecords
    <2> QED
      BY <1>1, <2>1, StillInv
  <1>8. ASSUME NEW e \in Endpoints, NEW c \in Conns, GetNew(e, c)
        PROVE  Inv'
    BY <1>8, MakeStepInv
  <1>9. CASE WorkerPark
    <2>1. /\ worker' \in WorkerRecords /\ worker'.conn = worker.conn
          /\ worker.at = "made" /\ worker'.at \in Waiting
          /\ UNCHANGED <<mode, conns, conn, track, init, ready>>
      BY <1>1, <1>9 DEF WorkerPark, Park, Waiting, WorkerRecords
    <2> QED
      BY <1>1, <2>1, StillInv DEF Waiting
  <1>10. CASE StartTrack
    <2>1. /\ worker' \in WorkerRecords /\ worker'.conn = Nil /\ worker'.at = "list"
          /\ UNCHANGED <<mode, conns, conn, init, ready>>
      BY <1>1, <1>10 DEF StartTrack, WorkerRecords
    <2>2. track' \in [Conns -> Places]
      BY <1>1, <1>10 DEF StartTrack, Places
    <2> QED
      BY <1>1, <2>1, <2>2, StillInv
  <1>11. CASE RefreshDone
    <2>1. /\ worker' \in WorkerRecords /\ worker'.conn = worker.conn
          /\ worker.at = "list" /\ worker'.at = "tick"
          /\ UNCHANGED <<mode, conns, conn, track, init, ready>>
      BY <1>1, <1>11 DEF RefreshDone, WorkerRecords
    <2> QED
      BY <1>1, <2>1, StillInv
  <1>12. CASE Ready
    BY <1>1, <1>12, StillInv DEF Ready
  <1>13. ASSUME NEW e \in Inbound, NEW c \in Conns, InboundNew(e, c)
         PROVE  Inv'
    BY <1>13, MakeStepInv, ReadinessAssumption
  <1> QED
    BY <1>2, <1>3, <1>4, <1>5, <1>6, <1>7, <1>8, <1>9, <1>10, <1>11, <1>12, <1>13
    DEF Next, TrackStep, WorkerStep, InboundStep

\* The invariant holds in every state of the specification.
THEOREM Invariance == Spec => []Inv
  BY InitInv, NextInv, PTL DEF Spec

\* A node has the state Readiness gives it, for every configuration: whatever
\* the configuration or the DNS lists, this node is never among the endpoints
\* its worker works off or connects to.
THEOREM TypeCorrect == Spec => []TypeOK
  <1>1. Inv => TypeOK
    BY DEF Inv
  <1> QED
    BY <1>1, Invariance, PTL

\* There is one connection to a peer, the one of the peer list, and refresh
\* disconnects every connection it drops from the list: none stays behind
\* that would go on reconnecting to a peer that is gone.
THEOREM NeverOrphaned == Spec => []NoOrphan
  <1>1. Inv => NoOrphan
    BY DEF Inv, Made, Kept, NoOrphan
  <1> QED
    BY <1>1, Invariance, PTL

\* The connection whose first news the worker waits for is the one of the
\* peer list, so that the worker never waits for one that was disconnected.
THEOREM NeverWaitsForDropped == Spec => []WaitsForCurrent
  <1>1. Inv => WaitsForCurrent
    BY DEF Inv, Waits, WaitsForCurrent
  <1> QED
    BY <1>1, Invariance, PTL
=============================================================================
