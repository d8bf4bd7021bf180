------------------------- MODULE ReplicationProofs -------------------------
(***************************************************************************)
(* Proofs about Replication for every set of nodes, goroutines and bounds:  *)
(* its types; that nothing is replicated that was not issued; that what a   *)
(* node reports it has stored.                                              *)
(***************************************************************************)
EXTENDS Replication, TLAPS

\* A session st is issued, in terms of the serials c handed out; a report lat
\* tells of sessions in the set h only.
IssuedBy(c, st) == st[2] <= c[st[1]]
Tells(h, lat) == \A id \in PeerIds : lat[id] > 0 => <<id, lat[id]>> \in h

\* Goroutines that are about a peer, and those that carry a session.
WithPeer == Ops \ {"idle", "created", "noted"}
WithSession == {"created", "noted", "push", "pushed"}

\* What is true of a goroutine t, when h is what nodes have had and c the
\* serials handed out.
Good(t, h, c) ==
    /\ t \in Task
    /\ t.op # "idle" => t.own \in Nodes
    /\ t.op \in WithPeer => t.peer \in Nodes
    /\ t.op \in WithSession => t.st \in Stamps
    /\ t.op = "created" => t.st \in h[t.own]
    /\ t.op = "pushed" => t.st \in h[t.peer]
    /\ t.op \in {"request", "connected"} => Tells(h[t.own], t.lat)
    /\ t.op = "update" => Tells(h[t.peer], t.lat)
    /\ t.st # None => IssuedBy(c, t.st)
    /\ \A st \in t.todo : IssuedBy(c, st)

\* What is true of the nodes.
NodesGood ==
    /\ \A n \in Nodes : store[n] \subseteq had[n]
    /\ \A n \in Nodes : \A st \in had[n] : IssuedBy(curr, st)
    /\ \A n \in Nodes : Tells(had[n], latest[n])

Inv ==
    /\ TypeOK
    /\ NodesGood
    /\ \A s \in Slots : Good(task[s], had, curr)

-----------------------------------------------------------------------------
(* The records of goroutines, field by field *)

\* A new goroutine.
LEMMA GoroutineFields ==
  ASSUME NEW op \in Ops, NEW n \in Nodes \cup {None}, NEW p \in Nodes \cup {None}
  PROVE  /\ Goroutine(op, n, p) \in Task
         /\ Goroutine(op, n, p).op = op /\ Goroutine(op, n, p).own = n
         /\ Goroutine(op, n, p).peer = p /\ Goroutine(op, n, p).st = None
         /\ Goroutine(op, n, p).lat = NoLatest
         /\ Goroutine(op, n, p).todo = {} /\ Goroutine(op, n, p).left = {}
  <1>1. NoLatest \in Latest
    BY ConstantsAssumption DEF NoLatest, Latest
  <1> QED
    BY <1>1 DEF Goroutine, Idle, Task

\* A free slot.
LEMMA IdleFields == Idle \in Task /\ Idle.op = "idle" /\ Idle.st = None /\ Idle.todo = {}
  <1>1. NoLatest \in Latest
    BY ConstantsAssumption DEF NoLatest, Latest
  <1> QED
    BY <1>1 DEF Idle, Task, Ops

\* A goroutine that goes on.
LEMMA AtFields ==
  ASSUME NEW s \in Slots, task[s] \in Task, NEW op \in Ops
  PROVE  /\ At(s, op) \in Task /\ At(s, op).op = op
         /\ At(s, op).own = task[s].own /\ At(s, op).peer = task[s].peer
         /\ At(s, op).st = task[s].st /\ At(s, op).lat = task[s].lat
         /\ At(s, op).todo = task[s].todo /\ At(s, op).left = task[s].left
  BY DEF At, Task

\* A goroutine that goes on and drops what it carried.
LEMMA AnewFields ==
  ASSUME NEW s \in Slots, task[s] \in Task, NEW op \in Ops
  PROVE  /\ Anew(s, op) \in Task /\ Anew(s, op).op = op
         /\ Anew(s, op).own = task[s].own /\ Anew(s, op).peer = task[s].peer
         /\ Anew(s, op).st = None /\ Anew(s, op).todo = {} /\ Anew(s, op).left = {}
  <1>1. task[s].own \in Nodes \cup {None} /\ task[s].peer \in Nodes \cup {None}
        /\ task[s].ctx \in Slots \cup {"bg", "done"}
    BY DEF Task
  <1> DEFINE own == task[s].own
             peer == task[s].peer
             g == Goroutine(op, own, peer)
  <1> HIDE DEF own, peer
  <1>2. /\ g \in Task /\ g.op = op /\ g.own = own /\ g.peer = peer
        /\ g.st = None /\ g.todo = {} /\ g.left = {}
    <2>1. own \in Nodes \cup {None} /\ peer \in Nodes \cup {None}
      BY <1>1 DEF own, peer
    <2> QED
      BY <2>1, GoroutineFields
  <1> HIDE DEF g
  <1>3. Anew(s, op) = [g EXCEPT !.ctx = task[s].ctx]
    BY DEF Anew, g, own, peer
  <1> QED
    BY <1>1, <1>2, <1>3 DEF Task, own, peer

-----------------------------------------------------------------------------
(* What is true of a goroutine stays true *)

\* What nodes have had and the serials handed out only grow.
LEMMA GoodGrows ==
  ASSUME NEW t, NEW h, NEW c, NEW h2, NEW c2, Good(t, h, c),
         \A n \in Nodes : h[n] \subseteq h2[n],
         c \in [PeerIds -> 0..MaxSessions], c2 \in [PeerIds -> 0..MaxSessions],
         \A id \in PeerIds : c[id] <= c2[id]
  PROVE  Good(t, h2, c2)
  <1>1. \A st \in Stamps : st[1] \in PeerIds /\ st[2] \in 1..MaxSessions
    BY DEF Stamps
  <1>2. \A st \in Stamps : IssuedBy(c, st) => IssuedBy(c2, st)
    BY <1>1, ConstantsAssumption DEF IssuedBy
  <1>3. /\ t \in Task
        /\ t.op # "idle" => t.own \in Nodes
        /\ t.op \in WithPeer => t.peer \in Nodes
        /\ t.op \in WithSession => t.st \in Stamps
    BY DEF Good
  <1>4. t.st # None => IssuedBy(c2, t.st)
    BY <1>2, <1>3 DEF Good, Task
  <1>5. \A st \in t.todo : IssuedBy(c2, st)
    BY <1>2, <1>3 DEF Good, Task
  <1>6. /\ t.op = "created" => t.st \in h2[t.own]
        /\ t.op = "pushed" => t.st \in h2[t.peer]
    BY <1>3 DEF Good, WithPeer, Ops
  <1>7. /\ t.op \in {"request", "connected"} => Tells(h2[t.own], t.lat)
        /\ t.op = "update" => Tells(h2[t.peer], t.lat)
    BY <1>3 DEF Good, WithPeer, Ops, Tells
  <1> QED
    BY <1>3, <1>4, <1>5, <1>6, <1>7 DEF Good

\* Nothing is asked of a free slot.
LEMMA IdleGood == ASSUME NEW h, NEW c PROVE Good(Idle, h, c)
  BY IdleFields DEF Good, WithPeer, WithSession

\* A goroutine that carries nothing has nothing to be wrong about.
LEMMA BareGood ==
  ASSUME NEW h, NEW c, NEW t \in Task, t.own \in Nodes, t.peer \in Nodes,
         t.op \notin WithSession, t.op \notin {"request", "connected", "update"},
         t.st = None, t.todo = {}
  PROVE  Good(t, h, c)
  BY DEF Good, WithSession

\* The goroutine of an RPC goes on without what it carried.
LEMMA AnewGood ==
  ASSUME NEW h, NEW c, NEW s \in Slots, Good(task[s], h, c), task[s].op \in WithPeer,
         NEW op \in {"accepted", "behind", "failed", "canceled", "wait"}
  PROVE  Good(Anew(s, op), h, c)
  <1>1. task[s] \in Task /\ task[s].own \in Nodes /\ task[s].peer \in Nodes
    BY DEF Good, WithPeer, Ops
  <1>2. op \in Ops
    BY DEF Ops
  <1> QED
    BY <1>1, <1>2, AnewFields, BareGood DEF WithSession

\* The context of a goroutine matters to none of this.
LEMMA DoneGood ==
  ASSUME NEW h, NEW c, NEW t, Good(t, h, c)
  PROVE  Good([t EXCEPT !.ctx = "done"], h, c)
  <1> DEFINE u == [t EXCEPT !.ctx = "done"]
  <1>1. /\ u \in Task /\ u.op = t.op /\ u.own = t.own /\ u.peer = t.peer /\ u.st = t.st
        /\ u.lat = t.lat /\ u.todo = t.todo
    BY DEF Good, Task
  <1> HIDE DEF u
  <1>2. Good(u, h, c)
    BY <1>1 DEF Good
  <1> QED
    BY <1>2 DEF u

-----------------------------------------------------------------------------
(* Steps in which the nodes keep what they have *)

ConnsTyped ==
    /\ conns \in [Nodes -> SUBSET Nodes] /\ live \in [Nodes -> SUBSET Nodes]
    /\ late \in [Nodes -> SUBSET Nodes] /\ spent \in [Nodes -> SUBSET Nodes]
    /\ faults \in Nat

\* The nodes and the connections, without the goroutines.
NodesTyped ==
    /\ inc \in [Nodes -> 0..MaxInc]
    /\ curr \in [PeerIds -> 0..MaxSessions]
    /\ store \in [Nodes -> SUBSET Stamps]
    /\ latest \in [Nodes -> Latest]
    /\ had \in [Nodes -> SUBSET Stamps]

\* The invariant in parts.
LEMMA InvParts ==
  Inv <=> /\ NodesTyped /\ ConnsTyped /\ NodesGood
          /\ task \in [Slots -> Task]
          /\ \A s \in Slots : Good(task[s], had, curr)
  BY DEF Inv, TypeOK, NodesTyped, ConnsTyped

\* One goroutine goes on.
LEMMA OneTask ==
  ASSUME Inv, NEW s \in Slots, NEW t, Good(t, had, curr), task' = [task EXCEPT ![s] = t]
  PROVE  task' \in [Slots -> Task] /\ \A r \in Slots : Good(task'[r], had, curr)
  <1>1. t \in Task
    BY DEF Good
  <1> QED
    BY <1>1 DEF Inv, TypeOK

\* An RPC ends.
LEMMA AnsweredTask ==
  ASSUME Inv, NEW s \in Slots, NEW t, Good(t, had, curr), Answered(s, t)
  PROVE  task' \in [Slots -> Task] /\ \A r \in Slots : Good(task'[r], had, curr)
  <1>1. ASSUME NEW r \in Slots PROVE Good(task'[r], had, curr)
    <2>1. Good(task[r], had, curr)
      BY DEF Inv
    <2>2. CASE r = s
      BY <2>2 DEF Answered
    <2>3. CASE r # s /\ task[r].ctx = s
      BY <2>1, <2>3, DoneGood DEF Answered
    <2>4. CASE r # s /\ task[r].ctx # s
      BY <2>1, <2>4 DEF Answered
    <2> QED
      BY <2>2, <2>3, <2>4
  <1>2. DOMAIN task' = Slots /\ task' = [r \in Slots |-> task'[r]]
    BY DEF Answered
  <1>3. \A r \in Slots : task'[r] \in Task
    BY <1>1 DEF Good
  <1> QED
    BY <1>1, <1>2, <1>3

\* The nodes keep what they have.
LEMMA StillInv ==
  ASSUME Inv, UNCHANGED nodeVars, ConnsTyped',
         task' \in [Slots -> Task], \A r \in Slots : Good(task'[r], had, curr)
  PROVE  Inv'
  <1>1. NodesTyped' /\ NodesGood'
    BY InvParts DEF NodesTyped, NodesGood, nodeVars, IssuedBy, Tells
  <1>2. \A r \in Slots : Good(task'[r], had', curr')
    BY DEF nodeVars
  <1> QED
    BY <1>1, <1>2 DEF Inv, TypeOK, NodesTyped, ConnsTyped

\* One goroutine goes on, and the connections stay as they are or change their
\* flags.
LEMMA OneStill ==
  ASSUME Inv, UNCHANGED nodeVars, ConnsTyped',
         NEW s \in Slots, NEW t, Good(t, had, curr), task' = [task EXCEPT ![s] = t]
  PROVE  Inv'
  BY OneTask, StillInv

\* The goroutines of replication that change neither the sessions nor latest.
LEMMA PushRefusedInv ==
  ASSUME Inv, NEW s \in Slots, PushRefused(s) PROVE Inv'
  <1>1. Good(Anew(s, "failed"), had, curr)
    BY AnewGood DEF Inv, PushRefused, Become, WithPeer, Ops
  <1> QED
    BY <1>1, OneStill, InvParts DEF PushRefused, Become, connVars, ConnsTyped

\* The worker finds a peer it has no connection for.
LEMMA ConnectInv ==
  ASSUME Inv, NEW s \in Slots, NEW n \in Nodes, NEW p \in Nodes, Connect(s, n, p)
  PROVE  Inv'
  <1>1. Good(Goroutine("shake", n, p), had, curr)
    BY GoroutineFields, BareGood DEF Ops, WithSession
  <1>2. ConnsTyped'
    BY InvParts DEF Connect, ConnsTyped
  <1> QED
    BY <1>1, <1>2, OneStill DEF Connect, Become

\* A handshake is sent with what the node has noted.
LEMMA HandshakeSendInv ==
  ASSUME Inv, NEW s \in Slots, HandshakeSend(s) PROVE Inv'
  <1> DEFINE t == [At(s, "request") EXCEPT !.lat = latest[task[s].own]]
  <1>1. task[s] \in Task /\ task[s].op = "shake" /\ Good(task[s], had, curr)
        /\ task[s].own \in Nodes /\ task[s].peer \in Nodes
    BY DEF Inv, TypeOK, HandshakeSend, Become, Good, WithPeer, Ops
  <1>2. latest[task[s].own] \in Latest /\ Tells(had[task[s].own], latest[task[s].own])
    BY <1>1 DEF Inv, TypeOK, NodesGood
  <1>3. /\ t \in Task /\ t.op = "request" /\ t.own = task[s].own /\ t.peer = task[s].peer
        /\ t.st = task[s].st /\ t.todo = task[s].todo /\ t.lat = latest[task[s].own]
    <2>1. "request" \in Ops
      BY DEF Ops
    <2>2. /\ At(s, "request") \in Task /\ At(s, "request").op = "request"
          /\ At(s, "request").own = task[s].own /\ At(s, "request").peer = task[s].peer
          /\ At(s, "request").st = task[s].st /\ At(s, "request").todo = task[s].todo
      BY <1>1, <2>1, AtFields
    <2> QED
      BY <1>2, <2>2 DEF Task
  <1>4. task' = [task EXCEPT ![s] = t]
    BY DEF HandshakeSend, Become
  <1> HIDE DEF t
  <1>5. Good(t, had, curr)
    BY <1>1, <1>2, <1>3 DEF Good, WithSession
  <1> QED
    BY <1>4, <1>5, OneStill, InvParts DEF HandshakeSend, connVars, ConnsTyped

\* The peer connects back, and keeps what it is told for its update.
LEMMA HandshakeConnectInv ==
  ASSUME Inv, NEW s \in Slots, NEW r \in Slots, HandshakeConnect(s, r) PROVE Inv'
  <1> DEFINE n == task[s].own
             p == task[s].peer
             a == At(s, "connected")
             h == Goroutine("shake", p, n)
  <1>1. task[s] \in Task /\ task[s].op = "request" /\ Good(task[s], had, curr)
        /\ n \in Nodes /\ p \in Nodes
    BY DEF Inv, TypeOK, HandshakeConnect, Good, WithPeer, Ops
  <1>2. Good(a, had, curr)
    <2>1. a \in Task /\ a.op = "connected" /\ a.own = n /\ a.peer = p
          /\ a.st = task[s].st /\ a.lat = task[s].lat /\ a.todo = task[s].todo
      BY <1>1, AtFields DEF Ops
    <2> HIDE DEF a
    <2> QED
      BY <1>1, <2>1 DEF Good, WithSession
  <1>3. Good(h, had, curr)
    BY <1>1, GoroutineFields, BareGood DEF Ops, WithSession
  <1>4. ConnsTyped'
    BY <1>1, InvParts DEF HandshakeConnect, ConnsTyped
  <1>5. \/ task' = [task EXCEPT ![s] = a, ![r] = h]
        \/ task' = [task EXCEPT ![s] = a]
    BY DEF HandshakeConnect
  <1> HIDE DEF n, p, a, h
  <1>6. task' \in [Slots -> Task] /\ \A q \in Slots : Good(task'[q], had, curr)
    <2>1. h \in Task /\ a \in Task
      BY <1>2, <1>3 DEF Good
    <2> QED
      BY <1>2, <1>3, <1>5, <2>1 DEF Inv, TypeOK
  <1> QED
    BY <1>4, <1>6, StillInv DEF HandshakeConnect

\* A handshake is accepted, with a goroutine to update when the peer is live.
LEMMA HandshakeAcceptInv ==
  ASSUME Inv, NEW s \in Slots, NEW r \in Slots, HandshakeAccept(s, r) PROVE Inv'
  <1> DEFINE n == task[s].own
             p == task[s].peer
             u == [Goroutine("update", p, n) EXCEPT !.ctx = s, !.lat = task[s].lat]
             a == Anew(s, "accepted")
  <1>1. task[s] \in Task /\ task[s].op = "connected" /\ Good(task[s], had, curr)
        /\ n \in Nodes /\ p \in Nodes /\ task[s].lat \in Latest /\ Tells(had[n], task[s].lat)
    BY DEF Inv, TypeOK, HandshakeAccept, Good, WithPeer, Ops, Task
  <1>2. Good(a, had, curr)
    BY <1>1, AnewGood DEF WithPeer, Ops
  <1>3. Good(u, had, curr)
    <2>1. "update" \in Ops
      BY DEF Ops
    <2>2. /\ u \in Task /\ u.op = "update" /\ u.own = p /\ u.peer = n
          /\ u.st = None /\ u.todo = {} /\ u.lat = task[s].lat
      <3> DEFINE g == Goroutine("update", p, n)
      <3>1. g \in Task /\ g.op = "update" /\ g.own = p /\ g.peer = n /\ g.st = None /\ g.todo = {}
        BY <1>1, <2>1, GoroutineFields
      <3>2. u = [g EXCEPT !.ctx = s, !.lat = task[s].lat]
        OBVIOUS
      <3> HIDE DEF g, u, n, p
      <3> QED
        BY <1>1, <3>1, <3>2 DEF Task
    <2> HIDE DEF u
    <2> QED
      BY <1>1, <2>2 DEF Good, WithSession
  <1>4. UNCHANGED nodeVars /\ UNCHANGED connVars /\ UNCHANGED faults
    BY DEF HandshakeAccept
  <1>5. ConnsTyped'
    BY <1>4, InvParts DEF connVars, ConnsTyped
  <1>6. \/ task' = [task EXCEPT ![s] = a, ![r] = u]
        \/ task' = [task EXCEPT ![s] = a]
    BY DEF HandshakeAccept
  <1> HIDE DEF n, p, u, a
  <1>7. task' \in [Slots -> Task] /\ \A q \in Slots : Good(task'[q], had, curr)
    <2>1. u \in Task /\ a \in Task
      BY <1>2, <1>3 DEF Good
    <2> QED
      BY <1>2, <1>3, <1>6, <2>1 DEF Inv, TypeOK
  <1> QED
    BY <1>4, <1>5, <1>7, StillInv

\* A handshake is answered with what the peer has noted.
LEMMA HandshakeReplyInv ==
  ASSUME Inv, NEW s \in Slots, HandshakeReply(s) PROVE Inv'
  <1> DEFINE p == task[s].peer
             t == [At(s, "update") EXCEPT !.lat = latest[p], !.left = {Id(p)}]
  <1>1. task[s] \in Task /\ task[s].op = "accepted" /\ Good(task[s], had, curr)
        /\ task[s].own \in Nodes /\ p \in Nodes
    BY DEF Inv, TypeOK, HandshakeReply, Good, WithPeer, Ops
  <1>2. latest[p] \in Latest /\ Tells(had[p], latest[p]) /\ Id(p) \in PeerIds
    BY <1>1 DEF Inv, TypeOK, NodesGood, Id, PeerIds
  <1>3. /\ t \in Task /\ t.op = "update" /\ t.own = task[s].own /\ t.peer = p
        /\ t.st = task[s].st /\ t.todo = task[s].todo /\ t.lat = latest[p]
    <2> DEFINE a == At(s, "update")
    <2>1. /\ a \in Task /\ a.op = "update" /\ a.own = task[s].own /\ a.peer = p
          /\ a.st = task[s].st /\ a.todo = task[s].todo
      BY <1>1, AtFields DEF Ops
    <2>2. t = [a EXCEPT !.lat = latest[p], !.left = {Id(p)}]
      OBVIOUS
    <2> HIDE DEF a, t, p
    <2> QED
      BY <1>1, <1>2, <2>1, <2>2 DEF Task
  <1>4. Answered(s, t)
    BY DEF HandshakeReply
  <1> HIDE DEF t, p
  <1>5. Good(t, had, curr)
    BY <1>1, <1>2, <1>3 DEF Good, WithSession
  <1> QED
    BY <1>4, <1>5, AnsweredTask, StillInv, InvParts DEF HandshakeReply, connVars, ConnsTyped

\* update: the connection becomes live, or a stream is to be asked for.
LEMMA UpdateInv ==
  ASSUME Inv, NEW s \in Slots, UpdateNone(s) \/ UpdateNeeded(s) PROVE Inv'
  <1>1. task[s].op = "update" /\ task[s].own \in Nodes /\ task[s].peer \in Nodes
    BY DEF Inv, UpdateNone, UpdateNeeded, Become, Good, WithPeer, Ops
  <1>2. CASE UpdateNone(s)
    <2>1. ConnsTyped'
      BY <1>1, <1>2, InvParts DEF UpdateNone, ConnsTyped
    <2> QED
      BY <1>2, <2>1, OneStill, IdleGood DEF UpdateNone, Become
  <1>3. CASE UpdateNeeded(s)
    <2>1. Good(Anew(s, "behind"), had, curr)
      BY <1>1, AnewGood DEF Inv, WithPeer, Ops
    <2> QED
      BY <1>3, <2>1, OneStill, InvParts DEF UpdateNeeded, Become, connVars, ConnsTyped
  <1> QED
    BY <1>2, <1>3

\* The request for a stream tells what the node has.
LEMMA StreamRequestInv ==
  ASSUME Inv, NEW s \in Slots, StreamRequest(s) PROVE Inv'
  <1> DEFINE t == [At(s, "ask") EXCEPT !.lat = latest[task[s].own]]
  <1>1. task[s] \in Task /\ task[s].op = "behind" /\ Good(task[s], had, curr)
        /\ task[s].own \in Nodes /\ task[s].peer \in Nodes
    BY DEF Inv, TypeOK, StreamRequest, Become, Good, WithPeer, Ops
  <1>2. latest[task[s].own] \in Latest
    BY <1>1 DEF Inv, TypeOK
  <1>3. /\ t \in Task /\ t.op = "ask" /\ t.own = task[s].own /\ t.peer = task[s].peer
        /\ t.st = task[s].st /\ t.todo = task[s].todo
    BY <1>1, <1>2, AtFields DEF Task, Ops
  <1>4. task' = [task EXCEPT ![s] = t]
    BY DEF StreamRequest, Become
  <1> HIDE DEF t
  <1>5. Good(t, had, curr)
    BY <1>1, <1>3 DEF Good, WithSession
  <1> QED
    BY <1>4, <1>5, OneStill, InvParts DEF StreamRequest, connVars, ConnsTyped

\* A stream is opened with sessions of the peer's store.
LEMMA StreamOpenInv ==
  ASSUME Inv, NEW s \in Slots, StreamOpen(s) PROVE Inv'
  <1> DEFINE p == task[s].peer
             a == At(s, "stream")
             t == [a EXCEPT !.todo = Offered(p, task[s].lat), !.left = {st[1] : st \in store[p]}]
  <1>1. task[s] \in Task /\ task[s].op = "ask" /\ Good(task[s], had, curr)
        /\ task[s].own \in Nodes /\ p \in Nodes
    BY DEF Inv, TypeOK, StreamOpen, Become, Good, WithPeer, Ops
  <1>2. /\ a \in Task /\ a.op = "stream" /\ a.own = task[s].own /\ a.peer = p
        /\ a.st = task[s].st
    BY <1>1, AtFields DEF Ops
  <1>3. /\ Offered(p, task[s].lat) \subseteq store[p]
        /\ store[p] \subseteq Stamps
        /\ \A st \in store[p] : IssuedBy(curr, st)
    BY <1>1 DEF Inv, TypeOK, NodesGood, Offered
  <1>4. {st[1] : st \in store[p]} \subseteq PeerIds
    BY <1>3 DEF Stamps
  <1>5. task' = [task EXCEPT ![s] = t]
    BY DEF StreamOpen, Become
  <1> HIDE DEF a, p
  <1>6. /\ t \in Task /\ t.op = "stream" /\ t.own = task[s].own /\ t.peer = p
        /\ t.st = task[s].st /\ t.todo = Offered(p, task[s].lat)
    BY <1>2, <1>3, <1>4 DEF Task
  <1> HIDE DEF t
  <1>7. Good(t, had, curr)
    BY <1>1, <1>3, <1>6 DEF Good, WithSession
  <1> QED
    BY <1>5, <1>7, OneStill, InvParts DEF StreamOpen, connVars, ConnsTyped

\* The flags stay sets of endpoints.
LEMMA FlagsTyped ==
  ASSUME ConnsTyped, NEW C
  PROVE  Late(C) \in [Nodes -> SUBSET Nodes] /\ Live(C) \in [Nodes -> SUBSET Nodes]
  BY DEF ConnsTyped, Late, Live

\* A stream ends, or is given up.
LEMMA StreamOverInv ==
  ASSUME Inv, NEW s \in Slots, StreamEnd(s) \/ \E st \in Stamps : StreamRefused(s, st)
  PROVE  Inv'
  <1>1. task[s].op = "stream" /\ task[s].own \in Nodes /\ task[s].peer \in Nodes
    BY DEF Inv, StreamEnd, StreamRefused, Become, Good, WithPeer, Ops
  <1>2. CASE StreamEnd(s)
    <2>1. ConnsTyped'
      BY <1>1, <1>2, InvParts DEF StreamEnd, ConnsTyped
    <2> QED
      BY <1>2, <2>1, OneStill, IdleGood DEF StreamEnd, Become
  <1>3. ASSUME NEW st \in Stamps, StreamRefused(s, st) PROVE Inv'
    <2>1. Good(Anew(s, "failed"), had, curr)
      BY <1>1, AnewGood DEF Inv, WithPeer, Ops
    <2>2. ConnsTyped'
      BY <1>3, InvParts, FlagsTyped DEF StreamRefused, ConnsTyped
    <2> QED
      BY <1>3, <2>1, <2>2, OneStill DEF StreamRefused, Become
  <1> QED
    BY <1>2, <1>3

\* update assigns the failure of a stream to live.
LEMMA UpdateFailedInv ==
  ASSUME Inv, NEW n \in Nodes, NEW p \in Nodes, UpdateFailed(n, p) PROVE Inv'
  <1>1. ConnsTyped'
    BY InvParts DEF UpdateFailed, ConnsTyped
  <1> QED
    BY <1>1, StillInv, InvParts DEF UpdateFailed

\* An RPC fails or is canceled.
LEMMA FailsInv ==
  ASSUME Inv, NEW s \in Slots, RpcFails(s) \/ RpcCanceled(s) PROVE Inv'
  <1>1. PICK op \in {"failed", "canceled"} : Fails(s, op)
    BY DEF RpcFails, RpcCanceled
  <1>2. task[s].op \in WithPeer
    BY DEF RpcFails, RpcCanceled, WithPeer, Ops
  <1>3. Good(Anew(s, op), had, curr)
    BY <1>2, AnewGood DEF Inv
  <1>4. faults' \in Nat
    BY InvParts DEF RpcFails, RpcCanceled, Fault, ConnsTyped
  <1>5. ConnsTyped'
    BY <1>1, <1>4, InvParts, FlagsTyped DEF Fails, ConnsTyped
  <1> QED
    BY <1>1, <1>3, <1>5, AnsweredTask, StillInv DEF Fails

\* reestablish.
LEMMA ReestablishInv ==
  ASSUME Inv, NEW s \in Slots, ReestablishSkip(s) \/ Reestablish(s) \/ Recover(s)
  PROVE  Inv'
  <1>1. /\ task[s] \in Task /\ Good(task[s], had, curr) /\ task[s].op \in {"failed", "canceled", "wait"}
        /\ task[s].own \in Nodes /\ task[s].peer \in Nodes /\ task[s].op \in WithPeer
    BY DEF Inv, TypeOK, ReestablishSkip, Reestablish, Recover, Become, Good, WithPeer, Ops
  <1>2. CASE ReestablishSkip(s)
    BY <1>2, OneStill, IdleGood, InvParts DEF ReestablishSkip, connVars, ConnsTyped
  <1>3. CASE Reestablish(s)
    <2>1. Good(IF task[s].op = "canceled" THEN Idle ELSE Anew(s, "wait"), had, curr)
      BY <1>1, AnewGood, IdleGood
    <2>2. ConnsTyped'
      BY <1>1, <1>3, InvParts DEF Reestablish, ConnsTyped
    <2>3. task' = [task EXCEPT ![s] = IF task[s].op = "canceled" THEN Idle ELSE Anew(s, "wait")]
      BY <1>3, InvParts DEF Reestablish
    <2> QED
      BY <1>3, <2>1, <2>2, <2>3, OneStill DEF Reestablish
  <1>4. CASE Recover(s)
    <2>1. Good(At(s, "shake"), had, curr)
      BY <1>1, AtFields DEF Good, WithSession, WithPeer, Ops
    <2>2. ConnsTyped'
      BY <1>1, <1>4, InvParts DEF Recover, ConnsTyped
    <2> QED
      BY <1>4, <2>1, <2>2, OneStill DEF Recover, Become
  <1> QED
    BY <1>2, <1>3, <1>4

-----------------------------------------------------------------------------
(* Steps in which nodes store sessions, note them and lose them *)

\* A session that is issued is stored.
LEMMA SetNodes ==
  ASSUME Inv, NEW n \in Nodes, NEW st \in Stamps, Set(n, st), IssuedBy(curr', st),
         curr' \in [PeerIds -> 0..MaxSessions], \A id \in PeerIds : curr[id] <= curr'[id],
         inc' = inc, latest' = latest
  PROVE  /\ NodesTyped' /\ NodesGood'
         /\ \A m \in Nodes : had[m] \subseteq had'[m]
         /\ st \in had'[n]
  <1>1. /\ store \in [Nodes -> SUBSET Stamps] /\ had \in [Nodes -> SUBSET Stamps]
        /\ curr \in [PeerIds -> 0..MaxSessions]
    BY DEF Inv, TypeOK
  <1>2. NodesTyped'
    BY InvParts, <1>1 DEF NodesTyped, Set
  <1>3. /\ \A m \in Nodes : had[m] \subseteq had'[m]
        /\ \A m \in Nodes : had'[m] \subseteq had[m] \cup {st}
        /\ st \in had'[n]
    BY <1>1 DEF Set
  <1>4. \A m \in Nodes : store'[m] \subseteq had'[m]
    BY <1>1 DEF Set, Inv, NodesGood
  <1>5. \A e \in Stamps : IssuedBy(curr, e) => IssuedBy(curr', e)
    <2>1. \A e \in Stamps : e[1] \in PeerIds /\ e[2] \in 1..MaxSessions
      BY DEF Stamps
    <2> QED
      BY <2>1, <1>1, ConstantsAssumption DEF IssuedBy
  <1>6. \A m \in Nodes : \A e \in had'[m] : IssuedBy(curr', e)
    BY <1>1, <1>3, <1>5 DEF Inv, NodesGood
  <1>7. \A m \in Nodes : Tells(had'[m], latest'[m])
    BY <1>3 DEF Inv, NodesGood, Tells
  <1> QED
    BY <1>2, <1>3, <1>4, <1>6, <1>7 DEF NodesGood

\* A session that is held is noted.
LEMMA NoteNodes ==
  ASSUME Inv, NEW n \in Nodes, NEW st \in had[n],
         latest' = [latest EXCEPT ![n] = Noted(@, st)], UNCHANGED <<inc, curr, store, had>>
  PROVE  NodesTyped' /\ NodesGood'
  <1>1. /\ latest \in [Nodes -> Latest] /\ st \in Stamps
        /\ st[1] \in PeerIds /\ st[2] \in 1..MaxSessions /\ st = <<st[1], st[2]>>
    BY DEF Inv, TypeOK, Stamps
  <1>2. latest[n] \in [PeerIds -> 0..MaxSessions]
    BY <1>1 DEF Latest
  <1>3. Noted(latest[n], st) \in Latest
    BY <1>1, <1>2 DEF Noted, Latest
  <1>4. Tells(had[n], Noted(latest[n], st))
    <2>1. Tells(had[n], latest[n])
      BY DEF Inv, NodesGood
    <2>2. CASE latest[n][st[1]] < st[2]
      <3>1. Noted(latest[n], st) = [latest[n] EXCEPT ![st[1]] = st[2]]
        BY <2>2 DEF Noted
      <3> QED
        BY <1>1, <1>2, <2>1, <3>1 DEF Tells
    <2>3. CASE ~(latest[n][st[1]] < st[2])
      BY <2>1, <2>3 DEF Noted
    <2> QED
      BY <2>2, <2>3
  <1>5. latest' = [latest EXCEPT ![n] = Noted(latest[n], st)]
    BY <1>1
  <1>6. NodesTyped'
    BY <1>1, <1>3, <1>5, InvParts DEF NodesTyped
  <1>7. \A m \in Nodes : Tells(had[m], latest'[m])
    BY <1>1, <1>4, <1>5 DEF Inv, NodesGood
  <1> QED
    BY <1>6, <1>7 DEF Inv, NodesGood

\* One goroutine goes on with what its node has stored or noted.
LEMMA GrowInv ==
  ASSUME Inv, NodesTyped', NodesGood', ConnsTyped',
         \A n \in Nodes : had[n] \subseteq had'[n],
         \A id \in PeerIds : curr[id] <= curr'[id],
         NEW s \in Slots, NEW t, Good(t, had', curr'), task' = [task EXCEPT ![s] = t]
  PROVE  Inv'
  <1>1. /\ curr \in [PeerIds -> 0..MaxSessions] /\ curr' \in [PeerIds -> 0..MaxSessions]
        /\ task \in [Slots -> Task]
    BY InvParts DEF NodesTyped
  <1>2. \A r \in Slots : Good(task[r], had', curr')
    BY <1>1, GoodGrows DEF Inv
  <1>3. t \in Task
    BY DEF Good
  <1>4. task' \in [Slots -> Task] /\ \A r \in Slots : Good(task'[r], had', curr')
    BY <1>1, <1>2, <1>3
  <1> QED
    BY <1>4 DEF Inv, TypeOK, NodesTyped, ConnsTyped

\* A login.
LEMMA CreateSessionInv ==
  ASSUME Inv, NEW s \in Slots, NEW n \in Nodes, CreateSession(s, n) PROVE Inv'
  <1> DEFINE st == <<Id(n), curr[Id(n)] + 1>>
             g == Goroutine("created", n, None)
             t == [g EXCEPT !.st = st]
  <1>1. /\ curr \in [PeerIds -> 0..MaxSessions] /\ Id(n) \in PeerIds
        /\ curr[Id(n)] < MaxSessions /\ MaxSessions \in Nat
    BY ConstantsAssumption DEF Inv, TypeOK, Id, PeerIds, CreateSession, MaySession
  <1>2. /\ st \in Stamps /\ st[1] = Id(n) /\ st[2] = curr[Id(n)] + 1
    BY <1>1 DEF Stamps
  <1>3. curr' = [curr EXCEPT ![Id(n)] = curr[Id(n)] + 1]
    BY <1>1 DEF CreateSession
  <1>4. /\ curr' \in [PeerIds -> 0..MaxSessions]
        /\ \A id \in PeerIds : curr[id] <= curr'[id]
    BY <1>1, <1>3
  <1>5. IssuedBy(curr', st)
    BY <1>1, <1>2, <1>3 DEF IssuedBy
  <1>6. Set(n, st) /\ inc' = inc /\ latest' = latest /\ UNCHANGED connVars /\ faults' = faults
        /\ task' = [task EXCEPT ![s] = t]
    BY DEF CreateSession, Become
  <1>7. g \in Task /\ g.op = "created" /\ g.own = n /\ g.todo = {}
    BY GoroutineFields DEF Ops
  <1> HIDE DEF st, g
  <1>8. t \in Task /\ t.op = "created" /\ t.own = n /\ t.todo = {} /\ t.st = st
    BY <1>2, <1>7 DEF Task
  <1> HIDE DEF t
  <1>9. NodesTyped' /\ NodesGood' /\ (\A m \in Nodes : had[m] \subseteq had'[m]) /\ st \in had'[n]
    BY <1>2, <1>4, <1>5, <1>6, SetNodes
  <1>10. Good(t, had', curr')
    BY <1>2, <1>5, <1>8, <1>9 DEF Good, WithPeer
  <1>11. ConnsTyped'
    BY <1>6, InvParts DEF connVars, ConnsTyped
  <1> QED
    BY <1>4, <1>6, <1>9, <1>10, <1>11, GrowInv

\* Self.update after a login.
LEMMA NoteCreatedInv ==
  ASSUME Inv, NEW s \in Slots, NoteCreated(s) PROVE Inv'
  <1>1. /\ task[s] \in Task /\ task[s].op = "created" /\ Good(task[s], had, curr)
        /\ task[s].own \in Nodes /\ task[s].st \in had[task[s].own]
    BY DEF Inv, TypeOK, NoteCreated, Become, Good
  <1>2. Good(At(s, "noted"), had, curr)
    BY <1>1, AtFields DEF Good, WithSession, WithPeer, Ops
  <1>3. NodesTyped' /\ NodesGood'
    BY <1>1, NoteNodes DEF NoteCreated
  <1>4. ConnsTyped' /\ had' = had /\ curr' = curr
    BY InvParts DEF NoteCreated, connVars, ConnsTyped
  <1>5. \A id \in PeerIds : curr[id] <= curr[id]
    BY InvParts DEF NodesTyped
  <1> QED
    BY <1>2, <1>3, <1>4, <1>5, GrowInv DEF NoteCreated, Become

\* A push arrives.
LEMMA PushStoreInv ==
  ASSUME Inv, NEW s \in Slots, PushStore(s) PROVE Inv'
  <1>1. /\ task[s] \in Task /\ task[s].op = "push" /\ Good(task[s], had, curr)
        /\ task[s].own \in Nodes /\ task[s].peer \in Nodes
        /\ task[s].st \in Stamps /\ task[s].st # None /\ IssuedBy(curr, task[s].st)
    BY ConstantsAssumption DEF Inv, TypeOK, PushStore, Become, Good, WithSession, WithPeer, Ops
  <1>2. /\ Set(task[s].peer, task[s].st) /\ task' = [task EXCEPT ![s] = At(s, "pushed")]
        /\ inc' = inc /\ curr' = curr /\ latest' = latest
    BY DEF PushStore, Become
  <1>3. \A id \in PeerIds : curr[id] <= curr[id]
    BY InvParts DEF NodesTyped
  <1>4. /\ NodesTyped' /\ NodesGood' /\ (\A m \in Nodes : had[m] \subseteq had'[m])
        /\ task[s].st \in had'[task[s].peer]
    BY <1>1, <1>2, <1>3, SetNodes, InvParts DEF NodesTyped
  <1>5. Good(At(s, "pushed"), had', curr')
    BY <1>1, <1>2, <1>4, AtFields DEF Good, WithSession, WithPeer, Ops
  <1>6. ConnsTyped'
    BY InvParts DEF PushStore, connVars, ConnsTyped
  <1> QED
    BY <1>2, <1>3, <1>4, <1>5, <1>6, GrowInv

\* Self.update after a push, whose answer may be lost.
LEMMA PushNoteInv ==
  ASSUME Inv, NEW s \in Slots, PushNote(s) PROVE Inv'
  <1>1. /\ task[s] \in Task /\ task[s].op = "pushed" /\ Good(task[s], had, curr)
        /\ task[s].peer \in Nodes /\ task[s].st \in had[task[s].peer]
    BY DEF Inv, TypeOK, PushNote, Become, Good, WithPeer, Ops
  <1>2. NodesTyped' /\ NodesGood'
    BY <1>1, NoteNodes DEF PushNote
  <1>3. PICK t \in {Idle, Anew(s, "failed")} : task' = [task EXCEPT ![s] = t]
    BY DEF PushNote, Become
  <1>4. Good(t, had, curr)
    BY <1>1, <1>3, IdleGood, AnewGood DEF WithPeer, Ops
  <1>5. faults' \in Nat
    BY InvParts DEF PushNote, Fault, ConnsTyped
  <1>6. ConnsTyped' /\ had' = had /\ curr' = curr
    BY <1>5, InvParts DEF PushNote, connVars, ConnsTyped
  <1>7. \A id \in PeerIds : curr[id] <= curr[id]
    BY InvParts DEF NodesTyped
  <1> QED
    BY <1>2, <1>3, <1>4, <1>6, <1>7, GrowInv

\* A session of a stream is stored.
LEMMA StreamStoreInv ==
  ASSUME Inv, NEW s \in Slots, NEW st \in Stamps, StreamStore(s, st) PROVE Inv'
  <1> DEFINE t == [task[s] EXCEPT !.todo = @ \ {st}, !.st = st, !.left = @ \ {st[1]}]
  <1>1. /\ task[s] \in Task /\ task[s].op = "stream" /\ Good(task[s], had, curr)
        /\ task[s].own \in Nodes /\ task[s].peer \in Nodes
    BY DEF Inv, TypeOK, StreamStore, Become, Good, WithPeer, Ops
  <1>2. IssuedBy(curr, st)
    BY <1>1 DEF StreamStore, NextInStream, Offered, Good, Inv, NodesGood
  <1>3. /\ t \in Task /\ t.op = "stream" /\ t.own = task[s].own /\ t.peer = task[s].peer
        /\ t.st = st /\ t.todo = task[s].todo \ {st}
    BY <1>1 DEF Task
  <1>4. /\ Set(task[s].own, st) /\ task' = [task EXCEPT ![s] = t]
        /\ inc' = inc /\ curr' = curr /\ latest' = latest
    BY DEF StreamStore, Become
  <1> HIDE DEF t
  <1>5. \A id \in PeerIds : curr[id] <= curr[id]
    BY InvParts DEF NodesTyped
  <1>6. NodesTyped' /\ NodesGood' /\ \A m \in Nodes : had[m] \subseteq had'[m]
    BY <1>1, <1>2, <1>4, <1>5, SetNodes, InvParts DEF NodesTyped
  <1>7. Good(t, had', curr')
    BY <1>1, <1>2, <1>3, <1>4 DEF Good, WithSession
  <1>8. ConnsTyped'
    BY InvParts DEF StreamStore, connVars, ConnsTyped
  <1> QED
    BY <1>4, <1>5, <1>6, <1>7, <1>8, GrowInv

\* The cleaner removes a session.
LEMMA CleanInv ==
  ASSUME Inv, NEW n \in Nodes, NEW st \in Stamps, Clean(n, st) PROVE Inv'
  <1>1. store \in [Nodes -> SUBSET Stamps] /\ store' = [store EXCEPT ![n] = @ \ {st}]
    BY DEF Inv, TypeOK, Clean
  <1>2. /\ store' \in [Nodes -> SUBSET Stamps]
        /\ \A m \in Nodes : store'[m] \subseteq store[m]
    BY <1>1
  <1>3. UNCHANGED <<inc, curr, latest, had, connVars, task, faults>>
    BY DEF Clean
  <1>4. NodesTyped' /\ ConnsTyped'
    BY <1>2, <1>3, InvParts DEF NodesTyped, ConnsTyped, connVars
  <1>5. NodesGood'
    BY <1>2, <1>3 DEF Inv, NodesGood, IssuedBy, Tells
  <1>6. task' \in [Slots -> Task] /\ \A s \in Slots : Good(task'[s], had', curr')
    BY <1>3 DEF Inv, TypeOK
  <1> QED
    BY <1>4, <1>5, <1>6 DEF Inv, TypeOK, NodesTyped, ConnsTyped

\* A login is pushed on every connection.
LEMMA PushAllInv ==
  ASSUME Inv, NEW s \in Slots, PushAll(s) PROVE Inv'
  <1> DEFINE n == task[s].own
             Push(p) == [Goroutine("push", n, p) EXCEPT !.st = task[s].st]
  <1>1. /\ task[s] \in Task /\ task[s].op = "noted" /\ Good(task[s], had, curr)
        /\ n \in Nodes /\ task[s].st \in Stamps /\ task[s].st # None
        /\ IssuedBy(curr, task[s].st) /\ conns[n] \subseteq Nodes
    BY ConstantsAssumption DEF Inv, TypeOK, PushAll, Good, WithSession
  <1>2. ASSUME NEW p \in Nodes PROVE Good(Push(p), had, curr)
    <2> DEFINE g == Goroutine("push", n, p)
               t == [g EXCEPT !.st = task[s].st]
    <2>1. g \in Task /\ g.op = "push" /\ g.own = n /\ g.peer = p /\ g.todo = {}
      BY <1>1, GoroutineFields DEF Ops
    <2> HIDE DEF g
    <2>2. /\ t \in Task /\ t.op = "push" /\ t.own = n /\ t.peer = p /\ t.todo = {}
          /\ t.st = task[s].st
      BY <1>1, <2>1 DEF Task
    <2> HIDE DEF t
    <2>3. Good(t, had, curr)
      BY <1>1, <2>2 DEF Good, WithSession
    <2> QED
      BY <2>3 DEF t, g
  <1>3. PICK to \in Injection(conns[n], {s} \cup {r \in Slots : task[r].op = "idle"}) :
          task' = [r \in Slots |->
                     IF \E p \in conns[n] : to[p] = r
                     THEN Push(CHOOSE p \in conns[n] : to[p] = r)
                     ELSE IF r = s THEN Idle ELSE task[r]]
    BY Zenon DEF PushAll
  <1> HIDE DEF n, Push
  <1>4. ASSUME NEW r \in Slots PROVE Good(task'[r], had, curr)
    <2>1. CASE \E p \in conns[n] : to[p] = r
      <3>1. (CHOOSE p \in conns[n] : to[p] = r) \in Nodes
        BY <1>1, <2>1
      <3>2. task'[r] = Push(CHOOSE p \in conns[n] : to[p] = r)
        BY <1>3, <2>1
      <3> QED
        BY <1>2, <3>1, <3>2
    <2>2. CASE ~(\E p \in conns[n] : to[p] = r) /\ r = s
      BY <1>3, <2>2, IdleGood
    <2>3. CASE ~(\E p \in conns[n] : to[p] = r) /\ r # s
      <3>1. task'[r] = task[r]
        BY <1>3, <2>3
      <3> QED
        BY <3>1 DEF Inv
    <2> QED
      BY <2>1, <2>2, <2>3
  <1>5. \A r \in Slots : task'[r] \in Task
    BY <1>4 DEF Good
  <1>6. task' \in [Slots -> Task]
    BY <1>3, <1>5
  <1> QED
    BY <1>4, <1>6, StillInv, InvParts DEF PushAll, connVars, ConnsTyped

\* What becomes of the goroutine in slot s when the process at n is replaced.
AfterRestart(s, n) ==
    LET Cut(t) == t.peer = n /\ t.op \in {"push", "pushed", "request", "connected", "accepted",
                                            "ask", "stream"}
        Orphan(t) == t.ctx \in Slots /\ task[t.ctx].own = n
        t == IF Cut(task[s]) THEN Anew(s, "failed") ELSE task[s]
    IN IF t.own = n THEN Idle ELSE IF Orphan(t) THEN [t EXCEPT !.ctx = "done"] ELSE t

\* A process is replaced: the new one has nothing, and nothing of the old one
\* is left but failed RPCs.
LEMMA RestartInv ==
  ASSUME Inv, NEW n \in Nodes, Restart(n) PROVE Inv'
  <1>1. ASSUME NEW s \in Slots PROVE Good(AfterRestart(s, n), had, curr)
    <2> DEFINE cut == task[s].peer = n
                      /\ task[s].op \in {"push", "pushed", "request", "connected", "accepted",
                                            "ask", "stream"}
               t == IF cut THEN Anew(s, "failed") ELSE task[s]
    <2>1. Good(t, had, curr)
      <3>1. Good(task[s], had, curr)
        BY DEF Inv
      <3>2. cut => task[s].op \in WithPeer
        BY DEF WithPeer, Ops
      <3> QED
        BY <3>1, <3>2, AnewGood
    <2>2. \/ AfterRestart(s, n) = Idle
          \/ AfterRestart(s, n) = [t EXCEPT !.ctx = "done"]
          \/ AfterRestart(s, n) = t
      BY DEF AfterRestart
    <2> HIDE DEF t
    <2> QED
      BY <2>1, <2>2, IdleGood, DoneGood
  <1>2. task' = [s \in Slots |-> AfterRestart(s, n)]
    BY DEF Restart, AfterRestart
  <1>3. task' \in [Slots -> Task] /\ \A s \in Slots : Good(task'[s], had, curr)
    <2>1. \A s \in Slots : AfterRestart(s, n) \in Task
      BY <1>1 DEF Good
    <2> QED
      BY <1>1, <1>2, <2>1
  <1>4. NodesTyped'
    <2>1. NoLatest \in Latest
      BY ConstantsAssumption DEF NoLatest, Latest
    <2>2. inc' \in [Nodes -> 0..MaxInc]
      BY ConstantsAssumption, InvParts DEF NodesTyped, Restart
    <2> QED
      BY <2>1, <2>2, InvParts DEF NodesTyped, Restart
  <1>5. NodesGood'
    <2>1. Tells(had[n], NoLatest)
      BY DEF Tells, NoLatest
    <2>2. \A m \in Nodes : store'[m] \subseteq had[m]
      BY InvParts DEF NodesTyped, NodesGood, Restart
    <2>3. \A m \in Nodes : Tells(had[m], latest'[m])
      BY <2>1, InvParts DEF NodesTyped, NodesGood, Restart
    <2>4. had' = had /\ curr' = curr
      BY DEF Restart
    <2> QED
      BY <2>2, <2>3, <2>4 DEF Inv, NodesGood
  <1>6. ConnsTyped'
    <2>1. \E C : late' = [Late(C) EXCEPT ![n] = {}] /\ live' = [Live(C) EXCEPT ![n] = {}]
      BY DEF Restart
    <2>2. late' \in [Nodes -> SUBSET Nodes] /\ live' \in [Nodes -> SUBSET Nodes]
      BY <2>1, FlagsTyped, InvParts
    <2>3. /\ conns' \in [Nodes -> SUBSET Nodes] /\ spent' \in [Nodes -> SUBSET Nodes]
          /\ faults' \in Nat
      BY InvParts DEF ConnsTyped, Restart
    <2> QED
      BY <2>2, <2>3 DEF ConnsTyped
  <1>7. had' = had /\ curr' = curr
    BY DEF Restart
  <1> QED
    BY <1>3, <1>4, <1>5, <1>6, <1>7 DEF Inv, TypeOK, NodesTyped, ConnsTyped

-----------------------------------------------------------------------------
(* The specification *)

\* Processes start with nothing.
LEMMA InitInv == Init => Inv
  <1> SUFFICES ASSUME Init PROVE Inv
    OBVIOUS
  <1>1. NoLatest \in Latest
    BY ConstantsAssumption DEF NoLatest, Latest
  <1>2. NodesTyped
    BY <1>1, ConstantsAssumption DEF Init, NodesTyped
  <1>3. ConnsTyped
    BY DEF Init, ConnsTyped
  <1>4. NodesGood
    BY DEF Init, NodesGood, Tells, NoLatest
  <1>5. task \in [Slots -> Task] /\ \A s \in Slots : Good(task[s], had, curr)
    BY IdleGood, IdleFields DEF Init
  <1> QED
    BY <1>2, <1>3, <1>4, <1>5, InvParts

\* One step per action.
LEMMA NextInv == Inv /\ [Next]_vars => Inv'
  <1> SUFFICES ASSUME Inv, [Next]_vars PROVE Inv'
    OBVIOUS
  <1>1. CASE UNCHANGED vars
    BY <1>1, StillInv, InvParts DEF vars, nodeVars, connVars, ConnsTyped
  <1>2. ASSUME NEW s \in Slots, TaskStep(s) \/ RpcFails(s) PROVE Inv'
    BY <1>2, NoteCreatedInv, PushAllInv, PushStoreInv, PushRefusedInv, PushNoteInv,
       HandshakeSendInv, HandshakeConnectInv, HandshakeAcceptInv, HandshakeReplyInv,
       UpdateInv, StreamRequestInv, StreamOpenInv, StreamStoreInv, StreamOverInv, FailsInv, ReestablishInv
    DEF TaskStep
  <1>3. ASSUME NEW s \in Slots, NEW n \in Issuers, CreateSession(s, n) PROVE Inv'
    BY <1>3, CreateSessionInv, ConstantsAssumption
  <1>4. CASE Updates
    BY <1>4, UpdateFailedInv DEF Updates
  <1>5. ASSUME NEW n \in Seekers, Worker(n) PROVE Inv'
    BY <1>5, ConnectInv, ConstantsAssumption DEF Worker
  <1>6. ASSUME NEW n \in Nodes, Restart(n) PROVE Inv'
    BY <1>6, RestartInv
  <1>7. ASSUME NEW n \in Cleaners, NEW st \in Stamps, Clean(n, st) PROVE Inv'
    BY <1>7, CleanInv, ConstantsAssumption
  <1> QED
    BY <1>1, <1>2, <1>3, <1>4, <1>5, <1>6, <1>7 DEF Next

\* The invariant holds in every state of the specification.
THEOREM Invariance == Spec => []Inv
  BY InitInv, NextInv, PTL DEF Spec

\* Every node, connection and goroutine has the state Replication gives it,
\* whatever fails and restarts.
THEOREM TypeCorrect == Spec => []TypeOK
  <1>1. Inv => TypeOK
    BY DEF Inv
  <1> QED
    BY <1>1, Invariance, PTL

\* No store, push or stream ever has a session with a serial its issuer did
\* not hand out.
THEOREM NothingInvented == Spec => []OnlyIssued
  <1>1. Inv => OnlyIssued
    BY DEF Inv, NodesGood, Good, OnlyIssued, Issued, IssuedBy
  <1> QED
    BY <1>1, Invariance, PTL

\* What a node reports of itself in a handshake it has stored, and so has the
\* peer whose report a goroutine compares with.
THEOREM ReportsTrue == Spec => []ReportHeld
  <1>1. Inv => ReportHeld
    BY DEF Inv, NodesGood, Good, ReportHeld, Held, Tells
  <1> QED
    BY <1>1, Invariance, PTL

=============================================================================
