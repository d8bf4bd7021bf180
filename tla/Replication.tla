---------------------------- MODULE Replication ----------------------------
(***************************************************************************)
(* Replication of sessions between the nodes of a static peer list          *)
(* (package replication, with the session store as the SessionLog contract).*)
(*                                                                          *)
(* Every goroutine and every RPC in flight occupies a slot: a task record   *)
(* says where it is (op), which node runs it, about which peer, and what it *)
(* carries.  A step is what a goroutine does between two points where       *)
(* another one can intervene: one critical section, or one message.         *)
(***************************************************************************)
EXTENDS Integers, FiniteSets, Functions

CONSTANTS
    Nodes,      \* the endpoints of the peer list
    Slots,      \* bound on goroutines and RPCs in flight
    MaxSessions, \* bound on sessions
    MaxInc,     \* bound on restarts of a node
    MaxTroubles, \* bound on restarts and on RPCs that fail in transport
    Issuers,    \* the nodes that get logins
    Seekers,    \* the nodes whose endpoint lookup finds the others
    Laggards,   \* the nodes where update may be slow to assign live
    Cleaners,   \* the nodes whose cleaner removes sessions
    None

PeerIds == Nodes \X (0..MaxInc)      \* NewPeerId: a fresh id for every process
Stamps == PeerIds \X (1..MaxSessions)
Latest == [PeerIds -> 0..MaxSessions]

ASSUME ConstantsAssumption ==
    /\ MaxSessions \in Nat /\ MaxInc \in Nat /\ MaxTroubles \in Nat
    /\ Issuers \cup Seekers \cup Laggards \cup Cleaners \subseteq Nodes
    /\ None \notin Nodes \cup Stamps

VARIABLES
    inc,     \* how often each node has restarted
    curr,    \* sessionStore.curr of the process with each peer id
    store,   \* the stamps of the sessions each node holds
    latest,  \* Self.latest
    conns,   \* Peers.conns: the endpoints each node has a connection for
    live,    \* the connections whose live flag is set
    late,    \* the connections with a failed update still to clear live
    spent,   \* the connections whose once has fired
    task,    \* what runs in each slot
    faults,  \* transport faults so far
    had      \* (history) every session each node ever stored

nodeVars == <<inc, curr, store, latest, had>>
connVars == <<conns, live, late, spent>>
vars == <<nodeVars, connVars, task, faults>>

Id(n) == <<n, inc[n]>>
NoLatest == [id \in PeerIds |-> 0]
Idle == [op |-> "idle", own |-> None, peer |-> None, ctx |-> "bg", st |-> None,
         lat |-> NoLatest, todo |-> {}, left |-> {}]
Goroutine(op, n, p) == [Idle EXCEPT !.op = op, !.own = n, !.peer = p]

\* The goroutine in slot s, at op, goes on as t.
Become(s, op, t) == task[s].op = op /\ task' = [task EXCEPT ![s] = t]
At(s, op) == [task[s] EXCEPT !.op = op]
\* The same, when what it carried is of no more use to it.
Anew(s, op) == [Goroutine(op, task[s].own, task[s].peer) EXCEPT !.ctx = task[s].ctx]

\* The RPC in slot s ends and its goroutine goes on as t.  What the server
\* started with the context of the RPC (ctx = s) is left with a done context.
Answered(s, t) ==
    task' = [r \in Slots |-> IF r = s THEN t
                             ELSE IF task[r].ctx = s THEN [task[r] EXCEPT !.ctx = "done"]
                             ELSE task[r]]

Init ==
    /\ inc = [n \in Nodes |-> 0]
    /\ curr = [id \in PeerIds |-> 0]
    /\ store = [n \in Nodes |-> {}]
    /\ latest = [n \in Nodes |-> NoLatest]
    /\ conns = [n \in Nodes |-> {}]
    /\ live = [n \in Nodes |-> {}]
    /\ late = [n \in Nodes |-> {}]
    /\ spent = [n \in Nodes |-> {}]
    /\ task = [s \in Slots |-> Idle]
    /\ faults = 0
    /\ had = [n \in Nodes |-> {}]

Troubles == faults + FoldFunction(+, 0, inc)
Fault == Troubles < MaxTroubles /\ faults' = faults + 1

-----------------------------------------------------------------------------
(* The session store, as SessionLog describes it *)

Newest(n, st) == \A e \in store[n] : e[1] = st[1] => e[2] < st[2]
Set(n, st) ==
    /\ store' = [store EXCEPT ![n] = @ \cup {st}]
    /\ had' = [had EXCEPT ![n] = @ \cup {st}]

\* Faulty: only the sessions above from.
Offered_After(n, from) == {st \in store[n] : st[2] > from[st[1]]}

\* Stream(from) sends the sessions at or above from (store.go:113).
Offered(n, from) == {st \in store[n] : st[2] >= from[st[1]]}
Streaming(n) == \E s \in Slots : task[s].op = "stream" /\ task[s].peer = n

\* The cleaner; it waits while the store is being streamed.
Clean(n, st) ==
    /\ st \in store[n]
    /\ ~Streaming(n)
    /\ store' = [store EXCEPT ![n] = @ \ {st}]
    /\ UNCHANGED <<inc, curr, latest, had, connVars, task, faults>>

\* Faulty: the next serial is noted.
Noted_Next(lat, st) == IF lat[st[1]] < st[2] THEN [lat EXCEPT ![st[1]] = st[2] + 1] ELSE lat

\* Self.update
Noted(lat, st) == IF lat[st[1]] < st[2] THEN [lat EXCEPT ![st[1]] = st[2]] ELSE lat

-----------------------------------------------------------------------------
(* A login: auth's setToken stores a session and calls Client.SetSession *)

\* The bound on the sessions of a process, and of all.
MaySession(n) == curr[Id(n)] < MaxSessions /\ FoldFunction(+, 0, curr) < MaxSessions

\* Faulty: curr stays behind the serial handed out.
CreateSession_KeepsCurr(s, n) ==
    LET st == <<Id(n), curr[Id(n)] + 1>>
    IN /\ MaySession(n)
       /\ Become(s, "idle", [Goroutine("created", n, None) EXCEPT !.st = st])
       /\ Set(n, st)
       /\ UNCHANGED <<inc, curr, latest, connVars, faults>>

CreateSession(s, n) ==
    LET st == <<Id(n), curr[Id(n)] + 1>>
    IN /\ MaySession(n)
       /\ Become(s, "idle", [Goroutine("created", n, None) EXCEPT !.st = st])
       /\ curr' = [curr EXCEPT ![Id(n)] = @ + 1]
       /\ Set(n, st)
       /\ UNCHANGED <<inc, latest, connVars, faults>>

NoteCreated(s) ==
    /\ Become(s, "created", At(s, "noted"))
    /\ latest' = [latest EXCEPT ![task[s].own] = Noted(@, task[s].st)]
    /\ UNCHANGED <<inc, curr, store, had, connVars, faults>>

\* Faulty: only to connections that are live.
PushAll_Live(s) ==
    LET n == task[s].own
        Push(p) == [Goroutine("push", n, p) EXCEPT !.st = task[s].st]
        to == conns[n] \cap live[n]
    IN /\ task[s].op = "noted"
       /\ \E at \in Injection(to, {s} \cup {r \in Slots : task[r].op = "idle"}) :
            task' = [r \in Slots |->
                       IF \E p \in to : at[p] = r
                       THEN Push(CHOOSE p \in to : at[p] = r)
                       ELSE IF r = s THEN Idle ELSE task[r]]
       /\ UNCHANGED <<nodeVars, connVars, faults>>

\* getConnections, and go conn.setSession for each of them.
PushAll(s) ==
    LET n == task[s].own
        Push(p) == [Goroutine("push", n, p) EXCEPT !.st = task[s].st]
    IN /\ task[s].op = "noted"
       /\ \E to \in Injection(conns[n], {s} \cup {r \in Slots : task[r].op = "idle"}) :
            task' = [r \in Slots |->
                       IF \E p \in conns[n] : to[p] = r
                       THEN Push(CHOOSE p \in conns[n] : to[p] = r)
                       ELSE IF r = s THEN Idle ELSE task[r]]
       /\ UNCHANGED <<nodeVars, connVars, faults>>

\* Server.SetSession at the peer: Set, then Self.update.
PushStore(s) ==
    /\ Become(s, "push", At(s, "pushed"))
    /\ Newest(task[s].peer, task[s].st)
    /\ Set(task[s].peer, task[s].st)
    /\ UNCHANGED <<inc, curr, latest, connVars, faults>>

PushRefused(s) ==
    /\ Become(s, "push", Anew(s, "failed"))
    /\ ~Newest(task[s].peer, task[s].st)
    /\ UNCHANGED <<nodeVars, connVars, faults>>

\* The answer may be lost.
PushNote(s) ==
    /\ \/ Become(s, "pushed", Idle) /\ UNCHANGED faults
       \/ Become(s, "pushed", Anew(s, "failed")) /\ Fault
    /\ latest' = [latest EXCEPT ![task[s].peer] = Noted(@, task[s].st)]
    /\ UNCHANGED <<inc, curr, store, had, connVars>>

-----------------------------------------------------------------------------
(* Handshake *)

\* getConnection by the worker's refresh: newConnection starts a handshake.
Connect(s, n, p) ==
    /\ p # n /\ p \notin conns[n]
    /\ Become(s, "idle", Goroutine("shake", n, p))
    /\ conns' = [conns EXCEPT ![n] = @ \cup {p}]
    /\ UNCHANGED <<nodeVars, live, late, spent, faults>>

HandshakeSend(s) ==
    /\ Become(s, "shake", [At(s, "request") EXCEPT !.lat = latest[task[s].own]])
    /\ UNCHANGED <<nodeVars, connVars, faults>>

\* Faulty: the server does not connect back.
HandshakeConnect_OneWay(s, r) ==
    /\ Become(s, "request", At(s, "connected"))
    /\ task[s].ctx # "done"
    /\ UNCHANGED <<nodeVars, connVars, faults>>

\* Server.Handshake begins with getConnection: the peer connects back if it has
\* not, and the new connection starts a handshake of its own.
HandshakeConnect(s, r) ==
    LET n == task[s].own
        p == task[s].peer
    IN /\ task[s].op = "request" /\ task[s].ctx # "done"
       /\ \/ /\ n \notin conns[p]
             /\ r # s /\ task[r].op = "idle"
             /\ conns' = [conns EXCEPT ![p] = @ \cup {n}]
             /\ task' = [task EXCEPT ![s] = At(s, "connected"), ![r] = Goroutine("shake", p, n)]
          \/ /\ n \in conns[p]
             /\ r = s
             /\ task' = [task EXCEPT ![s] = At(s, "connected")]
             /\ UNCHANGED conns
       /\ UNCHANGED <<nodeVars, live, late, spent, faults>>

\* If that connection is live by now, a goroutine looks for news of the peer.
\* It runs with the context of the RPC, which ends when the RPC is answered.
HandshakeAccept(s, r) ==
    LET n == task[s].own
        p == task[s].peer
        update == [Goroutine("update", p, n) EXCEPT !.ctx = s, !.lat = task[s].lat]
    IN /\ task[s].op = "connected" /\ task[s].ctx # "done"
       /\ \/ /\ n \in live[p]
             /\ r # s /\ task[r].op = "idle"
             /\ task' = [task EXCEPT ![s] = Anew(s, "accepted"), ![r] = update]
          \/ /\ n \notin live[p]
             /\ r = s
             /\ task' = [task EXCEPT ![s] = Anew(s, "accepted")]
       /\ UNCHANGED <<nodeVars, connVars, faults>>

\* Faulty: the server answers with what the request told it.
HandshakeReply_Echo(s) ==
    /\ task[s].op = "accepted"
    /\ LET p == task[s].peer
       IN Answered(s, [At(s, "update") EXCEPT !.lat = latest[task[s].own], !.left = {Id(p)}])
    /\ UNCHANGED <<nodeVars, connVars, faults>>

\* The answer: the peer's latest and its id.
HandshakeReply(s) ==
    /\ task[s].op = "accepted"
    /\ LET p == task[s].peer
       IN Answered(s, [At(s, "update") EXCEPT !.lat = latest[p], !.left = {Id(p)}])
    /\ UNCHANGED <<nodeVars, connVars, faults>>

-----------------------------------------------------------------------------
(* update and streamSessions *)

NeedsUpdate(n, lat) == \E id \in PeerIds : latest[n][id] < lat[id]

UpdateNone(s) ==
    /\ Become(s, "update", Idle)
    /\ ~NeedsUpdate(task[s].own, task[s].lat)
    /\ live' = [live EXCEPT ![task[s].own] = @ \cup {task[s].peer}]
    /\ UNCHANGED <<nodeVars, conns, late, spent, faults>>

UpdateNeeded(s) ==
    /\ Become(s, "update", Anew(s, "behind"))
    /\ NeedsUpdate(task[s].own, task[s].lat)
    /\ UNCHANGED <<nodeVars, connVars, faults>>

StreamRequest(s) ==
    /\ Become(s, "behind", [At(s, "ask") EXCEPT !.lat = latest[task[s].own]])
    /\ UNCHANGED <<nodeVars, connVars, faults>>

\* Server.StreamSessions at the peer.
StreamOpen(s) ==
    LET p == task[s].peer
    IN /\ task[s].ctx # "done"
       /\ Become(s, "ask", [At(s, "stream") EXCEPT
            !.todo = Offered(p, task[s].lat), !.left = {st[1] : st \in store[p]}])
       /\ UNCHANGED <<nodeVars, connVars, faults>>

\* The stream goes through the lists one after the other, each in order.  It
\* may also see what is appended to a list it has not finished.
Visiting(t, id) == id \in t.left \/ (t.st # None /\ t.st[1] = id)
NextInStream(t, st) ==
    /\ st \in t.todo \/ (st \in Offered(t.peer, t.lat) /\ \A e \in t.todo : e[1] # st[1])
    /\ \A e \in t.todo : e[1] = st[1] => st[2] <= e[2]
    /\ Visiting(t, st[1])
    /\ t.st # None => /\ t.st[1] = st[1] => t.st[2] < st[2]
                      /\ t.st[1] # st[1] => \A e \in t.todo : e[1] # t.st[1]

StreamStore(s, st) ==
    /\ Become(s, "stream", [task[s] EXCEPT
         !.todo = @ \ {st}, !.st = st, !.left = @ \ {st[1]}])
    /\ NextInStream(task[s], st)
    /\ Newest(task[s].own, st)
    /\ Set(task[s].own, st)
    /\ UNCHANGED <<inc, curr, latest, connVars, faults>>

\* streamSessions starts reestablish and returns false; by the time update
\* assigns that to live the connection may be live again.
Late(C) == [n \in Nodes |-> late[n] \cup {p \in Nodes : n \in Laggards /\ <<n, p>> \in C}]
Live(C) == [n \in Nodes |-> live[n] \ {p \in Nodes : n \notin Laggards /\ <<n, p>> \in C}]

StreamRefused(s, st) ==
    /\ Become(s, "stream", Anew(s, "failed"))
    /\ NextInStream(task[s], st)
    /\ ~Newest(task[s].own, st)
    /\ late' = Late({<<task[s].own, task[s].peer>>})
    /\ live' = Live({<<task[s].own, task[s].peer>>})
    /\ UNCHANGED <<nodeVars, conns, spent, faults>>

UpdateFailed(n, p) ==
    /\ p \in late[n]
    /\ late' = [late EXCEPT ![n] = @ \ {p}]
    /\ live' = [live EXCEPT ![n] = @ \ {p}]
    /\ UNCHANGED <<nodeVars, conns, spent, task, faults>>

StreamEnd(s) ==
    /\ Become(s, "stream", Idle)
    /\ task[s].todo = {}
    /\ live' = [live EXCEPT ![task[s].own] = @ \cup {task[s].peer}]
    /\ UNCHANGED <<nodeVars, conns, late, spent, faults>>

-----------------------------------------------------------------------------
(* Failure and reestablish *)

\* An RPC that fails sends its goroutine to reestablish, and update learns of
\* it when the RPC is a stream.
Streams(S) == {<<task[s].own, task[s].peer>> : s \in {r \in S : task[r].op \in {"ask", "stream"}}}
Fails(s, op) ==
    /\ Answered(s, Anew(s, op))
    /\ late' = Late(Streams({s}))
    /\ live' = Live(Streams({s}))
    /\ UNCHANGED <<nodeVars, conns, spent>>

RpcFails(s) ==
    /\ task[s].op \in {"push", "request", "connected", "accepted", "ask", "stream"}
    /\ Fault
    /\ Fails(s, "failed")

RpcCanceled(s) ==
    /\ task[s].op \in {"request", "connected", "accepted", "ask", "stream"}
    /\ task[s].ctx = "done"
    /\ UNCHANGED faults
    /\ Fails(s, "canceled")

ReestablishSkip(s) ==
    /\ task[s].op \in {"failed", "canceled"}
    /\ task[s].peer \in spent[task[s].own]
    /\ task' = [task EXCEPT ![s] = Idle]
    /\ UNCHANGED <<nodeVars, connVars, faults>>

\* Faulty: without the once.
Reestablish_Unguarded(s) ==
    /\ task[s].op \in {"failed", "canceled"}
    /\ task' = [task EXCEPT ![s] =
         IF @.op = "canceled" THEN Idle ELSE Anew(s, "wait")]
    /\ spent' = [spent EXCEPT ![task[s].own] = @ \cup {task[s].peer}]
    /\ live' = [live EXCEPT ![task[s].own] = @ \ {task[s].peer}]
    /\ UNCHANGED <<nodeVars, conns, late, faults>>

Reestablish(s) ==
    /\ task[s].op \in {"failed", "canceled"}
    /\ task[s].peer \notin spent[task[s].own]
    /\ task' = [task EXCEPT ![s] =
         IF @.op = "canceled" THEN Idle ELSE Anew(s, "wait")]
    /\ spent' = [spent EXCEPT ![task[s].own] = @ \cup {task[s].peer}]
    /\ live' = [live EXCEPT ![task[s].own] = @ \ {task[s].peer}]
    /\ UNCHANGED <<nodeVars, conns, late, faults>>

\* Faulty: the once is not renewed.
Recover_KeepsOnce(s) ==
    /\ Become(s, "wait", At(s, "shake"))
    /\ UNCHANGED <<nodeVars, connVars, faults>>

Recover(s) ==
    /\ Become(s, "wait", At(s, "shake"))
    /\ spent' = [spent EXCEPT ![task[s].own] = @ \ {task[s].peer}]
    /\ UNCHANGED <<nodeVars, conns, live, late, faults>>

\* The process at n is replaced by a new one, with a new peer id and nothing
\* in memory; RPCs it took part in fail.
Restart(n) ==
    /\ inc[n] < MaxInc /\ Troubles < MaxTroubles
    /\ inc' = [inc EXCEPT ![n] = @ + 1]
    /\ store' = [store EXCEPT ![n] = {}]
    /\ latest' = [latest EXCEPT ![n] = NoLatest]
    /\ conns' = [conns EXCEPT ![n] = {}]
    /\ spent' = [spent EXCEPT ![n] = {}]
    /\ LET Broken(t) == t.peer = n /\ t.op \in {"push", "pushed", "request", "connected",
                                             "accepted", "ask", "stream"}
           Orphan(t) == t.ctx \in Slots /\ task[t.ctx].own = n
           cuts == {s \in Slots : task[s].peer = n}
       IN /\ task' = [s \in Slots |->
                LET t == IF Broken(task[s]) THEN Anew(s, "failed") ELSE task[s]
                IN IF t.own = n THEN Idle
                   ELSE IF Orphan(t) THEN [t EXCEPT !.ctx = "done"] ELSE t]
          /\ late' = [Late(Streams(cuts)) EXCEPT ![n] = {}]
          /\ live' = [Live(Streams(cuts)) EXCEPT ![n] = {}]
    /\ UNCHANGED <<curr, had, faults>>

-----------------------------------------------------------------------------
TaskStep(s) ==
    \/ NoteCreated(s) \/ PushAll(s)
    \/ PushStore(s) \/ PushRefused(s) \/ PushNote(s)
    \/ HandshakeSend(s) \/ HandshakeReply(s)
    \/ (\E r \in Slots : HandshakeConnect(s, r) \/ HandshakeAccept(s, r))
    \/ UpdateNone(s) \/ UpdateNeeded(s) \/ StreamRequest(s) \/ StreamOpen(s)
    \/ (\E st \in Stamps : StreamStore(s, st) \/ StreamRefused(s, st)) \/ StreamEnd(s)
    \/ RpcCanceled(s) \/ ReestablishSkip(s) \/ Reestablish(s) \/ Recover(s)
Updates == \E n, p \in Nodes : UpdateFailed(n, p)
Worker(n) == \E s \in Slots, p \in Nodes : Connect(s, n, p)

Next ==
    \/ \E s \in Slots : TaskStep(s) \/ RpcFails(s)
    \/ \E s \in Slots, n \in Issuers : CreateSession(s, n)
    \/ Updates
    \/ \E n \in Seekers : Worker(n)
    \/ \E n \in Nodes : Restart(n)
    \/ \E n \in Cleaners, st \in Stamps : Clean(n, st)

Spec == Init /\ [][Next]_vars

\* Goroutines run, RPCs are answered or fail, the worker's ticker ticks, and
\* Go's random order of map iteration puts every list first now and then.
Fairness ==
    /\ \A s \in Slots : WF_vars(TaskStep(s))
    /\ WF_vars(Updates)
    /\ \A n \in Seekers : WF_vars(Worker(n))
    /\ \A st \in Stamps : SF_vars(\E s \in Slots : StreamStore(s, st))
FairSpec == Spec /\ Fairness

-----------------------------------------------------------------------------
(* Properties *)

Ops == {"idle", "created", "noted", "push", "pushed", "shake", "request", "connected",
        "accepted", "update", "behind", "ask", "stream", "failed", "canceled", "wait"}
Task == [op : Ops, own : Nodes \cup {None}, peer : Nodes \cup {None},
         ctx : Slots \cup {"bg", "done"}, st : Stamps \cup {None}, lat : Latest,
         todo : SUBSET Stamps, left : SUBSET PeerIds]

\* The shape of every node's state and of every goroutine's.
TypeOK ==
    /\ inc \in [Nodes -> 0..MaxInc]
    /\ curr \in [PeerIds -> 0..MaxSessions]
    /\ store \in [Nodes -> SUBSET Stamps]
    /\ latest \in [Nodes -> Latest]
    /\ conns \in [Nodes -> SUBSET Nodes]
    /\ live \in [Nodes -> SUBSET Nodes]
    /\ late \in [Nodes -> SUBSET Nodes]
    /\ spent \in [Nodes -> SUBSET Nodes]
    /\ task \in [Slots -> Task]
    /\ faults \in Nat
    /\ had \in [Nodes -> SUBSET Stamps]

\* Nothing is replicated that was not issued: however sessions travel, in
\* pushes, streams and back to their issuer, none is ahead of its issuer's
\* curr.  It is what SessionStore assumes of the callers of Set.
Issued(st) == st[2] <= curr[st[1]]
OnlyIssued ==
    /\ \A n \in Nodes : \A st \in store[n] : Issued(st)
    /\ \A s \in Slots : task[s].st # None => Issued(task[s].st)
    /\ \A s \in Slots : \A st \in task[s].todo : Issued(st)

\* What a node reports as its latest session of a peer, now or in a handshake
\* still under way, is a session it has stored.
Held(n, lat) == \A id \in PeerIds : lat[id] > 0 => <<id, lat[id]>> \in had[n]
ReportHeld ==
    /\ \A n \in Nodes : Held(n, latest[n])
    /\ \A s \in Slots : task[s].op = "update" => Held(task[s].peer, task[s].lat)

\* No session falls between a handshake and the pushes: if the answer of a
\* handshake is older than a session of the answering node, then this node has
\* had that session or a later one, or a push of it is still to come.  (Only
\* a fault of the transport can make a difference.)
Coming(st, n) ==
    \/ \E e \in had[n] : e[1] = st[1] /\ e[2] >= st[2]
    \/ \E r \in Slots : /\ task[r].st = st
                        /\ \/ task[r].op \in {"created", "noted"}
                           \/ task[r].op = "push" /\ task[r].peer = n
JoinGapFree ==
    \A s \in Slots :
        LET t == task[s]
        IN faults = 0 /\ t.op = "update" /\ Id(t.peer) \in t.left =>
             \A k \in (t.lat[Id(t.peer)] + 1)..curr[Id(t.peer)] :
                 Coming(<<Id(t.peer), k>>, t.own)

\* The once of a connection admits one goroutine at a time to wait for the
\* transport and to start the next handshake.
OneReestablisher ==
    \A s, r \in Slots :
        task[s].op = "wait" /\ task[r].op = "wait" /\ s # r
            => task[s].own # task[r].own \/ task[s].peer # task[r].peer

\* When nothing fails or expires, the last session of every node ends up on
\* every node, although pushes and streams of it overtake and refuse each
\* other and updates are canceled, with two exceptions.  Two logins that are
\* pushed in the reverse order may go to different connections; and a session
\* that a stream has brought is not noted, so that the next stream begins with
\* it again, and is given up because it is already there.
Overtaken(id) ==
    \E s, r \in Slots : /\ s # r
                        /\ task[s].op \in {"created", "noted"} /\ task[s].st[1] = id
                        /\ task[r].op \in {"created", "noted"} /\ task[r].st[1] = id
Streamed(n, id) == \E st \in store[n] : st[1] = id /\ st[2] > latest[n][id]
NewestHeld(n, id) == curr[id] > 0 => <<id, curr[id]>> \in store[n]
NewestArrives ==
    \A id \in PeerIds :
        []~Overtaken(id) => <>[](\A n \in Nodes : NewestHeld(n, id) \/ Streamed(n, id))

\* A session that is missed once is missed for good: when a node has noted a
\* session that all others have too, has not got the newest one, and no push of
\* it is on its way, then no stream brings it, until the next login is pushed.
\* Each begins with the session noted, and is given up because of it.
HeldUp(n, id) ==
    /\ ~NewestHeld(n, id)
    /\ latest[n][id] > 0
    /\ \A p \in Nodes : <<id, latest[n][id]>> \in store[p]
    /\ \A s \in Slots : task[s].st = <<id, curr[id]>> =>
         \/ task[s].op \in {"pushed", "stream"}
         \/ task[s].op = "push" /\ task[s].peer # n
HeldUpForever ==
    [][\A n \in Nodes, id \in PeerIds :
         HeldUp(n, id) => HeldUp(n, id)' \/ curr'[id] > curr[id]]_vars

-----------------------------------------------------------------------------
(* What the program says of itself in its log and does not keep *)

\* "Disconnected from peer": reestablish leaves a connection alone only when
\* it has been dropped from the peer list; otherwise the goroutine that used
\* up its once is still there to reconnect.
GivesUpOnlyDisconnected ==
    \A n \in Nodes : \A p \in spent[n] \cap conns[n] :
        \E s \in Slots : task[s].op = "wait" /\ task[s].own = n /\ task[s].peer = p
=============================================================================
