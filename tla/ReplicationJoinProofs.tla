----------------------- MODULE ReplicationJoinProofs -----------------------
(***************************************************************************)
(* More proofs about Replication: that no session falls between a handshake *)
(* and the pushes, that the once of a connection admits one goroutine at a  *)
(* time, and that nodes use their session stores as SessionLog describes.   *)
(***************************************************************************)
EXTENDS ReplicationProofs

\* No process that is still to come has issued anything.
Unborn == \A n \in Nodes, i \in 0..MaxInc : i > inc[n] => curr[<<n, i>>] = 0

\* A process has noted the sessions it issued, but for those of logins whose
\* goroutine is about to.
Unnoted ==
    \A n \in Nodes : \A k \in (latest[n][Id(n)] + 1)..curr[Id(n)] :
        \E r \in Slots : task[r].op = "created" /\ task[r].st = <<Id(n), k>>

\* Logins and pushes are of sessions the process issued that runs them: they
\* die with it.
OwnSession(t) == t.op \in {"created", "noted", "push"} => t.st[1] = Id(t.own)

\* Who accepts a handshake has a connection back, and has it as long as it is
\* the process that answers.
ConnectsBack(t) ==
    /\ t.op \in {"connected", "accepted"} => t.own \in conns[t.peer]
    /\ t.op = "update" /\ Id(t.peer) \in t.left => t.own \in conns[t.peer]

\* The ids in answers are those of processes that have run.
Born(t) == t.op = "update" => \A id \in t.left : id[2] <= inc[id[1]]

\* Coming, in terms of what nodes have had and of the goroutines.
Arrives(st, n, h, tasks) ==
    \/ \E e \in h[n] : e[1] = st[1] /\ e[2] >= st[2]
    \/ \E r \in Slots : /\ tasks[r].st = st
                        /\ \/ tasks[r].op \in {"created", "noted"}
                           \/ tasks[r].op = "push" /\ tasks[r].peer = n

Joins(t) == OwnSession(t) /\ ConnectsBack(t) /\ Born(t)

JoinInv == Unborn /\ Unnoted /\ (\A s \in Slots : Joins(task[s])) /\ JoinGapFree

-----------------------------------------------------------------------------
(* What a step does to the goroutines *)

\* As before, but for the context.
Same(t, u) ==
    /\ u.op = t.op /\ u.own = t.own /\ u.peer = t.peer /\ u.st = t.st
    /\ u.lat = t.lat /\ u.left = t.left

\* Not a login, and a push only if it fails or the peer has the session or a
\* later one by now.
Leaves(t) ==
    /\ t.op \notin {"created", "noted"}
    /\ t.op = "push" => \/ faults' # 0
                        \/ \E e \in had'[t.peer] : e[1] = t.st[1] /\ e[2] >= t.st[2]

\* Neither a login nor a push; if it is an answer to a handshake, then one by
\* who connects back, with what that node has noted; if it waits for the
\* transport, then from reestablish.
Enters(t) ==
    /\ t.op \notin {"created", "noted", "push"}
    /\ t.op = "wait" => \E s \in Slots : Reestablish(s)
    /\ t.op \in {"connected", "accepted"} => t.own \in conns'[t.peer]
    /\ t.op = "update" => \/ t.left = {}
                          \/ /\ t.left = {Id(t.peer)} /\ t.lat = latest[t.peer]
                             /\ t.own \in conns'[t.peer]

\* A step without logins, restarts and new pushes.
Grows ==
    /\ inc' = inc /\ curr' = curr
    /\ faults' = 0 => faults = 0
    /\ \A n \in Nodes : had[n] \subseteq had'[n] /\ conns[n] \subseteq conns'[n]
    /\ \A n \in Nodes : \A id \in PeerIds : latest[n][id] <= latest'[n][id]
Quiet ==
    /\ Grows
    /\ \A r \in Slots : Same(task[r], task'[r]) \/ (Leaves(task[r]) /\ Enters(task'[r]))

\* The types that matter here.
LEMMA JoinTypes ==
  ASSUME Inv
  PROVE  /\ inc \in [Nodes -> 0..MaxInc] /\ MaxInc \in Nat /\ MaxSessions \in Nat
         /\ curr \in [PeerIds -> 0..MaxSessions]
         /\ \A n \in Nodes : Id(n) \in PeerIds /\ Id(n) = <<n, inc[n]>>
         /\ \A n \in Nodes : \A id \in PeerIds : latest[n][id] \in 0..MaxSessions
         /\ \A r \in Slots : /\ task[r].op \in {"connected", "accepted", "update", "push"} =>
                                   task[r].peer \in Nodes
                             /\ task[r].op # "idle" => task[r].own \in Nodes
                             /\ task[r].op \in WithSession => task[r].st \in Stamps
                             /\ task[r].lat \in [PeerIds -> 0..MaxSessions]
                             /\ task[r].left \subseteq PeerIds
  <1>1. /\ inc \in [Nodes -> 0..MaxInc] /\ MaxInc \in Nat /\ MaxSessions \in Nat
        /\ curr \in [PeerIds -> 0..MaxSessions]
    BY ConstantsAssumption DEF Inv, TypeOK
  <1>2. \A n \in Nodes : Id(n) \in PeerIds /\ Id(n) = <<n, inc[n]>>
    BY <1>1 DEF Id, PeerIds
  <1>3. \A n \in Nodes : \A id \in PeerIds : latest[n][id] \in 0..MaxSessions
    BY DEF Inv, TypeOK, Latest
  <1>4. ASSUME NEW r \in Slots
        PROVE  /\ task[r].op \in {"connected", "accepted", "update", "push"} => task[r].peer \in Nodes
               /\ task[r].op # "idle" => task[r].own \in Nodes
               /\ task[r].op \in WithSession => task[r].st \in Stamps
    BY DEF Inv, Good, WithPeer, Ops
  <1>5. ASSUME NEW r \in Slots
        PROVE  task[r].lat \in [PeerIds -> 0..MaxSessions] /\ task[r].left \subseteq PeerIds
    BY DEF Inv, TypeOK, Task, Latest
  <1> QED
    BY <1>1, <1>2, <1>3, <1>4, <1>5

\* What is to come still comes, when nothing fails.
LEMMA ComingKept ==
  ASSUME Inv, Quiet, faults' = 0, NEW n \in Nodes, NEW st \in Stamps, Arrives(st, n, had, task)
  PROVE  Arrives(st, n, had', task')
  <1>1. CASE \E e \in had[n] : e[1] = st[1] /\ e[2] >= st[2]
    BY <1>1 DEF Quiet, Grows, Arrives
  <1>2. ASSUME NEW r \in Slots, task[r].st = st, task[r].op \in {"created", "noted"}
        PROVE  Arrives(st, n, had', task')
    <2>1. Same(task[r], task'[r])
      BY <1>2 DEF Quiet, Leaves
    <2> QED
      BY <1>2, <2>1 DEF Arrives, Same
  <1>3. ASSUME NEW r \in Slots, task[r].st = st, task[r].op = "push", task[r].peer = n
        PROVE  Arrives(st, n, had', task')
    <2>1. CASE Same(task[r], task'[r])
      BY <1>3, <2>1 DEF Arrives, Same
    <2>2. CASE Leaves(task[r])
      BY <1>3, <2>2 DEF Arrives, Leaves
    <2> QED
      BY <2>1, <2>2 DEF Quiet
  <1> QED
    BY <1>1, <1>2, <1>3 DEF Arrives

\* Quiet steps keep the invariant.
LEMMA QuietJoin ==
  ASSUME Inv, Inv', JoinInv, Quiet
  PROVE  JoinInv'
  <1>1. inc' = inc /\ curr' = curr /\ \A n : Id(n)' = Id(n)
    BY DEF Quiet, Grows, Id
  <1>2. Unborn'
    BY <1>1 DEF JoinInv, Unborn
  <1>3. ASSUME NEW n \in Nodes, NEW k \in (latest[n][Id(n)] + 1)..curr[Id(n)]
        PROVE  \E r \in Slots : task'[r].op = "created" /\ task'[r].st = <<Id(n), k>>
    <2>1. PICK r \in Slots : task[r].op = "created" /\ task[r].st = <<Id(n), k>>
      BY <1>3 DEF JoinInv, Unnoted
    <2>2. Same(task[r], task'[r])
      BY <2>1 DEF Quiet, Leaves
    <2> QED
      BY <2>1, <2>2 DEF Same
  <1>4. Unnoted'
    <2> SUFFICES ASSUME NEW n \in Nodes, NEW k \in (latest'[n][Id(n)] + 1)..curr[Id(n)]
                 PROVE  \E r \in Slots : task'[r].op = "created" /\ task'[r].st = <<Id(n), k>>
      BY <1>1 DEF Unnoted
    <2>1. latest[n][Id(n)] <= latest'[n][Id(n)] /\ Id(n) \in PeerIds
      BY JoinTypes DEF Quiet, Grows
    <2>2. latest'[n][Id(n)] \in 0..MaxSessions
      BY <2>1 DEF Inv, TypeOK, Latest
    <2>3. latest[n][Id(n)] \in 0..MaxSessions /\ curr[Id(n)] \in 0..MaxSessions
      BY <2>1, JoinTypes
    <2>4. k \in (latest[n][Id(n)] + 1)..curr[Id(n)]
      BY <2>1, <2>2, <2>3, ConstantsAssumption
    <2> QED
      BY <1>3, <2>4
  <1>5. ASSUME NEW r \in Slots PROVE Joins(task[r])'
    <2>1. Joins(task[r])
      BY DEF JoinInv
    <2>2. CASE Same(task[r], task'[r])
      BY <1>1, <2>1, <2>2, JoinTypes DEF Same, Joins, OwnSession, ConnectsBack, Born, Quiet, Grows
    <2>3. CASE Enters(task'[r])
      <3>1. OwnSession(task[r])' /\ ConnectsBack(task[r])'
        BY <1>1, <2>3 DEF Enters, OwnSession, ConnectsBack
      <3>2. Born(task[r])'
        <4> SUFFICES ASSUME task'[r].op = "update", NEW id \in task'[r].left
                     PROVE  id[2] <= inc[id[1]]
          BY <1>1 DEF Born
        <4>1. id = Id(task'[r].peer)
          BY <2>3 DEF Enters
        <4>2. task'[r].peer \in Nodes
          BY InvParts DEF Inv, Good, WithPeer, Ops
        <4> QED
          BY <4>1, <4>2, JoinTypes
      <3> QED
        BY <3>1, <3>2 DEF Joins
    <2> QED
      BY <2>2, <2>3 DEF Quiet
  <1>6. JoinGapFree'
    <2>1. ASSUME NEW s \in Slots, NEW p, NEW n, NEW id, NEW k, faults' = 0,
                 task'[s].op = "update", task'[s].peer = p, task'[s].own = n, Id(p) = id,
                 id \in task'[s].left, k \in (task'[s].lat[id] + 1)..curr[id]
          PROVE  Arrives(<<id, k>>, n, had', task')
      <3>1. p \in Nodes /\ n \in Nodes /\ task'[s].lat[id] \in 0..MaxSessions
        <4>1. p \in Nodes /\ n \in Nodes
          BY <2>1 DEF Inv, Good, WithPeer, Ops
        <4>2. task'[s].lat \in [PeerIds -> 0..MaxSessions]
          BY DEF Inv, TypeOK, Task, Latest
        <4> QED
          BY <2>1, <4>1, <4>2, JoinTypes
      <3>2. faults = 0 /\ k \in 1..MaxSessions /\ <<id, k>> \in Stamps
        <4>1. id \in PeerIds /\ curr[id] \in 0..MaxSessions
          BY <2>1, <3>1, JoinTypes
        <4>2. k \in 1..MaxSessions
          BY <2>1, <3>1, <4>1, ConstantsAssumption
        <4> QED
          BY <2>1, <4>1, <4>2 DEF Quiet, Grows, Stamps
      <3>3. CASE Same(task[s], task'[s])
        <4>1. /\ task[s].op = "update" /\ task[s].peer = p /\ task[s].own = n
              /\ id \in task[s].left /\ k \in (task[s].lat[id] + 1)..curr[id]
          BY <2>1, <3>3 DEF Same
        <4>2. Coming(<<Id(task[s].peer), k>>, task[s].own)
          BY <2>1, <3>2, <4>1 DEF JoinInv, JoinGapFree
        <4>3. Arrives(<<id, k>>, n, had, task)
          BY <2>1, <4>1, <4>2 DEF Coming, Arrives
        <4> QED
          BY <2>1, <3>1, <3>2, <4>3, ComingKept
      <3>4. CASE Enters(task'[s])
        <4>1. task'[s].lat = latest[p]
          BY <2>1, <3>4 DEF Enters
        <4>2. PICK r \in Slots : task'[r].op = "created" /\ task'[r].st = <<id, k>>
          BY <1>3, <2>1, <3>1, <4>1
        <4> QED
          BY <4>2 DEF Arrives
      <3> QED
        BY <3>3, <3>4 DEF Quiet
    <2>2. ASSUME NEW s \in Slots, faults' = 0, task'[s].op = "update",
                 Id(task'[s].peer) \in task'[s].left,
                 NEW k \in (task'[s].lat[Id(task'[s].peer)] + 1)..curr[Id(task'[s].peer)]
          PROVE  Arrives(<<Id(task'[s].peer), k>>, task'[s].own, had', task')
      BY <2>1, <2>2
    <2> QED
      BY <1>1, <2>2 DEF JoinGapFree, Coming, Arrives
  <1> QED
    BY <1>2, <1>4, <1>5, <1>6 DEF JoinInv

-----------------------------------------------------------------------------
(* The quiet steps *)

\* A step that leaves what nodes have, and whom they know, as it is.
LEMMA StillGrows ==
  ASSUME Inv, UNCHANGED <<inc, curr, latest, had, conns>>,
         faults' = faults \/ faults' = faults + 1
  PROVE  Grows
  <1>1. \A n \in Nodes : \A id \in PeerIds : latest[n][id] <= latest[n][id]
    BY JoinTypes
  <1>2. faults \in Nat
    BY InvParts DEF ConnsTyped
  <1> QED
    BY <1>1, <1>2 DEF Grows

\* One goroutine goes on.
LEMMA OneQuiet ==
  ASSUME Inv, Grows, NEW s \in Slots, NEW t,
         task' = [task EXCEPT ![s] = t], Leaves(task[s]), Enters(task'[s])
  PROVE  Quiet
  <1>1. \A r \in Slots \ {s} : task'[r] = task[r]
    BY DEF Inv, TypeOK
  <1> QED
    BY <1>1 DEF Quiet, Same

\* One goroutine goes on, and may start another.
LEMMA TwoQuiet ==
  ASSUME Inv, Grows, NEW s \in Slots, NEW r \in Slots, NEW t, NEW u,
         \/ task' = [task EXCEPT ![s] = t]
         \/ r # s /\ task[r].op = "idle" /\ task' = [task EXCEPT ![s] = t, ![r] = u],
         Leaves(task[s]), Enters(t), Enters(u)
  PROVE  Quiet
  <1>1. task \in [Slots -> Task]
    BY DEF Inv, TypeOK
  <1>2. CASE task' = [task EXCEPT ![s] = t]
    BY <1>1, <1>2, OneQuiet
  <1>3. CASE r # s /\ task[r].op = "idle" /\ task' = [task EXCEPT ![s] = t, ![r] = u]
    <2>1. task'[s] = t /\ task'[r] = u /\ \A q \in Slots \ {s, r} : task'[q] = task[q]
      BY <1>1, <1>3
    <2>2. Leaves(task[r])
      BY <1>3 DEF Leaves
    <2> QED
      BY <2>1, <2>2 DEF Quiet, Same
  <1> QED
    BY <1>2, <1>3

\* An RPC ends.
LEMMA AnsweredQuiet ==
  ASSUME Inv, Grows, NEW s \in Slots, NEW t,
         Answered(s, t), Leaves(task[s]), Enters(task'[s])
  PROVE  Quiet
  <1>1. ASSUME NEW r \in Slots \ {s} PROVE Same(task[r], task'[r])
    <2>1. task[r] \in Task
      BY DEF Inv, TypeOK
    <2>2. task'[r] = [task[r] EXCEPT !.ctx = "done"] \/ task'[r] = task[r]
      BY DEF Answered
    <2> QED
      BY <2>1, <2>2 DEF Same, Task
  <1> QED
    BY <1>1 DEF Quiet

\* A push: once it is answered the peer has the session, or a later one.
LEMMA PushQuiet ==
  ASSUME Inv, NEW s \in Slots, PushStore(s) \/ PushRefused(s) \/ PushNote(s)
  PROVE  Quiet
  <1>1. /\ task[s] \in Task /\ task[s].op \in {"push", "pushed"} /\ Good(task[s], had, curr)
        /\ task[s].peer \in Nodes /\ task[s].st \in Stamps
        /\ task[s].st[2] \in 1..MaxSessions /\ task \in [Slots -> Task]
        /\ had \in [Nodes -> SUBSET Stamps] /\ latest \in [Nodes -> Latest]
    BY DEF Inv, TypeOK, PushStore, PushRefused, PushNote, Become, Good, WithSession, WithPeer, Ops,
           Stamps
  <1>2. CASE PushStore(s)
    <2>1. /\ task' = [task EXCEPT ![s] = At(s, "pushed")] /\ task[s].op = "push"
          /\ had' = [had EXCEPT ![task[s].peer] = @ \cup {task[s].st}]
          /\ UNCHANGED <<inc, curr, latest, connVars, faults>>
      BY <1>2 DEF PushStore, Become, Set
    <2>2. Grows
      <3>1. \A n \in Nodes : \A id \in PeerIds : latest[n][id] <= latest[n][id]
        BY JoinTypes
      <3> QED
        BY <1>1, <2>1, <3>1 DEF Grows, connVars
    <2>3. Leaves(task[s])
      BY <1>1, <2>1 DEF Leaves
    <2>4. Enters(task'[s])
      BY <1>1, <2>1, AtFields DEF Enters, Ops
    <2> QED
      BY <2>1, <2>2, <2>3, <2>4, OneQuiet
  <1>3. CASE PushRefused(s)
    <2>1. /\ task' = [task EXCEPT ![s] = Anew(s, "failed")] /\ task[s].op = "push"
          /\ ~Newest(task[s].peer, task[s].st)
          /\ UNCHANGED <<nodeVars, connVars, faults>>
      BY <1>3 DEF PushRefused, Become
    <2>2. PICK e \in store[task[s].peer] : e[1] = task[s].st[1] /\ ~(e[2] < task[s].st[2])
      BY <2>1 DEF Newest
    <2>3. e \in had[task[s].peer] /\ e[2] \in 1..MaxSessions
      BY <1>1, <2>2 DEF Inv, NodesGood, Stamps
    <2>4. e[2] >= task[s].st[2]
      BY <1>1, <2>2, <2>3, ConstantsAssumption
    <2>5. Leaves(task[s])
      BY <2>1, <2>2, <2>3, <2>4 DEF Leaves, nodeVars
    <2>6. Enters(task'[s])
      BY <1>1, <2>1, AnewFields DEF Enters, Ops
    <2>7. Grows
      BY <2>1, StillGrows DEF nodeVars, connVars
    <2> QED
      BY <2>1, <2>5, <2>6, <2>7, OneQuiet
  <1>4. CASE PushNote(s)
    <2>1. /\ task[s].op = "pushed" /\ UNCHANGED <<inc, curr, had, conns>>
          /\ faults' = faults \/ faults' = faults + 1
          /\ latest' = [latest EXCEPT ![task[s].peer] = Noted(@, task[s].st)]
      BY <1>4 DEF PushNote, Become, connVars, Fault
    <2>2. PICK t \in {Idle, Anew(s, "failed")} : task' = [task EXCEPT ![s] = t]
      BY <1>4 DEF PushNote, Become
    <2>3. \A n \in Nodes : \A id \in PeerIds : latest[n][id] <= latest'[n][id]
      <3>1. task[s].st[1] \in PeerIds
        BY <1>1 DEF Stamps
      <3>2. latest[task[s].peer] \in [PeerIds -> 0..MaxSessions]
        BY <1>1 DEF Latest
      <3>3. \A id \in PeerIds : latest[task[s].peer][id] <= Noted(latest[task[s].peer], task[s].st)[id]
        BY <1>1, <3>1, <3>2, ConstantsAssumption DEF Noted
      <3>4. latest'[task[s].peer] = Noted(latest[task[s].peer], task[s].st)
            /\ \A n \in Nodes \ {task[s].peer} : latest'[n] = latest[n]
        BY <1>1, <2>1
      <3>5. \A n \in Nodes : \A id \in PeerIds : latest[n][id] <= latest[n][id]
        BY JoinTypes
      <3> QED
        BY <3>3, <3>4, <3>5
    <2>4. Grows
      <3>1. faults \in Nat
        BY InvParts DEF ConnsTyped
      <3> QED
        BY <2>1, <2>3, <3>1 DEF Grows
    <2>5. Leaves(task[s])
      BY <2>1 DEF Leaves
    <2>6. Enters(task'[s])
      <3>1. t.op \in {"idle", "failed"}
        BY <1>1, IdleFields, AnewFields DEF Ops
      <3> QED
        BY <1>1, <2>2, <3>1 DEF Enters
    <2> QED
      BY <2>2, <2>4, <2>5, <2>6, OneQuiet
  <1> QED
    BY <1>2, <1>3, <1>4

\* A connection is made, and a handshake sent.
LEMMA ConnectQuiet ==
  ASSUME Inv, NEW s \in Slots,
         HandshakeSend(s) \/ \E n, p \in Nodes : Connect(s, n, p)
  PROVE  Quiet
  <1>1. task[s] \in Task /\ task \in [Slots -> Task] /\ conns \in [Nodes -> SUBSET Nodes]
    BY DEF Inv, TypeOK
  <1>2. CASE HandshakeSend(s)
    <2> DEFINE t == [At(s, "request") EXCEPT !.lat = latest[task[s].own]]
    <2>1. task[s].op = "shake" /\ task' = [task EXCEPT ![s] = t]
          /\ UNCHANGED <<nodeVars, connVars, faults>>
      BY <1>2 DEF HandshakeSend, Become
    <2>2. t.op = "request"
      BY <1>1, AtFields DEF Task, Ops
    <2> HIDE DEF t
    <2>3. Leaves(task[s]) /\ Enters(task'[s])
      BY <1>1, <2>1, <2>2 DEF Leaves, Enters
    <2> QED
      BY <2>1, <2>3, OneQuiet, StillGrows DEF nodeVars, connVars
  <1>3. ASSUME NEW n \in Nodes, NEW p \in Nodes, Connect(s, n, p) PROVE Quiet
    <2>1. /\ task[s].op = "idle" /\ task' = [task EXCEPT ![s] = Goroutine("shake", n, p)]
          /\ conns' = [conns EXCEPT ![n] = @ \cup {p}] /\ UNCHANGED <<nodeVars, faults>>
      BY <1>3 DEF Connect, Become
    <2>2. Grows
      <3>1. \A m \in Nodes : \A id \in PeerIds : latest[m][id] <= latest[m][id]
        BY JoinTypes
      <3> QED
        BY <1>1, <2>1, <3>1 DEF Grows, nodeVars
    <2>3. Leaves(task[s]) /\ Enters(task'[s])
      BY <1>1, <2>1, GoroutineFields DEF Leaves, Enters, Ops
    <2> QED
      BY <2>1, <2>2, <2>3, OneQuiet
  <1> QED
    BY <1>2, <1>3

\* The peer connects back.
LEMMA HandshakeConnectQuiet ==
  ASSUME Inv, NEW s \in Slots, NEW r \in Slots, HandshakeConnect(s, r)
  PROVE  Quiet
  <1> DEFINE n == task[s].own
             p == task[s].peer
             h == Goroutine("shake", p, n)
             a == At(s, "connected")
  <1>1. /\ task[s] \in Task /\ task[s].op = "request" /\ n \in Nodes /\ p \in Nodes
        /\ task \in [Slots -> Task] /\ conns \in [Nodes -> SUBSET Nodes]
    BY DEF Inv, TypeOK, HandshakeConnect, Good, WithPeer, Ops
  <1>2. /\ UNCHANGED <<inc, curr, latest, had, faults>>
        /\ conns' = conns \/ conns' = [conns EXCEPT ![p] = @ \cup {n}]
        /\ n \in conns'[p]
    BY <1>1 DEF HandshakeConnect, nodeVars
  <1>3. \/ task' = [task EXCEPT ![s] = a]
        \/ r # s /\ task[r].op = "idle" /\ task' = [task EXCEPT ![s] = a, ![r] = h]
    BY DEF HandshakeConnect
  <1>4. a.op = "connected" /\ a.own = n /\ a.peer = p
    BY <1>1, AtFields DEF Ops
  <1>5. h.op = "shake"
    BY <1>1, GoroutineFields DEF Ops
  <1> HIDE DEF h, a, n, p
  <1>6. Grows
    <2>1. \A m \in Nodes : \A id \in PeerIds : latest[m][id] <= latest[m][id]
      BY JoinTypes
    <2> QED
      BY <1>1, <1>2, <2>1 DEF Grows
  <1>7. Leaves(task[s]) /\ Enters(a)
    BY <1>1, <1>2, <1>4 DEF Leaves, Enters
  <1> QED
    <2>1. Enters(h)
      BY <1>5 DEF Enters
    <2> QED
      BY <1>3, <1>6, <1>7, <2>1, TwoQuiet

\* Who accepts a handshake has connected back.
LEMMA HandshakeAcceptQuiet ==
  ASSUME Inv, NEW s \in Slots, NEW r \in Slots, HandshakeAccept(s, r), ConnectsBack(task[s])
  PROVE  Quiet
  <1> DEFINE n == task[s].own
             p == task[s].peer
             g == Goroutine("update", p, n)
             u == [g EXCEPT !.ctx = s, !.lat = task[s].lat]
             a == Anew(s, "accepted")
  <1>1. /\ task[s] \in Task /\ task[s].op = "connected" /\ n \in Nodes /\ p \in Nodes
        /\ task \in [Slots -> Task] /\ task[s].lat \in Latest /\ n \in conns[p]
    BY DEF Inv, TypeOK, HandshakeAccept, Good, WithPeer, Ops, Task, ConnectsBack
  <1>2. UNCHANGED <<inc, curr, latest, had, faults, conns>>
    BY DEF HandshakeAccept, nodeVars, connVars
  <1>3. \/ task' = [task EXCEPT ![s] = a]
        \/ r # s /\ task[r].op = "idle" /\ task' = [task EXCEPT ![s] = a, ![r] = u]
    BY DEF HandshakeAccept
  <1>4. a.op = "accepted" /\ a.own = n /\ a.peer = p
    BY <1>1, AnewFields DEF Ops
  <1>5. g \in Task /\ g.op = "update" /\ g.left = {}
    BY <1>1, GoroutineFields DEF Ops
  <1> HIDE DEF g, a, n, p
  <1>6. u.op = "update" /\ u.left = {}
    BY <1>1, <1>5 DEF Task
  <1> HIDE DEF u
  <1>7. Grows
    <2>1. \A m \in Nodes : \A id \in PeerIds : latest[m][id] <= latest[m][id]
      BY JoinTypes
    <2> QED
      BY <1>2, <2>1 DEF Grows
  <1>8. Leaves(task[s]) /\ Enters(a)
    BY <1>1, <1>2, <1>4 DEF Leaves, Enters
  <1> QED
    <2>1. Enters(u)
      BY <1>6 DEF Enters
    <2> QED
      BY <1>3, <1>7, <1>8, <2>1, TwoQuiet

\* The answer to a handshake has what the peer has noted.
LEMMA HandshakeReplyQuiet ==
  ASSUME Inv, NEW s \in Slots, HandshakeReply(s), ConnectsBack(task[s])
  PROVE  Quiet
  <1> DEFINE p == task[s].peer
             a == At(s, "update")
             t == [a EXCEPT !.lat = latest[p], !.left = {Id(p)}]
  <1>1. /\ task[s] \in Task /\ task[s].op = "accepted" /\ p \in Nodes
        /\ latest[p] \in Latest /\ Id(p) \in PeerIds
    BY JoinTypes DEF Inv, TypeOK, HandshakeReply, Good, WithPeer, Ops
  <1>2. Answered(s, t) /\ UNCHANGED <<nodeVars, connVars, faults>>
    BY DEF HandshakeReply
  <1>3. a \in Task /\ a.op = "update" /\ a.own = task[s].own /\ a.peer = p
    BY <1>1, AtFields DEF Ops
  <1> HIDE DEF a, p
  <1>4. t.op = "update" /\ t.own = task[s].own /\ t.peer = p /\ t.lat = latest[p] /\ t.left = {Id(p)}
    BY <1>1, <1>3 DEF Task
  <1>5. task'[s] = t
    BY <1>2 DEF Answered
  <1> HIDE DEF t
  <1>6. Leaves(task[s]) /\ Enters(task'[s])
    BY <1>1, <1>2, <1>4, <1>5 DEF Leaves, Enters, ConnectsBack, connVars, p
  <1> QED
    BY <1>2, <1>6, AnsweredQuiet, StillGrows DEF nodeVars, connVars

\* A goroutine that is no push or login, and becomes none and no answer.
LEMMA PlainQuiet ==
  ASSUME Inv, NEW s \in Slots, NEW t,
         t.op \notin {"created", "noted", "push", "connected", "accepted", "update"},
         t.op = "wait" => \E r \in Slots : Reestablish(r),
         task[s].op \notin {"created", "noted", "push"},
         task' = [task EXCEPT ![s] = t] \/ Answered(s, t),
         UNCHANGED <<inc, curr, latest, had, conns>>,
         faults' = faults \/ faults' = faults + 1
  PROVE  Quiet
  <1>1. task'[s] = t
    BY DEF Inv, TypeOK, Answered
  <1>2. Leaves(task[s]) /\ Enters(task'[s])
    BY <1>1 DEF Leaves, Enters
  <1> QED
    BY <1>2, StillGrows, OneQuiet, AnsweredQuiet

\* update, and the requests of streams.
LEMMA UpdateQuiet ==
  ASSUME Inv, NEW s \in Slots,
         UpdateNone(s) \/ UpdateNeeded(s) \/ StreamRequest(s) \/ StreamOpen(s) \/ StreamEnd(s)
         \/ \E st \in Stamps : StreamRefused(s, st)
  PROVE  Quiet
  <1>1. task[s] \in Task
    BY DEF Inv, TypeOK
  <1>2. /\ Idle.op = "idle" /\ Anew(s, "behind").op = "behind" /\ Anew(s, "failed").op = "failed"
        /\ At(s, "ask") \in Task /\ At(s, "ask").op = "ask"
        /\ At(s, "stream") \in Task /\ At(s, "stream").op = "stream"
    BY <1>1, IdleFields, AnewFields, AtFields DEF Ops
  <1>3. CASE UpdateNone(s)
    BY <1>2, <1>3, PlainQuiet DEF UpdateNone, Become, nodeVars
  <1>4. CASE UpdateNeeded(s)
    BY <1>2, <1>4, PlainQuiet DEF UpdateNeeded, Become, nodeVars, connVars
  <1>5. CASE StreamRequest(s)
    <2> DEFINE t == [At(s, "ask") EXCEPT !.lat = latest[task[s].own]]
    <2>1. t.op = "ask"
      BY <1>2 DEF Task
    <2>2. task[s].op = "behind" /\ task' = [task EXCEPT ![s] = t]
          /\ UNCHANGED <<nodeVars, connVars, faults>>
      BY <1>5 DEF StreamRequest, Become
    <2> HIDE DEF t
    <2> QED
      BY <2>1, <2>2, PlainQuiet DEF nodeVars, connVars
  <1>6. CASE StreamOpen(s)
    <2> DEFINE p == task[s].peer
               t == [At(s, "stream") EXCEPT !.todo = Offered(p, task[s].lat),
                                            !.left = {st[1] : st \in store[p]}]
    <2>1. t.op = "stream"
      BY <1>2 DEF Task
    <2>2. task[s].op = "ask" /\ task' = [task EXCEPT ![s] = t]
          /\ UNCHANGED <<nodeVars, connVars, faults>>
      BY <1>6 DEF StreamOpen, Become
    <2> HIDE DEF t
    <2> QED
      BY <2>1, <2>2, PlainQuiet DEF nodeVars, connVars
  <1>7. CASE StreamEnd(s)
    BY <1>2, <1>7, PlainQuiet DEF StreamEnd, Become, nodeVars
  <1>8. ASSUME NEW st \in Stamps, StreamRefused(s, st) PROVE Quiet
    BY <1>2, <1>8, PlainQuiet DEF StreamRefused, Become, nodeVars
  <1> QED
    BY <1>3, <1>4, <1>5, <1>6, <1>7, <1>8

\* A session of a stream is stored.
LEMMA StreamStoreQuiet ==
  ASSUME Inv, NEW s \in Slots, NEW st \in Stamps, StreamStore(s, st)
  PROVE  Quiet
  <1> DEFINE t == [task[s] EXCEPT !.todo = @ \ {st}, !.st = st, !.left = @ \ {st[1]}]
  <1>1. /\ task[s] \in Task /\ task[s].op = "stream" /\ task \in [Slots -> Task]
        /\ task[s].own \in Nodes /\ had \in [Nodes -> SUBSET Stamps]
    BY DEF Inv, TypeOK, StreamStore, Become, Good
  <1>2. t.op = "stream"
    BY <1>1 DEF Task
  <1>3. /\ task' = [task EXCEPT ![s] = t] /\ UNCHANGED <<inc, curr, latest, connVars, faults>>
        /\ had' = [had EXCEPT ![task[s].own] = @ \cup {st}]
    BY DEF StreamStore, Become, Set
  <1> HIDE DEF t
  <1>4. Grows
    <2>1. \A n \in Nodes : \A id \in PeerIds : latest[n][id] <= latest[n][id]
      BY JoinTypes
    <2> QED
      BY <1>1, <1>3, <2>1 DEF Grows, connVars
  <1>5. Leaves(task[s]) /\ Enters(task'[s])
    BY <1>1, <1>2, <1>3 DEF Leaves, Enters
  <1> QED
    BY <1>3, <1>4, <1>5, OneQuiet

\* An RPC that fails, a push too, is a fault; one that is canceled is no push.
LEMMA FailsQuiet ==
  ASSUME Inv, NEW s \in Slots, RpcFails(s) \/ RpcCanceled(s)
  PROVE  Quiet
  <1>1. task[s] \in Task /\ faults \in Nat
    BY DEF Inv, TypeOK
  <1>2. PICK op \in {"failed", "canceled"} : Fails(s, op)
    BY DEF RpcFails, RpcCanceled
  <1>3. /\ task[s].op \in {"push", "request", "connected", "accepted", "ask", "stream"}
        /\ faults' = faults \/ faults' = faults + 1
        /\ task[s].op = "push" => faults' = faults + 1
    BY DEF RpcFails, RpcCanceled, Fault
  <1>4. Answered(s, Anew(s, op)) /\ UNCHANGED <<inc, curr, latest, had, conns>>
    BY <1>2 DEF Fails, nodeVars
  <1>5. Leaves(task[s])
    BY <1>1, <1>3 DEF Leaves
  <1>6. task'[s] = Anew(s, op) /\ Anew(s, op).op = op
    BY <1>1, <1>4, AnewFields DEF Answered, Ops
  <1>7. Enters(task'[s])
    BY <1>6 DEF Enters
  <1> QED
    BY <1>3, <1>4, <1>5, <1>7, AnsweredQuiet, StillGrows

\* reestablish.
LEMMA ReestablishQuiet ==
  ASSUME Inv, NEW s \in Slots, ReestablishSkip(s) \/ Reestablish(s) \/ Recover(s)
  PROVE  Quiet
  <1>1. task[s] \in Task /\ task \in [Slots -> Task]
    BY DEF Inv, TypeOK
  <1>2. Idle.op = "idle" /\ Anew(s, "wait").op = "wait" /\ At(s, "shake").op = "shake"
    BY <1>1, IdleFields, AnewFields, AtFields DEF Ops
  <1>3. CASE ReestablishSkip(s)
    BY <1>2, <1>3, PlainQuiet DEF ReestablishSkip, nodeVars, connVars
  <1>4. CASE Reestablish(s)
    <2>1. PICK t \in {Idle, Anew(s, "wait")} : task' = [task EXCEPT ![s] = t]
      BY <1>4 DEF Reestablish
    <2> QED
      BY <1>2, <1>4, <2>1, PlainQuiet DEF Reestablish, nodeVars
  <1>5. CASE Recover(s)
    BY <1>2, <1>5, PlainQuiet DEF Recover, Become, nodeVars
  <1> QED
    BY <1>3, <1>4, <1>5

\* Steps that no goroutine takes part in.
LEMMA TasklessQuiet ==
  ASSUME Inv, UNCHANGED <<inc, curr, latest, had, conns, task, faults>>
  PROVE  Quiet
  BY StillGrows DEF Quiet, Same

-----------------------------------------------------------------------------
(* Logins and restarts *)

\* The sessions of the process id that are later than t was told are coming.
NoGap(t, h, tasks, c, id) ==
    \A k \in (t.lat[id] + 1)..c[id] : Arrives(<<id, k>>, t.own, h, tasks)

\* JoinGapFree says so of every goroutine with an answer of a process that is
\* still there.
LEMMA GapFree ==
  JoinGapFree <=>
    \A s \in Slots : faults = 0 /\ task[s].op = "update" /\ Id(task[s].peer) \in task[s].left
                     => NoGap(task[s], had, task, curr, Id(task[s].peer))
  BY DEF JoinGapFree, NoGap, Coming, Arrives

\* The same of the next state.
LEMMA GapFreeNext ==
  ASSUME \A s \in Slots : \A id :
           /\ faults' = 0 /\ task'[s].op = "update"
           /\ id = <<task'[s].peer, inc'[task'[s].peer]>> /\ id \in task'[s].left
           => NoGap(task'[s], had', task', curr', id)
  PROVE  JoinGapFree'
  <1>1. ASSUME NEW s \in Slots, faults' = 0, task'[s].op = "update",
               <<task'[s].peer, inc'[task'[s].peer]>> \in task'[s].left,
               NEW k \in (task'[s].lat[<<task'[s].peer, inc'[task'[s].peer]>>] + 1)
                         ..curr'[<<task'[s].peer, inc'[task'[s].peer]>>]
        PROVE  Arrives(<<<<task'[s].peer, inc'[task'[s].peer]>>, k>>, task'[s].own, had', task')
    BY <1>1 DEF NoGap
  <1> QED
    BY <1>1 DEF JoinGapFree, Coming, Arrives, Id

\* A session is issued: until its goroutine has noted it, it is unnoted, and
\* until it is pushed it is coming to everyone.
LEMMA CreateSessionJoin ==
  ASSUME Inv, JoinInv, NEW s \in Slots, NEW n \in Nodes, CreateSession(s, n)
  PROVE  JoinInv'
  <1> DEFINE new == curr[Id(n)] + 1
             g == Goroutine("created", n, None)
             t == [g EXCEPT !.st = <<Id(n), new>>]
  <1>1. /\ task \in [Slots -> Task] /\ task[s].op = "idle" /\ task' = [task EXCEPT ![s] = t]
        /\ had \in [Nodes -> SUBSET Stamps] /\ had' = [had EXCEPT ![n] = @ \cup {<<Id(n), new>>}]
        /\ curr' = [curr EXCEPT ![Id(n)] = new]
        /\ UNCHANGED <<inc, latest, conns, faults>>
        /\ curr[Id(n)] < MaxSessions
    BY JoinTypes DEF Inv, TypeOK, CreateSession, Become, Set, MaySession, connVars
  <1>2. /\ Id(n) \in PeerIds /\ curr \in [PeerIds -> 0..MaxSessions] /\ MaxSessions \in Nat
        /\ new \in 1..MaxSessions /\ <<Id(n), new>> \in Stamps
        /\ \A m \in Nodes : Id(m) \in PeerIds /\ Id(m) = <<m, inc[m]>>
    BY <1>1, JoinTypes DEF Stamps
  <1>3. g \in Task /\ g.op = "created" /\ g.own = n
    BY GoroutineFields DEF Ops
  <1> HIDE DEF g
  <1>4. t.op = "created" /\ t.own = n /\ t.st = <<Id(n), new>>
    BY <1>2, <1>3 DEF Task
  <1>5. /\ task'[s] = t /\ \A r \in Slots \ {s} : task'[r] = task[r]
        /\ \A m \in Nodes : had[m] \subseteq had'[m]
        /\ curr'[Id(n)] = new /\ \A id \in PeerIds \ {Id(n)} : curr'[id] = curr[id]
        /\ \A m : Id(m)' = Id(m)
    BY <1>1, <1>2 DEF Id
  <1> HIDE DEF t, new
  <1>6. Unborn'
    <2> SUFFICES ASSUME NEW m \in Nodes, NEW i \in 0..MaxInc, i > inc[m]
                 PROVE  curr'[<<m, i>>] = 0
      BY <1>1 DEF Unborn
    <2>1. <<m, i>> \in PeerIds /\ curr[<<m, i>>] = 0
      BY DEF JoinInv, Unborn, PeerIds
    <2>2. <<m, i>> # Id(n)
      BY <1>2, JoinTypes
    <2> QED
      BY <1>5, <2>1, <2>2
  <1>7. Unnoted'
    <2> SUFFICES ASSUME NEW m \in Nodes, NEW k \in (latest[m][Id(m)] + 1)..curr'[Id(m)]
                 PROVE  \E r \in Slots : task'[r].op = "created" /\ task'[r].st = <<Id(m), k>>
      <3>1. latest' = latest /\ inc' = inc
        BY <1>1
      <3> QED
        BY <3>1 DEF Unnoted, Id
    <2>1. latest[m][Id(m)] \in 0..MaxSessions /\ curr[Id(m)] \in 0..MaxSessions
      BY <1>2, JoinTypes
    <2>2. CASE k \in (latest[m][Id(m)] + 1)..curr[Id(m)]
      <3>1. PICK r \in Slots : task[r].op = "created" /\ task[r].st = <<Id(m), k>>
        BY <2>2 DEF JoinInv, Unnoted
      <3>2. r # s
        BY <1>1, <3>1
      <3> QED
        BY <1>5, <3>1, <3>2
    <2>3. CASE k \notin (latest[m][Id(m)] + 1)..curr[Id(m)]
      <3>1. Id(m) = Id(n)
        BY <1>2, <1>5, <2>3
      <3>2. k = new
        BY <1>2, <1>5, <2>1, <2>3, <3>1 DEF new
      <3> QED
        BY <1>4, <1>5, <3>1, <3>2
    <2> QED
      BY <2>2, <2>3
  <1>8. ASSUME NEW r \in Slots PROVE Joins(task[r])'
    <2>1. CASE r = s
      BY <1>1, <1>4, <1>5, <2>1 DEF Joins, OwnSession, ConnectsBack, Born
    <2>2. CASE r # s
      BY <1>1, <1>5, <2>2 DEF JoinInv, Joins, OwnSession, ConnectsBack, Born
    <2> QED
      BY <2>1, <2>2
  <1>9. JoinGapFree'
    <2>1. ASSUME NEW q \in Slots, NEW id, faults' = 0, task'[q].op = "update",
                 id = Id(task'[q].peer), id \in task'[q].left
          PROVE  NoGap(task'[q], had', task', curr', id)
      <3> SUFFICES ASSUME NEW k \in (task'[q].lat[id] + 1)..curr'[id]
                   PROVE  Arrives(<<id, k>>, task'[q].own, had', task')
        BY DEF NoGap
      <3>1. q # s /\ task'[q] = task[q]
        BY <1>4, <1>5, <2>1
      <3>2. /\ task[q].own \in Nodes /\ id \in PeerIds
            /\ task[q].lat[id] \in 0..MaxSessions /\ curr[id] \in 0..MaxSessions
        BY <2>1, <3>1, JoinTypes
      <3>3. CASE k \in (task[q].lat[id] + 1)..curr[id]
        <4>1. Arrives(<<id, k>>, task[q].own, had, task)
          BY <1>1, <2>1, <3>1, <3>3, GapFree DEF JoinInv, NoGap
        <4>2. \A r \in Slots : task[r].op \in {"created", "noted", "push"} => task'[r] = task[r]
          BY <1>1, <1>5
        <4> QED
          BY <1>5, <3>1, <3>2, <4>1, <4>2 DEF Arrives
      <3>4. CASE k \notin (task[q].lat[id] + 1)..curr[id]
        <4>1. id = Id(n)
          BY <1>5, <3>1, <3>2, <3>4
        <4>2. k = new
          BY <1>5, <3>1, <3>2, <3>4, <4>1 DEF new
        <4> QED
          BY <1>4, <1>5, <4>1, <4>2 DEF Arrives
      <3> QED
        BY <3>3, <3>4
    <2>2. inc' = inc
      BY <1>1
    <2> QED
      BY <2>1, <2>2, GapFreeNext DEF Id
  <1> QED
    BY <1>6, <1>7, <1>8, <1>9 DEF JoinInv

\* The goroutine of a login notes the session: latest has caught up with it.
LEMMA NoteCreatedJoin ==
  ASSUME Inv, JoinInv, NEW s \in Slots, NoteCreated(s)
  PROVE  JoinInv'
  <1> DEFINE n == task[s].own
             st == task[s].st
             t == At(s, "noted")
  <1>1. /\ task \in [Slots -> Task] /\ task[s] \in Task /\ task[s].op = "created"
        /\ task' = [task EXCEPT ![s] = t]
        /\ n \in Nodes /\ st \in Stamps /\ st[1] = Id(n)
        /\ latest \in [Nodes -> Latest] /\ latest' = [latest EXCEPT ![n] = Noted(@, st)]
    BY DEF Inv, TypeOK, Good, WithSession, NoteCreated, Become, JoinInv, Joins, OwnSession
  <1>2. UNCHANGED <<inc, curr, had, conns, faults>>
    BY DEF NoteCreated, connVars
  <1>3. /\ Id(n) \in PeerIds /\ MaxSessions \in Nat /\ st[2] \in 1..MaxSessions
        /\ st = <<st[1], st[2]>> /\ \A m \in Nodes : Id(m) = <<m, inc[m]>>
    BY <1>1, JoinTypes DEF Stamps
  <1>4. t.op = "noted" /\ t.own = n /\ t.peer = task[s].peer /\ t.st = st
    BY <1>1, AtFields DEF Ops
  <1> HIDE DEF n, st, t
  <1>5. /\ task'[s] = t /\ \A r \in Slots \ {s} : task'[r] = task[r]
        /\ latest'[n] = Noted(latest[n], st) /\ \A m \in Nodes \ {n} : latest'[m] = latest[m]
    BY <1>1
  <1>6. Unborn'
    BY <1>2 DEF JoinInv, Unborn
  <1>7. Unnoted'
    <2> SUFFICES ASSUME NEW m \in Nodes, NEW k \in (latest'[m][Id(m)] + 1)..curr[Id(m)]
                 PROVE  \E r \in Slots : task'[r].op = "created" /\ task'[r].st = <<Id(m), k>>
      BY <1>2 DEF Unnoted, Id
    <2>1. /\ latest[m][Id(m)] \in 0..MaxSessions /\ curr[Id(m)] \in 0..MaxSessions
          /\ latest[m] \in [PeerIds -> 0..MaxSessions] /\ Id(m) \in PeerIds
      BY JoinTypes, <1>1 DEF Latest
    <2>2. ASSUME <<Id(m), k>> # st, k \in (latest[m][Id(m)] + 1)..curr[Id(m)]
          PROVE  \E r \in Slots : task'[r].op = "created" /\ task'[r].st = <<Id(m), k>>
      <3>1. PICK r \in Slots : task[r].op = "created" /\ task[r].st = <<Id(m), k>>
        BY <2>2 DEF JoinInv, Unnoted
      <3>2. r # s
        BY <2>2, <3>1 DEF st
      <3> QED
        BY <1>5, <3>1, <3>2
    <2>3. CASE m # n
      <3>1. latest'[m] = latest[m] /\ Id(m) # Id(n)
        BY <1>1, <1>3, <1>5, <2>3
      <3>2. <<Id(m), k>> # st
        BY <1>1, <3>1
      <3> QED
        BY <2>2, <3>1, <3>2
    <2>4. CASE m = n
      <3>1. latest'[n][Id(n)] = IF latest[n][Id(n)] < st[2] THEN st[2] ELSE latest[n][Id(n)]
        BY <1>1, <1>3, <1>5, <2>1, <2>4 DEF Noted
      <3>2. k \in (latest[n][Id(n)] + 1)..curr[Id(n)] /\ k # st[2]
        BY <1>3, <2>1, <2>4, <3>1
      <3> QED
        BY <2>2, <2>4, <3>2
    <2> QED
      BY <2>3, <2>4
  <1>8. ASSUME NEW r \in Slots PROVE Joins(task[r])'
    <2>1. CASE r = s
      BY <1>1, <1>2, <1>4, <1>5, <2>1 DEF Joins, OwnSession, ConnectsBack, Born, Id
    <2>2. CASE r # s
      BY <1>2, <1>5, <2>2 DEF JoinInv, Joins, OwnSession, ConnectsBack, Born, Id
    <2> QED
      BY <2>1, <2>2
  <1>9. JoinGapFree'
    <2>1. ASSUME NEW q \in Slots, NEW id, faults' = 0, task'[q].op = "update",
                 id = Id(task'[q].peer), id \in task'[q].left
          PROVE  NoGap(task'[q], had', task', curr', id)
      <3>1. q # s /\ task'[q] = task[q]
        BY <1>4, <1>5, <2>1
      <3>2. NoGap(task[q], had, task, curr, id)
        BY <1>2, <2>1, <3>1, GapFree DEF JoinInv
      <3>3. \A r \in Slots : task[r].op \in {"created", "noted", "push"} =>
              /\ task'[r].st = task[r].st /\ task'[r].peer = task[r].peer
              /\ task'[r].op = task[r].op \/ (task[r].op = "created" /\ task'[r].op = "noted")
        BY <1>1, <1>4, <1>5 DEF st
      <3>4. ASSUME NEW k, Arrives(<<id, k>>, task[q].own, had, task)
            PROVE  Arrives(<<id, k>>, task[q].own, had, task')
        BY <3>3, <3>4 DEF Arrives
      <3> QED
        BY <1>2, <3>1, <3>2, <3>4 DEF NoGap
    <2>2. inc' = inc
      BY <1>2
    <2> QED
      BY <2>1, <2>2, GapFreeNext DEF Id
  <1> QED
    BY <1>6, <1>7, <1>8, <1>9 DEF JoinInv

\* A login is pushed to everyone the node is connected to, and so to everyone
\* whose handshake it has answered.
LEMMA PushAllJoin ==
  ASSUME Inv, JoinInv, NEW s \in Slots, PushAll(s)
  PROVE  JoinInv'
  <1> DEFINE n == task[s].own
             st == task[s].st
             Push(p) == [Goroutine("push", n, p) EXCEPT !.st = task[s].st]
             free == {s} \cup {r \in Slots : task[r].op = "idle"}
  <1>1. /\ task \in [Slots -> Task] /\ task[s] \in Task /\ task[s].op = "noted"
        /\ n \in Nodes /\ st \in Stamps /\ st[1] = Id(n) /\ conns[n] \subseteq Nodes
    BY DEF Inv, TypeOK, Good, WithSession, PushAll, JoinInv, Joins, OwnSession
  <1>2. UNCHANGED <<inc, curr, latest, had, conns, faults>>
    BY DEF PushAll, nodeVars, connVars
  <1>3. ASSUME NEW p \in Nodes
        PROVE  Push(p).op = "push" /\ Push(p).own = n /\ Push(p).peer = p /\ Push(p).st = st
    <2> DEFINE g == Goroutine("push", n, p)
    <2>1. g \in Task /\ g.op = "push" /\ g.own = n /\ g.peer = p
      BY <1>1, GoroutineFields DEF Ops
    <2> HIDE DEF g
    <2>2. LET t == [g EXCEPT !.st = task[s].st]
          IN t.op = "push" /\ t.own = n /\ t.peer = p /\ t.st = st
      BY <1>1, <2>1 DEF Task
    <2> QED
      BY <2>2 DEF g
  <1>4. PICK to \in Injection(conns[n], free) :
          task' = [r \in Slots |->
                     IF \E p \in conns[n] : to[p] = r
                     THEN Push(CHOOSE p \in conns[n] : to[p] = r)
                     ELSE IF r = s THEN Idle ELSE task[r]]
    BY Zenon DEF PushAll
  <1> HIDE DEF Push, n
  <1>5. to \in [conns[n] -> free] /\ \A p, q \in conns[n] : to[p] = to[q] => p = q
    BY <1>4 DEF Injection, IsInjective
  <1>6. ASSUME NEW p \in conns[n]
        PROVE  to[p] \in Slots /\ task'[to[p]] = Push(p)
    <2>1. to[p] \in Slots
      BY <1>5
    <2>2. (CHOOSE q \in conns[n] : to[q] = to[p]) = p
      BY <1>5
    <2> QED
      BY <1>4, <2>1, <2>2
  <1>7. ASSUME NEW r \in Slots
        PROVE  \/ \E p \in conns[n] : to[p] = r
               \/ r = s /\ task'[r] = Idle
               \/ r # s /\ task'[r] = task[r]
    BY <1>4
  <1>8. ASSUME NEW r \in Slots, task[r].op # "idle", r # s
        PROVE  task'[r] = task[r]
    BY <1>5, <1>7, <1>8
  <1>9. Unborn'
    BY <1>2 DEF JoinInv, Unborn
  <1>10. Unnoted'
    <2>1. ASSUME NEW m \in Nodes, NEW k \in (latest[m][Id(m)] + 1)..curr[Id(m)]
          PROVE  \E r \in Slots : task'[r].op = "created" /\ task'[r].st = <<Id(m), k>>
      <3>1. PICK r \in Slots : task[r].op = "created" /\ task[r].st = <<Id(m), k>>
        BY <2>1 DEF JoinInv, Unnoted
      <3> QED
        BY <1>1, <1>8, <3>1
    <2> QED
      BY <1>2, <2>1 DEF Unnoted, Id
  <1>11. ASSUME NEW r \in Slots PROVE Joins(task[r])'
    <2>1. CASE \E p \in conns[n] : to[p] = r
      <3>1. PICK p \in conns[n] : to[p] = r
        BY <2>1
      <3>2. task'[r].op = "push" /\ task'[r].own = n /\ task'[r].st = st
        BY <1>1, <1>3, <1>6, <3>1
      <3> QED
        BY <1>1, <1>2, <3>2 DEF Joins, OwnSession, ConnectsBack, Born, Id
    <2>2. CASE task'[r] = Idle
      BY <2>2, IdleFields DEF Joins, OwnSession, ConnectsBack, Born
    <2>3. CASE task'[r] = task[r]
      BY <1>2, <2>3 DEF JoinInv, Joins, OwnSession, ConnectsBack, Born, Id
    <2> QED
      BY <1>7, <2>1, <2>2, <2>3
  <1>12. JoinGapFree'
    <2>1. ASSUME NEW q \in Slots, NEW id, faults' = 0, task'[q].op = "update",
                 id = Id(task'[q].peer), id \in task'[q].left
          PROVE  NoGap(task'[q], had', task', curr', id)
      <3>1. task'[q] = task[q]
        BY <1>1, <1>3, <1>6, <1>7, <2>1, IdleFields
      <3>2. NoGap(task[q], had, task, curr, id)
        BY <1>2, <2>1, <3>1, GapFree DEF JoinInv
      <3>3. ASSUME NEW k, Arrives(<<id, k>>, task[q].own, had, task)
            PROVE  Arrives(<<id, k>>, task[q].own, had, task')
        <4>1. CASE \E r \in Slots \ {s} :
                     /\ task[r].st = <<id, k>>
                     /\ \/ task[r].op \in {"created", "noted"}
                        \/ task[r].op = "push" /\ task[r].peer = task[q].own
          BY <1>8, <4>1 DEF Arrives
        <4>2. CASE st = <<id, k>>
          <5>1. task[q].peer \in Nodes /\ task[q].own \in Nodes
            BY <2>1, <3>1, JoinTypes
          <5>2. task[q].peer = n
            BY <1>1, <2>1, <3>1, <4>2, <5>1, JoinTypes
          <5>3. task[q].own \in conns[n]
            BY <2>1, <3>1, <5>2 DEF JoinInv, Joins, ConnectsBack
          <5> QED
            BY <1>1, <1>3, <1>6, <4>2, <5>3 DEF Arrives
        <4> QED
          BY <1>1, <3>3, <4>1, <4>2 DEF Arrives
      <3> QED
        BY <1>2, <3>1, <3>2, <3>3 DEF NoGap
    <2>2. inc' = inc
      BY <1>2
    <2> QED
      BY <2>1, <2>2, GapFreeNext DEF Id
  <1> QED
    BY <1>9, <1>10, <1>11, <1>12 DEF JoinInv

\* The RPCs that a restart of n cuts.
Cut(t, n) == t.peer = n /\ t.op \in {"push", "pushed", "request", "connected", "accepted",
                                    "ask", "stream"}

\* What a restart of n leaves of the goroutine in slot s.
LEMMA RestartTask ==
  ASSUME Inv, NEW n \in Nodes, Restart(n), NEW s \in Slots
  PROVE  /\ task[s].own = n => task'[s] = Idle
         /\ task[s].own # n /\ Cut(task[s], n) => task'[s].op = "failed"
         /\ task[s].own # n /\ ~Cut(task[s], n) => Same(task[s], task'[s])
  <1> DEFINE t == IF Cut(task[s], n) THEN Anew(s, "failed") ELSE task[s]
  <1>1. task[s] \in Task
    BY DEF Inv, TypeOK
  <1>2. t \in Task /\ t.own = task[s].own /\ (Cut(task[s], n) => t.op = "failed")
    BY <1>1, AnewFields DEF Ops
  <1>3. task' = [r \in Slots |-> AfterRestart(r, n)]
    BY DEF Restart, AfterRestart
  <1>4. task'[s] = IF t.own = n THEN Idle
                   ELSE IF t.ctx \in Slots /\ task[t.ctx].own = n
                        THEN [t EXCEPT !.ctx = "done"] ELSE t
    BY <1>3 DEF AfterRestart, Cut
  <1>5. ~Cut(task[s], n) => t = task[s]
    OBVIOUS
  <1> HIDE DEF t
  <1>6. t.own # n => Same(t, task'[s])
    BY <1>2, <1>4 DEF Same, Task
  <1> QED
    BY <1>2, <1>4, <1>5, <1>6 DEF Same

\* A process is replaced.  Its logins and pushes are gone, and so is the
\* process they were about: what the answers of handshakes by other processes
\* are to be completed with is not touched.
LEMMA RestartJoin ==
  ASSUME Inv, JoinInv, NEW n \in Nodes, Restart(n)
  PROVE  JoinInv'
  <1>1. /\ inc \in [Nodes -> 0..MaxInc] /\ inc' = [inc EXCEPT ![n] = @ + 1] /\ inc[n] < MaxInc
        /\ latest \in [Nodes -> Latest] /\ latest' = [latest EXCEPT ![n] = NoLatest]
        /\ conns \in [Nodes -> SUBSET Nodes] /\ conns' = [conns EXCEPT ![n] = {}]
        /\ UNCHANGED <<curr, had, faults>> /\ MaxInc \in Nat /\ MaxSessions \in Nat
    BY ConstantsAssumption DEF Inv, TypeOK, Restart
  <1>2. /\ inc'[n] = inc[n] + 1 /\ \A m \in Nodes \ {n} : inc'[m] = inc[m]
        /\ \A m \in Nodes : inc[m] <= inc'[m]
        /\ latest'[n] = NoLatest /\ \A m \in Nodes \ {n} : latest'[m] = latest[m]
        /\ \A m \in Nodes \ {n} : conns'[m] = conns[m]
        /\ \A m \in Nodes : inc[m] \in 0..MaxInc
    BY <1>1
  <1>3. Unborn'
    <2> SUFFICES ASSUME NEW m \in Nodes, NEW i \in 0..MaxInc, i > inc'[m]
                 PROVE  curr[<<m, i>>] = 0
      BY <1>1 DEF Unborn
    <2>1. i > inc[m]
      BY <1>1, <1>2
    <2> QED
      BY <2>1 DEF JoinInv, Unborn
  <1>4. Unnoted'
    <2> SUFFICES ASSUME NEW m \in Nodes,
                        NEW k \in (latest'[m][<<m, inc'[m]>>] + 1)..curr[<<m, inc'[m]>>]
                 PROVE  \E r \in Slots : task'[r].op = "created" /\ task'[r].st = <<<<m, inc'[m]>>, k>>
      BY <1>1 DEF Unnoted, Id
    <2>1. CASE m = n
      <3>1. inc[n] + 1 \in 0..MaxInc /\ <<n, inc[n] + 1>> \in PeerIds
        BY <1>1, <1>2 DEF PeerIds
      <3>2. curr[<<n, inc[n] + 1>>] = 0
        BY <1>2, <3>1 DEF JoinInv, Unborn
      <3>3. latest'[n][<<n, inc[n] + 1>>] = 0
        BY <1>2, <3>1 DEF NoLatest
      <3> QED
        BY <1>2, <2>1, <3>2, <3>3
    <2>2. CASE m # n
      <3>1. <<m, inc'[m]>> = Id(m) /\ latest'[m] = latest[m]
        BY <1>2, <2>2 DEF Id
      <3>2. PICK r \in Slots : task[r].op = "created" /\ task[r].st = <<Id(m), k>>
        BY <3>1 DEF JoinInv, Unnoted
      <3>3. task[r].own = m
        <4>1. task[r].own \in Nodes
          BY <3>2, JoinTypes
        <4>2. task[r].st[1] = Id(task[r].own)
          BY <3>2 DEF JoinInv, Joins, OwnSession
        <4> QED
          BY <3>2, <4>1, <4>2 DEF Id
      <3>4. Same(task[r], task'[r])
        BY <2>2, <3>2, <3>3, RestartTask DEF Cut
      <3> QED
        BY <3>1, <3>2, <3>4 DEF Same
    <2> QED
      BY <2>1, <2>2
  <1>5. ASSUME NEW r \in Slots PROVE Joins(task[r])'
    <2>1. CASE task'[r].op \in {"idle", "failed"}
      BY <2>1 DEF Joins, OwnSession, ConnectsBack, Born
    <2>2. CASE task[r].own # n /\ ~Cut(task[r], n)
      <3>1. Same(task[r], task'[r]) /\ Joins(task[r])
        BY <2>2, RestartTask DEF JoinInv
      <3>2. OwnSession(task[r])'
        BY <1>2, <2>2, <3>1, JoinTypes DEF Same, Joins, OwnSession, Id
      <3>3. Born(task[r])'
        <4> SUFFICES ASSUME task[r].op = "update", NEW id \in task[r].left
                     PROVE  id[2] <= inc'[id[1]]
          BY <3>1 DEF Born, Same
        <4>1. id \in PeerIds /\ id[2] <= inc[id[1]]
          BY <3>1, JoinTypes DEF Joins, Born
        <4>2. id[1] \in Nodes /\ id[2] \in 0..MaxInc
          BY <4>1 DEF PeerIds
        <4>3. inc[id[1]] \in 0..MaxInc /\ inc[id[1]] <= inc'[id[1]] /\ inc'[id[1]] \in Int
          BY <1>1, <1>2, <4>2
        <4> QED
          BY <1>1, <4>1, <4>2, <4>3
      <3>4. ConnectsBack(task[r])'
        <4>1. ASSUME task[r].op \in {"connected", "accepted"}
              PROVE  task[r].own \in conns'[task[r].peer]
          <5>1. task[r].peer \in Nodes \ {n}
            BY <2>2, <4>1, JoinTypes DEF Cut
          <5> QED
            BY <1>2, <3>1, <4>1, <5>1 DEF Joins, ConnectsBack
        <4>2. ASSUME task[r].op = "update",
                     <<task[r].peer, inc'[task[r].peer]>> \in task[r].left
              PROVE  task[r].own \in conns'[task[r].peer]
          <5>1. task[r].peer \in Nodes
            BY <4>2, JoinTypes
          <5>2. task[r].peer # n
            <6>1. inc'[n] > inc[n]
              BY <1>2, <1>1
            <6>2. ASSUME task[r].peer = n PROVE inc'[n] <= inc[n]
              BY <3>1, <4>2, <6>2 DEF Joins, Born
            <6> QED
              BY <1>1, <1>2, <6>1, <6>2
          <5> QED
            BY <1>2, <3>1, <4>2, <5>1, <5>2 DEF Joins, ConnectsBack, Id
        <4> QED
          BY <3>1, <4>1, <4>2 DEF ConnectsBack, Same, Id
      <3> QED
        BY <3>2, <3>3, <3>4 DEF Joins
    <2> QED
      BY <2>1, <2>2, RestartTask, IdleFields
  <1>6. JoinGapFree'
    <2>1. ASSUME NEW q \in Slots, NEW id, faults' = 0, task'[q].op = "update",
                 id = <<task'[q].peer, inc'[task'[q].peer]>>, id \in task'[q].left
          PROVE  NoGap(task'[q], had', task', curr', id)
      <3>1. task[q].own # n /\ Same(task[q], task'[q])
        BY <2>1, RestartTask, IdleFields
      <3>2. task[q].op = "update" /\ task[q].peer \in Nodes /\ task[q].own \in Nodes
        BY <2>1, <3>1, JoinTypes DEF Same
      <3>3. task[q].peer # n
        <4>1. inc'[n] > inc[n]
          BY <1>2, <1>1
        <4>2. ASSUME task[q].peer = n PROVE inc'[n] <= inc[n]
          <5>1. <<n, inc'[n]>> \in task[q].left
            BY <2>1, <3>1, <4>2 DEF Same
          <5> QED
            BY <3>2, <5>1 DEF JoinInv, Joins, Born
        <4> QED
          BY <1>1, <1>2, <4>1, <4>2
      <3>4. id = Id(task[q].peer) /\ id \in task[q].left
        BY <1>2, <2>1, <3>1, <3>2, <3>3 DEF Same, Id
      <3>5. NoGap(task[q], had, task, curr, id)
        BY <1>1, <2>1, <3>2, <3>4, GapFree DEF JoinInv
      <3>6. ASSUME NEW r \in Slots, task[r].op \in {"created", "noted", "push"},
                   task[r].st[1] = id, task[r].op = "push" => task[r].peer = task[q].own
            PROVE  Same(task[r], task'[r])
        <4>1. task[r].own \in Nodes
          BY <3>6, JoinTypes
        <4>2. Id(task[r].own) = id
          BY <3>6 DEF JoinInv, Joins, OwnSession
        <4>3. task[r].own = task[q].peer
          BY <3>4, <4>2 DEF Id
        <4> QED
          BY <3>1, <3>3, <3>6, <4>3, RestartTask DEF Cut
      <3>7. ASSUME NEW k, Arrives(<<id, k>>, task[q].own, had, task)
            PROVE  Arrives(<<id, k>>, task[q].own, had, task')
        BY <3>6, <3>7 DEF Arrives, Same
      <3> QED
        BY <1>1, <3>1, <3>5, <3>7 DEF NoGap, Same
    <2> QED
      BY <2>1, GapFreeNext
  <1> QED
    BY <1>3, <1>4, <1>5, <1>6 DEF JoinInv

-----------------------------------------------------------------------------
(* The theorems *)

\* Every step is a quiet one, or one that has its lemma.
LEMMA StepKinds ==
  ASSUME Inv, JoinInv, [Next]_vars
  PROVE  \/ Quiet
         \/ \E s \in Slots : NoteCreated(s) \/ PushAll(s) \/ \E n \in Nodes : CreateSession(s, n)
         \/ \E n \in Nodes : Restart(n)
  <1>1. CASE UNCHANGED vars
    BY <1>1, TasklessQuiet DEF vars, nodeVars, connVars
  <1>2. ASSUME NEW s \in Slots, TaskStep(s) \/ RpcFails(s), ~NoteCreated(s), ~PushAll(s)
        PROVE  Quiet
    <2>1. HandshakeReply(s) => Quiet
      BY HandshakeReplyQuiet DEF JoinInv, Joins
    <2>2. (\E r \in Slots : HandshakeConnect(s, r) \/ HandshakeAccept(s, r)) => Quiet
      BY HandshakeConnectQuiet, HandshakeAcceptQuiet DEF JoinInv, Joins
    <2>3. (\E st \in Stamps : StreamStore(s, st)) => Quiet
      BY StreamStoreQuiet
    <2> QED
      BY <1>2, <2>1, <2>2, <2>3, PushQuiet, ConnectQuiet, UpdateQuiet, FailsQuiet, ReestablishQuiet
      DEF TaskStep
  <1>3. CASE Updates
    BY <1>3, TasklessQuiet DEF Updates, UpdateFailed, nodeVars
  <1>4. ASSUME NEW n \in Seekers, Worker(n) PROVE Quiet
    BY <1>4, ConnectQuiet, ConstantsAssumption DEF Worker
  <1>5. ASSUME NEW n \in Cleaners, NEW st \in Stamps, Clean(n, st) PROVE Quiet
    BY <1>5, TasklessQuiet DEF Clean, connVars
  <1> QED
    BY <1>1, <1>2, <1>3, <1>4, <1>5, ConstantsAssumption DEF Next

\* Processes start with nothing to note, and no handshake under way.
LEMMA InitJoin == Init => JoinInv
  <1> SUFFICES ASSUME Init PROVE JoinInv
    OBVIOUS
  <1>1. Inv
    BY InitInv
  <1>2. /\ \A n \in Nodes : latest[n][Id(n)] = 0 /\ curr[Id(n)] = 0
        /\ \A s \in Slots : task[s].op = "idle"
    BY <1>1, JoinTypes, IdleFields DEF Init, NoLatest
  <1>3. Unborn
    BY DEF Init, Unborn, PeerIds
  <1> QED
    BY <1>2, <1>3 DEF JoinInv, Unnoted, Joins, OwnSession, ConnectsBack, Born, JoinGapFree

\* Every step keeps the invariant.
LEMMA NextJoin == Inv /\ JoinInv /\ [Next]_vars => JoinInv'
  <1> SUFFICES ASSUME Inv, JoinInv, [Next]_vars PROVE JoinInv'
    OBVIOUS
  <1>1. Inv'
    BY NextInv
  <1> QED
    BY <1>1, StepKinds, QuietJoin, NoteCreatedJoin, PushAllJoin, CreateSessionJoin, RestartJoin

\* When a node has the answer to its handshake, every session the answering
\* process issued, or issues later, that the answer does not tell of has
\* reached the node or is still being pushed to it, as long as no RPC has
\* failed: whatever order logins, notes, handshakes and pushes run in, and
\* whoever else restarts.
THEOREM NothingBetween == Spec => []JoinGapFree
  <1>1. Spec => [](Inv /\ JoinInv)
    BY InitInv, NextInv, InitJoin, NextJoin, PTL DEF Spec
  <1>2. JoinInv => JoinGapFree
    BY DEF JoinInv
  <1> QED
    BY <1>1, <1>2, PTL

\* Who waits for the transport has used up the once of the connection.
OnceInv ==
    /\ \A s \in Slots : task[s].op = "wait" => task[s].peer \in spent[task[s].own]
    /\ OneReestablisher

\* Steps by which nobody begins to wait.
LEMMA OnceKept ==
  ASSUME OnceInv, \A r \in Slots : task'[r].op = "wait" => Same(task[r], task'[r]),
         \A r \in Slots : task'[r].op = "wait" =>
           (task[r].peer \in spent[task[r].own] => task[r].peer \in spent'[task[r].own])
  PROVE  OnceInv'
  <1>1. \A r \in Slots : task'[r].op = "wait" =>
          task[r].op = "wait" /\ task'[r].own = task[r].own /\ task'[r].peer = task[r].peer
    BY DEF Same
  <1>2. \A r \in Slots : task'[r].op = "wait" => task'[r].peer \in spent'[task'[r].own]
    BY <1>1 DEF OnceInv
  <1>3. OneReestablisher'
    BY <1>1 DEF OnceInv, OneReestablisher
  <1> QED
    BY <1>2, <1>3 DEF OnceInv

\* Every step keeps it: reestablish waits only if the once was not used up,
\* and renews it only when it waits no more.
LEMMA NextOnce == Inv /\ JoinInv /\ OnceInv /\ [Next]_vars => OnceInv'
  <1> SUFFICES ASSUME Inv, JoinInv, OnceInv, [Next]_vars PROVE OnceInv'
    OBVIOUS
  <1>1. /\ task \in [Slots -> Task] /\ spent \in [Nodes -> SUBSET Nodes]
        /\ \A r \in Slots : task[r].op \in WithPeer => task[r].own \in Nodes /\ task[r].peer \in Nodes
    BY DEF Inv, TypeOK, Good, WithPeer, Ops
  <1>2. ASSUME NEW s \in Slots, Reestablish(s) PROVE OnceInv'
    <2> DEFINE n == task[s].own
               p == task[s].peer
    <2>1. /\ n \in Nodes /\ p \notin spent[n] /\ spent' = [spent EXCEPT ![n] = @ \cup {p}]
      BY <1>1, <1>2 DEF Reestablish, WithPeer, Ops
    <2>2. PICK t \in {Idle, Anew(s, "wait")} : task' = [task EXCEPT ![s] = t]
      BY <1>2 DEF Reestablish
    <2>3. t.op = "wait" => t.own = n /\ t.peer = p
      BY <1>1, IdleFields, AnewFields DEF Ops
    <2> HIDE DEF n, p
    <2>4. task'[s] = t /\ \A r \in Slots \ {s} : task'[r] = task[r]
      BY <1>1, <2>2
    <2>5. \A m \in Nodes : spent[m] \subseteq spent'[m]
      BY <1>1, <2>1
    <2>6. p \in spent'[n]
      BY <1>1, <2>1
    <2>7. \A r \in Slots \ {s} : task[r].op = "wait" =>
            task[r].own \in Nodes /\ task[r].peer \in spent[task[r].own]
      BY <1>1 DEF OnceInv, WithPeer, Ops
    <2>8. \A r \in Slots : task'[r].op = "wait" => task'[r].peer \in spent'[task'[r].own]
      BY <2>3, <2>4, <2>5, <2>6, <2>7
    <2>9. OneReestablisher'
      BY <2>1, <2>3, <2>4, <2>7 DEF OnceInv, OneReestablisher
    <2> QED
      BY <2>8, <2>9 DEF OnceInv
  <1>3. ASSUME NEW s \in Slots, Recover(s) PROVE OnceInv'
    <2>1. /\ task' = [task EXCEPT ![s] = At(s, "shake")] /\ task[s].op = "wait"
          /\ spent' = [spent EXCEPT ![task[s].own] = @ \ {task[s].peer}]
          /\ task[s].own \in Nodes /\ At(s, "shake").op = "shake"
      BY <1>1, <1>3, AtFields DEF Recover, Become, WithPeer, Ops
    <2>2. task'[s].op = "shake" /\ \A r \in Slots \ {s} : task'[r] = task[r]
      BY <1>1, <2>1
    <2>3. \A r \in Slots : task'[r].op = "wait" => r # s /\ Same(task[r], task'[r])
      BY <2>2 DEF Same
    <2>4. ASSUME NEW r \in Slots, task'[r].op = "wait", task[r].peer \in spent[task[r].own]
          PROVE  task[r].peer \in spent'[task[r].own]
      <3>1. r # s /\ task[r].op = "wait" /\ task[r].own \in Nodes
        BY <1>1, <2>2, <2>4 DEF WithPeer, Ops
      <3>2. task[r].own # task[s].own \/ task[r].peer # task[s].peer
        BY <2>1, <3>1 DEF OnceInv, OneReestablisher
      <3> QED
        BY <1>1, <2>1, <2>4, <3>1, <3>2
    <2> QED
      BY <2>3, <2>4, OnceKept
  <1>4. ASSUME NEW n \in Nodes, Restart(n) PROVE OnceInv'
    <2>1. spent' = [spent EXCEPT ![n] = {}]
      BY <1>4 DEF Restart
    <2>2. \A r \in Slots : task'[r].op = "wait" => task[r].own # n /\ Same(task[r], task'[r])
      BY <1>4, RestartTask, IdleFields
    <2>3. ASSUME NEW r \in Slots, task'[r].op = "wait", task[r].peer \in spent[task[r].own]
          PROVE  task[r].peer \in spent'[task[r].own]
      <3>1. task[r].own \in Nodes \ {n}
        BY <1>1, <2>2, <2>3 DEF Same, WithPeer, Ops
      <3> QED
        BY <1>1, <2>1, <2>3, <3>1
    <2> QED
      BY <2>2, <2>3, OnceKept
  <1>5. ASSUME NEW s \in Slots, NoteCreated(s) \/ PushAll(s) \/ \E n \in Nodes : CreateSession(s, n)
        PROVE  OnceInv'
    <2>1. spent' = spent
      BY <1>5 DEF NoteCreated, PushAll, CreateSession, connVars
    <2>2. \A r \in Slots : task'[r].op = "wait" => Same(task[r], task'[r])
      <3>1. CASE NoteCreated(s)
        <4>1. task' = [task EXCEPT ![s] = At(s, "noted")] /\ At(s, "noted").op = "noted"
          BY <1>1, <3>1, AtFields DEF NoteCreated, Become, Ops
        <4> QED
          BY <1>1, <4>1 DEF Same
      <3>2. ASSUME NEW n \in Nodes, CreateSession(s, n)
            PROVE  \A r \in Slots : task'[r].op = "wait" => Same(task[r], task'[r])
        <4> DEFINE g == Goroutine("created", n, None)
                   t == [g EXCEPT !.st = <<Id(n), curr[Id(n)] + 1>>]
        <4>1. g \in Task /\ g.op = "created"
          BY GoroutineFields DEF Ops
        <4>2. task' = [task EXCEPT ![s] = t]
          BY <3>2 DEF CreateSession, Become
        <4> HIDE DEF g
        <4>3. t.op = "created"
          BY <4>1 DEF Task
        <4> HIDE DEF t
        <4> QED
          BY <1>1, <4>2, <4>3 DEF Same
      <3>3. CASE PushAll(s)
        <4> DEFINE n == task[s].own
                   Push(p) == [Goroutine("push", n, p) EXCEPT !.st = task[s].st]
        <4>1. n \in Nodes /\ conns[n] \subseteq Nodes
          BY <3>3 DEF Inv, TypeOK, Good, PushAll
        <4>2. PICK to \in Injection(conns[n], {s} \cup {r \in Slots : task[r].op = "idle"}) :
                task' = [r \in Slots |->
                           IF \E p \in conns[n] : to[p] = r
                           THEN Push(CHOOSE p \in conns[n] : to[p] = r)
                           ELSE IF r = s THEN Idle ELSE task[r]]
          BY <3>3, Zenon DEF PushAll
        <4>3. ASSUME NEW p \in Nodes PROVE Push(p).op = "push"
          <5> DEFINE g == Goroutine("push", n, p)
          <5>1. g \in Task /\ g.op = "push"
            BY <4>1, GoroutineFields DEF Ops
          <5> HIDE DEF g
          <5>2. [g EXCEPT !.st = task[s].st].op = "push"
            BY <5>1 DEF Task
          <5> QED
            BY <5>2 DEF g
        <4> HIDE DEF Push, n
        <4>4. ASSUME NEW r \in Slots
              PROVE  \/ \E p \in Nodes : task'[r] = Push(p)
                     \/ task'[r] = Idle
                     \/ task'[r] = task[r]
          <5>1. (\E p \in conns[n] : to[p] = r) => (CHOOSE p \in conns[n] : to[p] = r) \in Nodes
            BY <4>1
          <5> QED
            BY <4>2, <5>1
        <4> QED
          BY <4>3, <4>4, IdleFields DEF Same
      <3> QED
        BY <1>5, <3>1, <3>2, <3>3
    <2> QED
      BY <2>1, <2>2, OnceKept
  <1>6. ASSUME Quiet, ~(\E s \in Slots : Reestablish(s)), spent' = spent PROVE OnceInv'
    <2>1. \A r \in Slots : task'[r].op = "wait" => Same(task[r], task'[r])
      BY <1>6 DEF Quiet, Enters
    <2> QED
      BY <1>6, <2>1, OnceKept
  <1>7. \/ spent' = spent
        \/ \E s \in Slots : Reestablish(s) \/ Recover(s)
        \/ \E n \in Nodes : Restart(n)
    <2>1. ASSUME NEW s \in Slots, TaskStep(s) \/ RpcFails(s), ~Reestablish(s), ~Recover(s)
          PROVE  spent' = spent
      <3>1. (NoteCreated(s) \/ PushAll(s) \/ PushStore(s) \/ PushRefused(s) \/ PushNote(s))
              => spent' = spent
        BY DEF NoteCreated, PushAll, PushStore, PushRefused, PushNote, connVars
      <3>2. (HandshakeSend(s) \/ HandshakeReply(s)
          \/ (\E r \in Slots : HandshakeConnect(s, r) \/ HandshakeAccept(s, r)))
              => spent' = spent
        BY DEF HandshakeSend, HandshakeConnect, HandshakeAccept, HandshakeReply, connVars
      <3>3. (UpdateNone(s) \/ UpdateNeeded(s) \/ StreamRequest(s) \/ StreamOpen(s) \/ StreamEnd(s)
              \/ \E st \in Stamps : StreamStore(s, st) \/ StreamRefused(s, st))
              => spent' = spent
        BY DEF UpdateNone, UpdateNeeded, StreamRequest, StreamOpen, StreamStore, StreamRefused,
           StreamEnd, connVars
      <3>4. (RpcCanceled(s) \/ RpcFails(s) \/ ReestablishSkip(s)) => spent' = spent
        BY DEF RpcCanceled, RpcFails, Fails, ReestablishSkip, connVars
      <3> QED
        BY <2>1, <3>1, <3>2, <3>3, <3>4 DEF TaskStep
    <2>2. ASSUME NEW n \in Cleaners, NEW st \in Stamps, Clean(n, st) PROVE spent' = spent
      BY <2>2 DEF Clean, connVars
    <2>3. ASSUME NEW s \in Slots, NEW n \in Issuers, CreateSession(s, n) PROVE spent' = spent
      BY <2>3 DEF CreateSession, connVars
    <2>4. Updates \/ (\E n \in Seekers : Worker(n)) \/ UNCHANGED vars => spent' = spent
      BY DEF Updates, UpdateFailed, Worker, Connect, vars, connVars
    <2> QED
      BY <2>1, <2>2, <2>3, <2>4 DEF Next
  <1> QED
    BY <1>2, <1>3, <1>4, <1>5, <1>6, <1>7, StepKinds

\* Two goroutines never wait for the transport of the same connection, however
\* many of its RPCs fail at once: the once lets one in until it has recovered.
THEOREM OnceIsExclusive == Spec => []OneReestablisher
  <1>1. Init => OnceInv
    BY IdleFields DEF Init, OnceInv, OneReestablisher
  <1>2. Spec => [](Inv /\ JoinInv /\ OnceInv)
    BY <1>1, InitInv, NextInv, InitJoin, NextJoin, NextOnce, PTL DEF Spec
  <1>3. OnceInv => OneReestablisher
    BY DEF OnceInv
  <1> QED
    BY <1>2, <1>3, PTL

-----------------------------------------------------------------------------
(* Session stores *)

\* The store of the process with peer id <<n, i>>, as SessionLog has it.
Log(n, i) == INSTANCE SessionLog WITH
    Self <- <<n, i>>, Remotes <- PeerIds \ {<<n, i>>}, MaxSerial <- MaxSessions,
    curr <- curr[<<n, i>>], log <- store[n]

\* As long as a process runs, all that happens to its store is what SessionLog
\* allows: it starts empty, its own sessions get the next serial and are
\* always the newest, and whatever pushes and streams bring of its own
\* sessions, those that come back included, it had issued before.
THEOREM StoresAreLogs ==
    Spec => /\ \A n \in Nodes : Log(n, 0)!LogInit
            /\ [][\A n \in Nodes, i \in 0..MaxInc :
                    inc[n] = i /\ inc'[n] = i => [Log(n, i)!LogNext]_<<curr[<<n, i>>], store[n]>>]_vars
  <1> DEFINE Step == \A n \in Nodes, i \in 0..MaxInc :
               inc[n] = i /\ inc'[n] = i => [Log(n, i)!LogNext]_<<curr[<<n, i>>], store[n]>>
  <1>1. Init => \A n \in Nodes : Log(n, 0)!LogInit
    BY ConstantsAssumption DEF Init, Log!LogInit, PeerIds
  <1>2. ASSUME Inv, [Next]_vars, NEW n \in Nodes, NEW i \in 0..MaxInc, inc[n] = i, inc'[n] = i
        PROVE  [Log(n, i)!LogNext]_<<curr[<<n, i>>], store[n]>>
    <2> USE <1>2
    <2>1. /\ inc \in [Nodes -> 0..MaxInc] /\ curr \in [PeerIds -> 0..MaxSessions]
          /\ store \in [Nodes -> SUBSET Stamps] /\ task \in [Slots -> Task]
          /\ <<n, i>> \in PeerIds /\ Id(n) = <<n, i>>
      BY DEF Inv, TypeOK, PeerIds, Id
    <2>2. \A st \in store[n] : st \in Stamps /\ IssuedBy(curr, st)
      BY <2>1 DEF Inv, NodesGood
    <2>3. ASSUME NEW s \in Slots, NEW m \in Issuers, CreateSession(s, m)
          PROVE  [Log(n, i)!LogNext]_<<curr[<<n, i>>], store[n]>>
      <3>1. m \in Nodes /\ Id(m) \in PeerIds
        BY <2>1, ConstantsAssumption DEF PeerIds, Id
      <3>2. CASE m = n
        <4>1. /\ curr[<<n, i>>] < MaxSessions
              /\ curr'[<<n, i>>] = curr[<<n, i>>] + 1
              /\ store'[n] = store[n] \cup {<<<<n, i>>, curr[<<n, i>>] + 1>>}
          BY <2>1, <2>3, <3>2 DEF CreateSession, MaySession, Set
        <4>2. \A e \in store[n] : e[1] = <<n, i>> => e[2] < curr[<<n, i>>] + 1
          BY <2>1, <2>2, ConstantsAssumption DEF IssuedBy, Stamps
        <4> QED
          BY <4>1, <4>2 DEF Log!LogNext, Log!Issue, Log!Newest
      <3>3. CASE m # n
        <4>1. Id(m) # <<n, i>>
          BY <3>3 DEF Id
        <4> QED
          BY <2>1, <2>3, <3>1, <3>3, <4>1 DEF CreateSession, Set
      <3> QED
        BY <3>2, <3>3
    <2>4. ASSUME NEW m \in Nodes, NEW st \in Stamps, Newest(m, st), Set(m, st),
                 IssuedBy(curr, st), UNCHANGED curr
          PROVE  [Log(n, i)!LogNext]_<<curr[<<n, i>>], store[n]>>
      <3>1. CASE m = n
        <4>1. /\ st[1] = <<n, i>> => st[2] <= curr[<<n, i>>]
              /\ \A e \in store[n] : e[1] = st[1] => e[2] < st[2]
              /\ store'[n] = store[n] \cup {st}
              /\ curr'[<<n, i>>] = curr[<<n, i>>]
          BY <2>1, <2>4, <3>1 DEF Newest, Set, IssuedBy
        <4>2. st \in Log(n, i)!Stamps
          BY <2>1 DEF Log!Stamps, Log!Peers, Log!Serials, Stamps
        <4> QED
          BY <4>1, <4>2 DEF Log!LogNext, Log!Learn, Log!Newest
      <3>2. CASE m # n
        BY <2>1, <2>4, <3>2 DEF Set
      <3> QED
        BY <3>1, <3>2
    <2>5. ASSUME NEW s \in Slots, PushStore(s) PROVE [Log(n, i)!LogNext]_<<curr[<<n, i>>], store[n]>>
      <3>1. task[s].peer \in Nodes /\ task[s].st \in Stamps /\ IssuedBy(curr, task[s].st)
        <4>1. Good(task[s], had, curr) /\ task[s].op = "push"
          BY <2>5 DEF Inv, PushStore, Become
        <4>2. None \notin Stamps
          BY ConstantsAssumption
        <4> QED
          BY <4>1, <4>2 DEF Good, WithPeer, WithSession, Ops
      <3> QED
        BY <2>4, <2>5, <3>1 DEF PushStore
    <2>6. ASSUME NEW s \in Slots, NEW st \in Stamps, StreamStore(s, st)
          PROVE  [Log(n, i)!LogNext]_<<curr[<<n, i>>], store[n]>>
      <3>1. Good(task[s], had, curr) /\ task[s].op = "stream"
        BY <2>6 DEF Inv, StreamStore, Become
      <3>2. task[s].own \in Nodes /\ task[s].peer \in Nodes
        BY <3>1 DEF Good, WithPeer, Ops
      <3>3. IssuedBy(curr, st)
        <4>1. st \in task[s].todo \/ st \in store[task[s].peer]
          BY <2>6 DEF StreamStore, NextInStream, Offered
        <4>2. \A e \in store[task[s].peer] : IssuedBy(curr, e)
          BY <3>2 DEF Inv, NodesGood
        <4> QED
          BY <3>1, <4>1, <4>2 DEF Good
      <3> QED
        BY <2>4, <2>6, <3>2, <3>3 DEF StreamStore
    <2>7. ASSUME NEW m \in Cleaners, NEW st \in Stamps, Clean(m, st)
          PROVE  [Log(n, i)!LogNext]_<<curr[<<n, i>>], store[n]>>
      <3>1. st \in Log(n, i)!Stamps
        BY <2>1 DEF Log!Stamps, Log!Peers, Log!Serials, Stamps
      <3>2. /\ store'[n] = store[n] \/ (st \in store[n] /\ store'[n] = store[n] \ {st})
            /\ curr'[<<n, i>>] = curr[<<n, i>>]
        BY <2>1, <2>7, ConstantsAssumption DEF Clean
      <3> QED
        BY <3>1, <3>2 DEF Log!LogNext, Log!Forget
    <2>8. ASSUME NEW m \in Nodes, Restart(m)
          PROVE  store'[n] = store[n] /\ curr' = curr
      BY <2>1, <2>8 DEF Restart
    <2>9. \/ UNCHANGED <<curr, store>>
          \/ \E s \in Slots : PushStore(s) \/ \E st \in Stamps : StreamStore(s, st)
          \/ \E s \in Slots, m \in Issuers : CreateSession(s, m)
          \/ \E m \in Nodes : Restart(m)
          \/ \E m \in Cleaners, st \in Stamps : Clean(m, st)
      <3>1. ASSUME NEW s \in Slots, TaskStep(s) \/ RpcFails(s),
                   ~PushStore(s), ~(\E st \in Stamps : StreamStore(s, st))
            PROVE  UNCHANGED <<curr, store>>
        <4>1. (NoteCreated(s) \/ PushAll(s) \/ PushRefused(s) \/ PushNote(s))
                => UNCHANGED <<curr, store>>
          BY DEF NoteCreated, PushAll, PushRefused, PushNote, nodeVars
        <4>2. (HandshakeSend(s) \/ HandshakeReply(s)
          \/ (\E r \in Slots : HandshakeConnect(s, r) \/ HandshakeAccept(s, r)))
                => UNCHANGED <<curr, store>>
          BY DEF HandshakeSend, HandshakeConnect, HandshakeAccept, HandshakeReply, nodeVars
        <4>3. (UpdateNone(s) \/ UpdateNeeded(s) \/ StreamRequest(s) \/ StreamOpen(s) \/ StreamEnd(s)
                \/ \E st \in Stamps : StreamRefused(s, st)) => UNCHANGED <<curr, store>>
          BY DEF UpdateNone, UpdateNeeded, StreamRequest, StreamOpen, StreamRefused, StreamEnd, nodeVars
        <4>4. (RpcCanceled(s) \/ RpcFails(s) \/ ReestablishSkip(s) \/ Reestablish(s) \/ Recover(s))
                => UNCHANGED <<curr, store>>
          BY DEF RpcCanceled, RpcFails, Fails, ReestablishSkip, Reestablish, Recover, nodeVars
        <4> QED
          BY <3>1, <4>1, <4>2, <4>3, <4>4 DEF TaskStep
      <3>2. Updates \/ (\E m \in Seekers : Worker(m)) \/ UNCHANGED vars => UNCHANGED <<curr, store>>
        BY DEF Updates, UpdateFailed, Worker, Connect, vars, nodeVars
      <3> QED
        BY <3>1, <3>2 DEF Next
    <2> QED
      BY <2>3, <2>5, <2>6, <2>7, <2>8, <2>9
  <1>3. Inv /\ [Next]_vars => Step
    BY <1>2
  <1> QED
    BY <1>1, <1>3, InitInv, NextInv, PTL DEF Spec

=============================================================================
