---------------------------- MODULE SessionStore ----------------------------
(***************************************************************************)
(* The in-memory session store of one node (state/session/store.go): lists  *)
(* of stamped sessions per issuing peer, an index by session id, and two    *)
(* read-write mutexes shared by callers of Set and Get, by the goroutines   *)
(* Stream starts, and by the cleaner.                                       *)
(*                                                                          *)
(* A list holds serials; Content says which session a stamp carries, so a   *)
(* stamp stands for the whole Stamped record.  A critical section that no   *)
(* other thread can observe half-way is one step; acquiring a lock that may *)
(* block is a step of its own.                                              *)
(***************************************************************************)
EXTENDS Integers, Sequences, FiniteSets

CONSTANTS
    Self,       \* peer id of the node that owns the store
    Remotes,    \* peer ids of the other nodes
    MaxSerial,  \* bound on serials
    Ids,        \* session ids (SHA-512 of the session JWT)
    Content,    \* the session each stamp carries
    MaxNow,     \* bound on the clock
    Grace,      \* config.Sessions.CleaningGracePeriod
    Requests,   \* what Stream is asked for: the lowest serial wanted of each peer
    Setters,    \* goroutines that call Set
    Getters,    \* goroutines that call Get
    Streamers,  \* goroutines started by Stream
    Quitters,   \* the streamers whose consumer may stop receiving
    Cleaner,    \* the goroutine started by NewSessionStore
    None        \* no thread, no list, no session

Peers == Remotes \cup {Self}
Serials == 1..MaxSerial
Stamps == Peers \X Serials
Session == [id : Ids, expiry : 0..MaxNow]
Threads == Setters \cup Getters \cup Streamers \cup {Cleaner}

ASSUME BoundsAssumption == MaxSerial \in Nat /\ MaxNow \in Nat /\ Grace \in Nat
ASSUME ContentAssumption == Content \in [Stamps -> Session]
ASSUME RequestsAssumption == Requests \subseteq [Peers -> 0..MaxSerial]
ASSUME ThreadsAssumption ==
    /\ Cleaner \notin Setters \cup Getters \cup Streamers
    /\ Setters \cap (Getters \cup Streamers) = {}
    /\ Getters \cap Streamers = {}
    /\ Quitters \subseteq Streamers
ASSUME NoneAssumption ==
    /\ None \notin Threads
    /\ None \notin Peers
    /\ None \notin Stamps
    /\ None \notin Session
    /\ Self \notin Remotes

VARIABLES
    curr,    \* sessionStore.curr
    made,    \* the peers for which sessionStore.store has a list
    store,   \* sessionStore.store: the serials in each list, front to back
    lookup,  \* sessionStore.lookup
    mu,      \* sessionStore.mu, a record [w, r]
    delMu,   \* sessionStore.delMu
    now,     \* time.Now()
    pc,      \* where each thread is
    arg,     \* the stamp each setter was called with, None for the zero Stamp
    got,     \* what each getter last returned
    stream,  \* the state of each streaming goroutine
    clean    \* the state of the cleaner

data == <<curr, made, store, lookup>>
locks == <<mu, delMu>>
vars == <<data, locks, now, pc, arg, got, stream, clean>>

-----------------------------------------------------------------------------
(* sync.RWMutex: w is the writer that has announced itself, which keeps new *)
(* readers out; it owns the lock once the readers r have left.              *)

Unlocked == [w |-> None, r |-> {}]
RLock(m, t) == [m EXCEPT !.r = @ \cup {t}]
RUnlock(m, t) == [m EXCEPT !.r = @ \ {t}]
Announce(m, t) == [m EXCEPT !.w = t]
Unlock(m) == [m EXCEPT !.w = None]
Open(m) == m.w = None
Owns(m, t) == m.w = t /\ m.r = {}

Goto(t, from, to) == pc[t] = from /\ pc' = [pc EXCEPT ![t] = to]

-----------------------------------------------------------------------------
NoStream == [from |-> [p \in Peers |-> 0], todo |-> {}, list |-> None, pos |-> 0,
             snap |-> {}, sent |-> {}, gone |-> FALSE]
NoClean == [min |-> 0, todo |-> {}, known |-> {}, list |-> None, pos |-> 0]

\* NewSessionStore
Init ==
    /\ curr = 0
    /\ made = {}
    /\ store = [p \in Peers |-> <<>>]
    /\ lookup = [id \in Ids |-> None]
    /\ mu = Unlocked
    /\ delMu = Unlocked
    /\ now = 0
    /\ pc = [t \in Threads |-> "idle"]
    /\ arg = [t \in Setters |-> None]
    /\ got = [t \in Getters |-> None]
    /\ stream = [t \in Streamers |-> NoStream]
    /\ clean = NoClean

-----------------------------------------------------------------------------
(* Set *)

\* Calls that will still take a serial (counted for the bound MaxSerial only).
Issuing == {t \in Setters : pc[t] # "idle" /\ arg[t] = None}

\* A call with the zero Stamp, by the node itself (st = None), or with the
\* stamp of a peer.  Peers hand back only sessions of ours that we issued.
SetCall(t, st) ==
    /\ IF st = None THEN curr + Cardinality(Issuing) < MaxSerial
                    ELSE st[1] = Self => st[2] <= curr
    /\ Goto(t, "idle", "set")
    /\ arg' = [arg EXCEPT ![t] = st]
    /\ UNCHANGED <<data, locks, now, got, stream, clean>>

SetAnnounce(t) ==
    /\ Goto(t, "set", "setting")
    /\ Open(mu)
    /\ mu' = Announce(mu, t)
    /\ UNCHANGED <<data, delMu, now, arg, got, stream, clean>>

\* Faulty variants, which the properties must tell apart from the code.
InOrder_Unchecked(p, k) == TRUE
InOrder_AcceptsEqual(p, k) == store[p] # <<>> => store[p][Len(store[p])] <= k
InOrder_Inverted(p, k) == store[p] # <<>> => store[p][Len(store[p])] >= k

InOrder(p, k) == store[p] # <<>> => store[p][Len(store[p])] < k

\* Faulty: a refused session loses its entry in the index.
Put_UnindexesRefused(p, k) ==
    /\ made' = made \cup {p}
    /\ \/ /\ InOrder(p, k)
          /\ store' = [store EXCEPT ![p] = Append(@, k)]
          /\ lookup' = [lookup EXCEPT ![Content[<<p, k>>].id] = Content[<<p, k>>]]
       \/ /\ ~InOrder(p, k)
          /\ lookup' = [lookup EXCEPT ![Content[<<p, k>>].id] = None]
          /\ UNCHANGED store

\* Either the session goes to the back of its list and into the index, or it
\* is refused as out of order.
Put(p, k) ==
    /\ made' = made \cup {p}
    /\ \/ /\ InOrder(p, k)
          /\ store' = [store EXCEPT ![p] = Append(@, k)]
          /\ lookup' = [lookup EXCEPT ![Content[<<p, k>>].id] = Content[<<p, k>>]]
       \/ /\ ~InOrder(p, k)
          /\ UNCHANGED <<store, lookup>>

\* Faulty: a session from a peer advances curr as well.
SetRun_CountsAll(t) ==
    /\ Goto(t, "setting", "idle")
    /\ Owns(mu, t)
    /\ curr' = curr + 1
    /\ \/ arg[t] = None /\ curr < MaxSerial /\ Put(Self, curr + 1)
       \/ arg[t] # None /\ Put(arg[t][1], arg[t][2])
    /\ mu' = Unlock(mu)
    /\ arg' = [arg EXCEPT ![t] = None]
    /\ UNCHANGED <<delMu, now, got, stream, clean>>
SetRun(t) ==
    /\ Goto(t, "setting", "idle")
    /\ Owns(mu, t)
    /\ \/ /\ arg[t] = None
          /\ curr < MaxSerial
          /\ curr' = curr + 1
          /\ Put(Self, curr + 1)
       \/ /\ arg[t] # None
          /\ UNCHANGED curr
          /\ Put(arg[t][1], arg[t][2])
    /\ mu' = Unlock(mu)
    /\ arg' = [arg EXCEPT ![t] = None]
    /\ UNCHANGED <<delMu, now, got, stream, clean>>

-----------------------------------------------------------------------------
(* Get *)

GetCall(t) ==
    /\ Goto(t, "idle", "get")
    /\ UNCHANGED <<data, locks, now, arg, got, stream, clean>>

GetRead(t, id) ==
    /\ Goto(t, "get", "idle")
    /\ Open(mu)
    /\ got' = [got EXCEPT ![t] = lookup[id]]
    /\ UNCHANGED <<data, locks, now, arg, stream, clean>>

-----------------------------------------------------------------------------
(* Stream.  The goroutine walks the lists without mu while Set appends to   *)
(* them; of what was appended after the goroutine started it may see all,   *)
(* some or nothing (the data race on list.List), of what was there before   *)
(* (snap) it sees everything.                                               *)

Held == {st \in Stamps : \E i \in DOMAIN store[st[1]] : store[st[1]][i] = st[2]}

\* Under mu.RLock, held for no longer than this step.
StreamOpen(t, from) ==
    /\ Open(mu)
    /\ Goto(t, "idle", "lock")
    /\ stream' = [stream EXCEPT ![t] =
                    [NoStream EXCEPT !.from = from, !.todo = made, !.snap = Held]]
    /\ UNCHANGED <<data, locks, now, arg, got, clean>>

\* Faulty: the goroutine does not take delMu.
StreamLock_NoLock(t) ==
    /\ Goto(t, "lock", "walk")
    /\ UNCHANGED <<data, locks, now, arg, got, stream, clean>>

StreamLock(t) ==
    /\ Goto(t, "lock", "walk")
    /\ Open(delMu)
    /\ delMu' = RLock(delMu, t)
    /\ UNCHANGED <<data, mu, now, arg, got, stream, clean>>

\* What the goroutine has still to visit in the list it is in.
Rest(t) ==
    LET p == stream[t].list
    IN IF p = None THEN {}
       ELSE {<<p, store[p][i]>> : i \in (stream[t].pos + 1)..Len(store[p])}

ListDone(t) == pc[t] = "walk" /\ Rest(t) \cap stream[t].snap = {}

\* Faulty: the visit begins behind the front of the list.
StreamList_SkipsFront(t, p) ==
    /\ ListDone(t)
    /\ p \in stream[t].todo
    /\ stream' = [stream EXCEPT ![t] = [stream[t] EXCEPT !.todo = @ \ {p}, !.list = p, !.pos = 1]]
    /\ UNCHANGED <<data, locks, now, pc, arg, got, clean>>

\* Faulty: the list is not taken off the lists to visit.
StreamList_Again(t, p) ==
    /\ ListDone(t)
    /\ p \in stream[t].todo
    /\ stream' = [stream EXCEPT ![t] = [stream[t] EXCEPT !.list = p, !.pos = 0]]
    /\ UNCHANGED <<data, locks, now, pc, arg, got, clean>>

StreamList(t, p) ==
    /\ ListDone(t)
    /\ p \in stream[t].todo
    /\ stream' = [stream EXCEPT ![t] = [stream[t] EXCEPT !.todo = @ \ {p}, !.list = p, !.pos = 0]]
    /\ UNCHANGED <<data, locks, now, pc, arg, got, clean>>

Wanted(t, st) == st[2] >= stream[t].from[st[1]]

\* The session at the next position, and whether it is sent (ch <- v).
StreamStep(t) ==
    /\ pc[t] = "walk"
    /\ Rest(t) # {}
    /\ LET st == <<stream[t].list, store[stream[t].list][stream[t].pos + 1]>>
       IN \/ /\ Wanted(t, st)
             /\ ~stream[t].gone
             /\ stream' = [stream EXCEPT ![t] = [stream[t] EXCEPT !.pos = @ + 1, !.sent = @ \cup {st}]]
          \/ /\ ~Wanted(t, st)
             /\ stream' = [stream EXCEPT ![t] = [stream[t] EXCEPT !.pos = @ + 1]]
    /\ UNCHANGED <<data, locks, now, pc, arg, got, clean>>

StreamClose(t) ==
    /\ ListDone(t)
    /\ stream[t].todo = {}
    /\ Goto(t, "walk", "idle")
    /\ delMu' = RUnlock(delMu, t)
    /\ stream' = [stream EXCEPT ![t] = NoStream]
    /\ UNCHANGED <<data, mu, now, arg, got, clean>>

\* The consumer returns without draining the channel: replicationServer's
\* StreamSessions when Send fails, the dashboard when its template does.
StreamAbandon(t) ==
    /\ t \in Quitters
    /\ pc[t] \in {"lock", "walk"}
    /\ ~stream[t].gone
    /\ stream' = [stream EXCEPT ![t] = [stream[t] EXCEPT !.gone = TRUE]]
    /\ UNCHANGED <<data, locks, now, pc, arg, got, clean>>

-----------------------------------------------------------------------------
(* cleaner, clean and delete *)

\* Faulty: a session counts as expired at its expiry.
Expired_Early(p, i) == Content[<<p, store[p][i]>>].expiry <= clean.min

Expired(p, i) == Content[<<p, store[p][i]>>].expiry < clean.min

\* Faulty: the time is taken once, when the cleaner starts.
CleanTick_OldTime ==
    /\ Goto(Cleaner, "idle", "rlock")
    /\ clean' = [NoClean EXCEPT !.min = 0 - Grace]
    /\ UNCHANGED <<data, locks, now, arg, got, stream>>

CleanTick ==
    /\ Goto(Cleaner, "idle", "rlock")
    /\ clean' = [NoClean EXCEPT !.min = now - Grace]
    /\ UNCHANGED <<data, locks, now, arg, got, stream>>

\* Faulty: delMu is awaited without mu.
CleanRLock_DelMuFirst ==
    /\ Goto(Cleaner, "rlock", "lock")
    /\ Open(mu)
    /\ delMu' = Announce(delMu, Cleaner)
    /\ UNCHANGED <<data, mu, now, arg, got, stream, clean>>

\* mu.RLock, then delMu.Lock as far as announcing itself.
CleanRLock ==
    /\ Goto(Cleaner, "rlock", "lock")
    /\ Open(mu)
    /\ mu' = RLock(mu, Cleaner)
    /\ delMu' = Announce(delMu, Cleaner)
    /\ UNCHANGED <<data, now, arg, got, stream, clean>>

CleanBegin ==
    /\ Goto(Cleaner, "lock", "walk")
    /\ Owns(delMu, Cleaner)
    /\ clean' = [clean EXCEPT !.todo = made, !.known = made]
    /\ UNCHANGED <<data, locks, now, arg, got, stream>>

\* The first expired session of the list p; mu is released to delete it.
CleanFind(p, i) ==
    /\ Goto(Cleaner, "walk", "unlocked")
    /\ p \in clean.todo
    /\ i \in DOMAIN store[p] /\ Expired(p, i)
    /\ \A j \in 1..(i - 1) : ~Expired(p, j)
    /\ clean' = [clean EXCEPT !.todo = @ \ {p}, !.list = p, !.pos = i]
    /\ mu' = RUnlock(mu, Cleaner)
    /\ UNCHANGED <<data, delMu, now, arg, got, stream>>

CleanAnnounce ==
    /\ Goto(Cleaner, "unlocked", "delete")
    /\ Open(mu)
    /\ mu' = Announce(mu, Cleaner)
    /\ UNCHANGED <<data, delMu, now, arg, got, stream, clean>>

Without(s, i) == [j \in 1..(Len(s) - 1) |-> IF j < i THEN s[j] ELSE s[j + 1]]

\* Faulty: the index keeps the session.
CleanDelete_KeepsIndex ==
    LET p == clean.list
        st == <<p, store[p][clean.pos]>>
    IN /\ Goto(Cleaner, "delete", "relock")
       /\ Owns(mu, Cleaner)
       /\ store' = [store EXCEPT ![p] = Without(@, clean.pos)]
       /\ mu' = Unlock(mu)
       /\ clean' = [clean EXCEPT !.list = None, !.pos = 0]
       /\ stream' = [t \in Streamers |->
            IF pc[t] = "lock" THEN [stream[t] EXCEPT !.snap = @ \ {st}] ELSE stream[t]]
       /\ UNCHANGED <<curr, made, lookup, delMu, now, arg, got>>

\* After l.Remove(e), e.Next() is nil: this ends the visit of the list.  A
\* stream that has yet to take delMu will not see the session.
CleanDelete ==
    LET p == clean.list
        st == <<p, store[p][clean.pos]>>
    IN /\ Goto(Cleaner, "delete", "relock")
       /\ Owns(mu, Cleaner)
       /\ store' = [store EXCEPT ![p] = Without(@, clean.pos)]
       /\ lookup' = [lookup EXCEPT ![Content[st].id] = None]
       /\ mu' = Unlock(mu)
       /\ clean' = [clean EXCEPT !.list = None, !.pos = 0]
       /\ stream' = [t \in Streamers |->
            IF pc[t] = "lock" THEN [stream[t] EXCEPT !.snap = @ \ {st}] ELSE stream[t]]
       /\ UNCHANGED <<curr, made, delMu, now, arg, got>>

\* Go may or may not iterate over the lists made while mu was free (extra).
CleanRelock(extra) ==
    /\ extra \cap clean.known = {}
    /\ Goto(Cleaner, "relock", "walk")
    /\ Open(mu)
    /\ mu' = RLock(mu, Cleaner)
    /\ clean' = [clean EXCEPT !.todo = @ \cup extra, !.known = @ \cup extra]
    /\ UNCHANGED <<data, delMu, now, arg, got, stream>>

CleanEnd ==
    /\ Goto(Cleaner, "walk", "idle")
    /\ \A p \in clean.todo : \A i \in DOMAIN store[p] : ~Expired(p, i)
    /\ mu' = RUnlock(mu, Cleaner)
    /\ delMu' = Unlock(delMu)
    /\ clean' = NoClean
    /\ UNCHANGED <<data, now, arg, got, stream>>

-----------------------------------------------------------------------------
Elapse ==
    /\ now < MaxNow
    /\ now' = now + 1
    /\ UNCHANGED <<data, locks, pc, arg, got, stream, clean>>

SetStep(t) == (\E st \in Stamps \cup {None} : SetCall(t, st)) \/ SetAnnounce(t) \/ SetRun(t)
GetStep(t) == GetCall(t) \/ \E id \in Ids : GetRead(t, id)
StreamWalk(t) == (\E p \in Peers : StreamList(t, p)) \/ StreamStep(t) \/ StreamClose(t)
StreamStart(t) == \E from \in Requests : StreamOpen(t, from)
CleanWalk ==
    \/ CleanTick \/ CleanBegin \/ CleanEnd \/ CleanDelete
    \/ \E p \in Peers : \E i \in DOMAIN store[p] : CleanFind(p, i)

Next ==
    \/ \E t \in Setters : SetStep(t)
    \/ \E t \in Getters : GetStep(t)
    \/ \E t \in Streamers : StreamStart(t) \/ StreamLock(t) \/ StreamWalk(t) \/ StreamAbandon(t)
    \/ CleanWalk \/ CleanRLock \/ CleanAnnounce \/ (\E extra \in SUBSET made : CleanRelock(extra))
    \/ Elapse

Spec == Init /\ [][Next]_vars

\* The scheduler runs every goroutine that can run; Go's mutexes let every
\* waiter in eventually; the ticker keeps ticking.  Calls are not fair.
Fairness ==
    /\ \A t \in Setters : SF_vars(SetAnnounce(t)) /\ WF_vars(SetRun(t))
    /\ \A t \in Getters : SF_vars(\E id \in Ids : GetRead(t, id))
    /\ \A t \in Streamers : SF_vars(StreamLock(t)) /\ WF_vars(StreamWalk(t))
    /\ SF_vars(CleanRLock) /\ SF_vars(CleanAnnounce)
    /\ SF_vars(\E extra \in SUBSET made : CleanRelock(extra))
    /\ WF_vars(CleanWalk)

FairSpec == Spec /\ Fairness

-----------------------------------------------------------------------------
(* Properties *)

StreamState ==
    [from : [Peers -> 0..MaxSerial], todo : SUBSET Peers, list : Peers \cup {None},
     pos : Nat, snap : SUBSET Stamps, sent : SUBSET Stamps, gone : BOOLEAN]
CleanState ==
    [min : Int, todo : SUBSET Peers, known : SUBSET Peers, list : Peers \cup {None},
     pos : Nat]
CleanPcs == {"idle", "rlock", "lock", "walk", "unlocked", "delete", "relock"}
Pcs == {"set", "setting", "get"} \cup CleanPcs

\* The shape of the store's fields, locks and threads' local state.
TypeOK ==
    /\ curr \in 0..MaxSerial
    /\ made \in SUBSET Peers
    /\ store \in [Peers -> Seq(Serials)]
    /\ lookup \in [Ids -> Session \cup {None}]
    /\ mu \in [w : Setters \cup {Cleaner, None}, r : SUBSET {Cleaner}]
    /\ delMu \in [w : {Cleaner, None}, r : SUBSET Streamers]
    /\ now \in 0..MaxNow
    /\ pc \in [Threads -> Pcs]
    /\ \A t \in Setters : pc[t] \in {"idle", "set", "setting"}
    /\ \A t \in Getters : pc[t] \in {"idle", "get"}
    /\ \A t \in Streamers : pc[t] \in {"idle", "lock", "walk"}
    /\ pc[Cleaner] \in CleanPcs
    /\ arg \in [Setters -> Stamps \cup {None}]
    /\ got \in [Getters -> Session \cup {None}]
    /\ stream \in [Streamers -> StreamState]
    /\ clean \in CleanState

\* Every list is strictly ascending: however local Sets, pushed and streamed
\* sessions and the cleaner interleave, the check against the back of the
\* list is enough to keep serials in order and unique per peer.
StoreOrdered ==
    \A p \in Peers : \A i, j \in DOMAIN store[p] : i < j => store[p][i] < store[p][j]

\* What Get can return is a session that is still listed, so the index never
\* keeps a session the cleaner has removed.
LookupBacked ==
    \A id \in Ids : lookup[id] # None =>
        /\ lookup[id].id = id
        /\ \E st \in Held : Content[st] = lookup[id]

\* The serials this node hands out are never refused: no copy of one of its
\* own sessions that comes back from a peer is ahead of curr.
OwnSerialsBounded == \A i \in DOMAIN store[Self] : store[Self][i] <= curr
LocalSetAccepted == [][curr' # curr => store'[Self] = Append(store[Self], curr')]_vars

\* A goroutine that iterates over the lists never has a session it was
\* started with removed under its feet, not even by a cleaner that has given
\* up mu in the middle of its pass.
StreamUndisturbed == \A t \in Streamers : pc[t] = "walk" => stream[t].snap \subseteq Held

\* A stream skips nothing: every session of at least the requested serial
\* that was there at the start is already sent or still ahead.
Ahead(t) == Rest(t) \cup {st \in Held : st[1] \in stream[t].todo}
StreamComplete ==
    \A t \in Streamers : \A st \in stream[t].snap :
        pc[t] = "walk" /\ Wanted(t, st) => st \in stream[t].sent \cup Ahead(t)

\* A stream sends the sessions of one peer in ascending order, never twice:
\* the receiver, which refuses anything else, could not store them otherwise.
StreamAscending ==
    [][\A t \in Streamers : \A new \in stream'[t].sent \ stream[t].sent :
         \A old \in stream[t].sent : old[1] = new[1] => old[2] < new[2]]_vars

\* A session leaves the store only when it expired longer than the grace
\* period ago, even if the cleaner acts long after the tick it started from.
OnlyExpiredRemoved ==
    [][\A st \in Held \ Held' : Content[st].expiry < now - Grace]_vars

\* A session that Get returned to a request still in progress is listed, or
\* has been expired for longer than the grace period.
GotListedOrExpired ==
    \A t \in Getters : got[t] # None =>
        got[t].expiry < now - Grace \/ \E st \in Held : Content[st] = got[t]

\* A listed session stays reachable by its id until an expired session with
\* the same id goes.
Reachable == {st \in Held : lookup[Content[st].id] # None}
ReachableUntilExpiry ==
    [][\A st \in Reachable : st \notin Reachable' =>
         \E ex \in Held \ Held' : Content[ex].id = Content[st].id]_vars

\* An abandoned stream that still has something to send keeps delMu, and a
\* cleaner that waits for delMu keeps mu: from then on no session is stored,
\* removed or indexed again.
Stuck(t) == stream[t].gone /\ \E st \in stream[t].snap : Wanted(t, st) /\ st \in Ahead(t)
Wedged == pc[Cleaner] = "lock" /\ \E t \in Streamers : pc[t] = "walk" /\ Stuck(t)
WedgedForever == [][Wedged => Wedged' /\ UNCHANGED <<store, lookup, curr>>]_vars

\* Every call of Set and Get returns and every stream ends, as long as the
\* consumers of streams keep receiving.
OperationsReturn ==
    \A t \in Threads \ {Cleaner} : pc[t] # "idle" ~> pc[t] = "idle"

\* Every session that has expired is removed, although a pass of the cleaner
\* removes at most one session of each list.
Overdue(st) == st \in Held /\ Content[st].expiry < now - Grace
ExpiredCleaned == \A st \in Stamps : Overdue(st) ~> st \notin Held

-----------------------------------------------------------------------------
(* The store implements the contract of SessionLog. *)

Log == INSTANCE SessionLog WITH log <- Held
ImplementsLog == Log!LogSpec
=============================================================================
