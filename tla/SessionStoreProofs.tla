------------------------- MODULE SessionStoreProofs -------------------------
(***************************************************************************)
(* Proofs about SessionStore for every number of peers, serials, sessions   *)
(* and threads.  The inductive invariant is Inv: the types, who holds which *)
(* lock at which program counter, where the cleaner's cursor points, and    *)
(* the order and index invariants.  On top of it, MadeInv and WalkInv say   *)
(* what a stream has sent and where it stands.                              *)
(***************************************************************************)
EXTENDS SessionStore, TLAPS

-----------------------------------------------------------------------------
(* Who holds a lock is determined by where the threads are. *)

LockInv ==
    /\ \A t \in Setters : mu.w = t <=> pc[t] = "setting"
    /\ mu.w = Cleaner <=> pc[Cleaner] = "delete"
    /\ Cleaner \in mu.r <=> pc[Cleaner] \in {"lock", "walk"}
    /\ \A t \in Streamers : t \in delMu.r <=> pc[t] = "walk"
    /\ delMu.w = Cleaner <=> pc[Cleaner] \notin {"idle", "rlock"}
    /\ pc[Cleaner] \in {"walk", "unlocked", "delete", "relock"} => delMu.r = {}

\* The cleaner's cursor stays on the expired session it found while it does
\* not hold mu, and the limit it works with lies in the past.
CursorInv ==
    /\ pc[Cleaner] # "idle" => clean.min <= now - Grace
    /\ pc[Cleaner] \in {"unlocked", "delete"} =>
        /\ clean.list \in Peers
        /\ clean.pos \in DOMAIN store[clean.list]
        /\ Expired(clean.list, clean.pos)

-----------------------------------------------------------------------------
(* Lists *)

\* Removing one element of a sequence leaves a sequence, one shorter.
LEMMA WithoutType ==
    ASSUME NEW S, NEW s \in Seq(S), NEW i \in DOMAIN s
    PROVE  /\ Without(s, i) \in Seq(S)
           /\ Len(Without(s, i)) = Len(s) - 1
<1>. DEFINE n == Len(s) - 1
<1>1. n \in Nat /\ Len(s) \in Nat /\ DOMAIN s = 1..Len(s)
  OBVIOUS
<1>2. \A j \in 1..n : s[j] \in S /\ s[j + 1] \in S
  BY <1>1
<1>3. Without(s, i) \in [1..n -> S]
  BY <1>1, <1>2 DEF Without
<1>4. Without(s, i) \in Seq(S)
  BY <1>1, <1>3
<1>5. Len(Without(s, i)) \in Nat /\ 1..Len(Without(s, i)) = 1..n
  BY <1>3, <1>4
<1>6. Len(Without(s, i)) = n
  <2>. HIDE DEF n
  <2>. DEFINE m == Len(Without(s, i))
  <2>. HIDE DEF m
  <2>1. m \in Nat /\ 1..m = 1..n
    BY <1>5 DEF m
  <2>2. m <= n
    BY <1>1, <2>1
  <2>3. n <= m
    BY <1>1, <2>1
  <2>. QED
    BY <1>1, <2>1, <2>2, <2>3 DEF m
<1>. QED
  BY <1>4, <1>6

\* Its elements are those of the sequence but the removed one, in order.
LEMMA WithoutElements ==
    ASSUME NEW S, NEW s \in Seq(S), NEW i \in DOMAIN s
    PROVE  /\ DOMAIN Without(s, i) = 1..(Len(s) - 1)
           /\ \A j \in 1..(Len(s) - 1) :
                Without(s, i)[j] = IF j < i THEN s[j] ELSE s[j + 1]
           /\ \A j \in DOMAIN s : j # i =>
                \E m \in DOMAIN Without(s, i) : Without(s, i)[m] = s[j]
<1>1. Len(s) \in Nat /\ DOMAIN s = 1..Len(s)
  OBVIOUS
<1>2. DOMAIN Without(s, i) = 1..(Len(s) - 1)
  BY DEF Without
<1>3. \A j \in 1..(Len(s) - 1) : Without(s, i)[j] = IF j < i THEN s[j] ELSE s[j + 1]
  BY DEF Without
<1>4. ASSUME NEW j \in DOMAIN s, j # i
      PROVE  \E m \in DOMAIN Without(s, i) : Without(s, i)[m] = s[j]
  <2>1. CASE j < i
    <3>1. j \in 1..(Len(s) - 1)
      BY <1>1, <2>1
    <3>. QED
      BY <1>2, <1>3, <2>1, <3>1
  <2>2. CASE j > i
    <3>1. j - 1 \in 1..(Len(s) - 1) /\ ~(j - 1 < i) /\ (j - 1) + 1 = j
      BY <1>1, <2>2
    <3>. QED
      BY <1>2, <1>3, <3>1
  <2>. QED
    BY <1>1, <1>4, <2>1, <2>2
<1>. QED
  BY <1>2, <1>3, <1>4

-----------------------------------------------------------------------------
(* Types *)

\* The updates a streaming goroutine and the cleaner make keep their types.
LEMMA StreamStateUpdates ==
    ASSUME NEW r \in StreamState
    PROVE  /\ \A p \in Peers :
                [r EXCEPT !.todo = @ \ {p}, !.list = p, !.pos = 0] \in StreamState
           /\ \A st \in Stamps :
                /\ [r EXCEPT !.pos = @ + 1, !.sent = @ \cup {st}] \in StreamState
                /\ [r EXCEPT !.snap = @ \ {st}] \in StreamState
           /\ [r EXCEPT !.pos = @ + 1] \in StreamState
           /\ [r EXCEPT !.gone = TRUE] \in StreamState
<1>1. \A st \in Stamps : r.sent \cup {st} \in SUBSET Stamps
  BY DEF StreamState
<1>2. r.pos + 1 \in Nat
  BY DEF StreamState
<1>3. \A n \in Nat, S \in SUBSET Stamps : [r EXCEPT !.pos = n, !.sent = S] \in StreamState
  BY DEF StreamState
<1>4. \A st \in Stamps : [r EXCEPT !.pos = @ + 1, !.sent = @ \cup {st}] \in StreamState
  BY <1>1, <1>2, <1>3
<1>5. \A p \in Peers : [r EXCEPT !.todo = @ \ {p}, !.list = p, !.pos = 0] \in StreamState
  BY DEF StreamState
<1>6. \A st \in Stamps : [r EXCEPT !.snap = @ \ {st}] \in StreamState
  BY DEF StreamState
<1>7. [r EXCEPT !.pos = @ + 1] \in StreamState
  BY DEF StreamState
<1>8. [r EXCEPT !.gone = TRUE] \in StreamState
  BY DEF StreamState
<1>. QED
  BY <1>4, <1>5, <1>6, <1>7, <1>8

\* The same of the cleaner's state, as CleanTick to CleanEnd update it.
LEMMA CleanStateUpdates ==
    ASSUME NEW r \in CleanState
    PROVE  /\ \A p \in Peers, i \in Nat :
                [r EXCEPT !.todo = @ \ {p}, !.list = p, !.pos = i] \in CleanState
           /\ [r EXCEPT !.list = None, !.pos = 0] \in CleanState
           /\ \A S \in SUBSET Peers :
                /\ [r EXCEPT !.todo = S, !.known = S] \in CleanState
                /\ [r EXCEPT !.todo = @ \cup S, !.known = @ \cup S] \in CleanState
BY DEF CleanState

\* What Put leaves in the lists and the index has the right shape.
LEMMA PutType ==
    ASSUME TypeOK, NEW p \in Peers, NEW k \in Serials, Put(p, k)
    PROVE  /\ made' \in SUBSET Peers
           /\ store' \in [Peers -> Seq(Serials)]
           /\ lookup' \in [Ids -> Session \cup {None}]
<1>1. <<p, k>> \in Stamps
  BY DEF Stamps
<1>2. Content[<<p, k>>] \in Session /\ Content[<<p, k>>].id \in Ids
  BY <1>1, ContentAssumption DEF Session
<1>3. Append(store[p], k) \in Seq(Serials)
  BY DEF TypeOK
<1>4. store' = [store EXCEPT ![p] = Append(@, k)] \/ store' = store
  <2>1. CASE InOrder(p, k)
    BY <2>1 DEF Put
  <2>2. CASE ~InOrder(p, k)
    BY <2>2 DEF Put
  <2>. QED
    BY <2>1, <2>2
<1>5. store' \in [Peers -> Seq(Serials)]
  <2>. DEFINE l == Append(store[p], k)
              Lists == Seq(Serials)
  <2>1. store \in [Peers -> Lists] /\ l \in Lists
    BY <1>3 DEF TypeOK
  <2>2. store' = [store EXCEPT ![p] = l] \/ store' = store
    BY <1>4
  <2>. HIDE DEF l, Lists
  <2>3. store' \in [Peers -> Lists]
    BY <2>1, <2>2
  <2>. QED
    BY <2>3 DEF Lists
<1>6. \/ lookup' = [lookup EXCEPT ![Content[<<p, k>>].id] = Content[<<p, k>>]]
      \/ lookup' = lookup
  BY DEF Put
<1>7. lookup' \in [Ids -> Session \cup {None}]
  BY <1>2, <1>6 DEF TypeOK
<1>. QED
  BY <1>5, <1>7 DEF TypeOK, Put

\* The types are preserved by every step, given where the cleaner's cursor is.
LEMMA TypeStep ==
    ASSUME TypeOK, CursorInv, [Next]_vars
    PROVE  TypeOK'
<1>. USE DEF Pcs, CleanPcs, Threads
<1>1. ASSUME NEW t \in Setters, NEW st \in Stamps \cup {None}, SetCall(t, st)
      PROVE  TypeOK'
  BY <1>1, ThreadsAssumption DEF TypeOK, SetCall, Goto, data, locks
<1>2. ASSUME NEW t \in Setters, SetAnnounce(t)
      PROVE  TypeOK'
  BY <1>2 DEF TypeOK, SetAnnounce, Goto, data, Announce, Open
<1>3. ASSUME NEW t \in Setters, SetRun(t)
      PROVE  TypeOK'
  <2>1. /\ curr' \in 0..MaxSerial
        /\ made' \in SUBSET Peers
        /\ store' \in [Peers -> Seq(Serials)]
        /\ lookup' \in [Ids -> Session \cup {None}]
    <3>1. CASE arg[t] = None
      <4>1. /\ curr < MaxSerial /\ curr' = curr + 1 /\ Put(Self, curr + 1)
        BY <1>3, <3>1 DEF SetRun
      <4>2. curr + 1 \in Serials /\ curr' \in 0..MaxSerial /\ Self \in Peers
        BY <4>1, BoundsAssumption DEF TypeOK, Serials, Peers
      <4>. QED
        BY <4>1, <4>2, PutType
    <3>2. CASE arg[t] # None
      <4>1. /\ UNCHANGED curr /\ Put(arg[t][1], arg[t][2])
        BY <1>3, <3>2 DEF SetRun
      <4>2. arg[t][1] \in Peers /\ arg[t][2] \in Serials
        BY <3>2 DEF TypeOK, Stamps
      <4>. QED
        BY <4>1, <4>2, PutType DEF TypeOK
    <3>. QED
      BY <3>1, <3>2
  <2>. QED
    BY <1>3, <2>1 DEF TypeOK, SetRun, Goto, Unlock
<1>4. ASSUME NEW t \in Getters, GetCall(t)
      PROVE  TypeOK'
  BY <1>4, ThreadsAssumption DEF TypeOK, GetCall, Goto, data, locks
<1>5. ASSUME NEW t \in Getters, NEW id \in Ids, GetRead(t, id)
      PROVE  TypeOK'
  BY <1>5 DEF TypeOK, GetRead, Goto, data, locks
<1>6. ASSUME NEW t \in Streamers, NEW from \in Requests, StreamOpen(t, from)
      PROVE  TypeOK'
  <2>1. from \in [Peers -> 0..MaxSerial] /\ Held \in SUBSET Stamps
    BY RequestsAssumption DEF Held
  <2>2. [NoStream EXCEPT !.from = from, !.todo = made, !.snap = Held] \in StreamState
    BY <2>1 DEF TypeOK, StreamState, NoStream
  <2>. QED
    BY <1>6, <2>2, ThreadsAssumption DEF TypeOK, StreamOpen, Goto, data, locks
<1>7. ASSUME NEW t \in Streamers, StreamLock(t)
      PROVE  TypeOK'
  BY <1>7 DEF TypeOK, StreamLock, Goto, data, RLock, Open
<1>8. ASSUME NEW t \in Streamers, NEW p \in Peers, StreamList(t, p)
      PROVE  TypeOK'
  <2>. DEFINE r == [stream[t] EXCEPT !.todo = @ \ {p}, !.list = p, !.pos = 0]
  <2>1. r \in StreamState
    BY StreamStateUpdates DEF TypeOK
  <2>2. stream' = [stream EXCEPT ![t] = r]
    BY <1>8 DEF StreamList
  <2>. HIDE DEF r
  <2>. QED
    BY <1>8, <2>1, <2>2 DEF TypeOK, StreamList, data, locks
<1>9. ASSUME NEW t \in Streamers, StreamStep(t)
      PROVE  TypeOK'
  <2>. DEFINE p == stream[t].list
              st == <<p, store[p][stream[t].pos + 1]>>
  <2>1. p \in Peers /\ st \in Stamps
    <3>1. PICK i \in (stream[t].pos + 1)..Len(store[p]) : p # None
      BY <1>9 DEF StreamStep, Rest
    <3>2. p \in Peers /\ stream[t].pos \in Nat
      BY <3>1 DEF TypeOK, StreamState
    <3>3. store[p] \in Seq(Serials) /\ stream[t].pos + 1 \in 1..Len(store[p])
      BY <3>1, <3>2 DEF TypeOK
    <3>. QED
      BY <3>2, <3>3 DEF Stamps
  <2>. DEFINE r1 == [stream[t] EXCEPT !.pos = @ + 1, !.sent = @ \cup {st}]
              r2 == [stream[t] EXCEPT !.pos = @ + 1]
  <2>2. r1 \in StreamState /\ r2 \in StreamState
    BY <2>1, StreamStateUpdates DEF TypeOK
  <2>3. stream' = [stream EXCEPT ![t] = r1] \/ stream' = [stream EXCEPT ![t] = r2]
    BY <1>9 DEF StreamStep
  <2>. HIDE DEF r1, r2
  <2>4. stream' \in [Streamers -> StreamState]
    BY <2>2, <2>3 DEF TypeOK
  <2>. QED
    BY <1>9, <2>4 DEF TypeOK, StreamStep, data, locks
<1>10. ASSUME NEW t \in Streamers, StreamClose(t)
       PROVE  TypeOK'
  <2>1. NoStream \in StreamState
    BY BoundsAssumption DEF NoStream, StreamState
  <2>. QED
    BY <1>10, <2>1 DEF TypeOK, StreamClose, Goto, data, RUnlock
<1>11. ASSUME NEW t \in Streamers, StreamAbandon(t)
       PROVE  TypeOK'
  <2>1. [stream[t] EXCEPT !.gone = TRUE] \in StreamState
    BY StreamStateUpdates DEF TypeOK
  <2>. QED
    BY <1>11, <2>1 DEF TypeOK, StreamAbandon, data, locks
<1>12. ASSUME CleanTick PROVE TypeOK'
  <2>1. [NoClean EXCEPT !.min = now - Grace] \in CleanState
    BY BoundsAssumption DEF TypeOK, NoClean, CleanState
  <2>. QED
    BY <1>12, <2>1, ThreadsAssumption DEF TypeOK, CleanTick, Goto, data, locks
<1>13. ASSUME CleanRLock PROVE TypeOK'
  BY <1>13 DEF TypeOK, CleanRLock, Goto, data, Open, RLock, Announce
<1>14. ASSUME CleanBegin PROVE TypeOK'
  BY <1>14 DEF TypeOK, CleanBegin, CleanState, Goto, data, locks
<1>15. ASSUME NEW p \in Peers, NEW i \in DOMAIN store[p], CleanFind(p, i)
       PROVE  TypeOK'
  <2>1. i \in Nat
    BY DEF TypeOK
  <2>2. clean' \in CleanState
    <3>1. [clean EXCEPT !.todo = @ \ {p}, !.list = p, !.pos = i] \in CleanState
      BY <2>1, CleanStateUpdates DEF TypeOK
    <3>. QED
      BY <1>15, <3>1 DEF CleanFind
  <2>3. mu' \in [w : Setters \cup {Cleaner, None}, r : SUBSET {Cleaner}]
    <3>1. mu' = RUnlock(mu, Cleaner)
      BY <1>15 DEF CleanFind
    <3>. QED
      BY <3>1 DEF TypeOK, RUnlock
  <2>. QED
    BY <1>15, <2>2, <2>3, ThreadsAssumption DEF TypeOK, CleanFind, Goto, data
<1>16. ASSUME CleanAnnounce PROVE TypeOK'
  BY <1>16 DEF TypeOK, CleanAnnounce, Goto, data, Open, Announce
<1>17. ASSUME CleanDelete PROVE TypeOK'
  <2>1. clean.list \in Peers /\ clean.pos \in DOMAIN store[clean.list]
    BY <1>17 DEF CursorInv, CleanDelete, Goto
  <2>2. Without(store[clean.list], clean.pos) \in Seq(Serials)
    BY <2>1, WithoutType DEF TypeOK
  <2>3. store' \in [Peers -> Seq(Serials)]
    BY <1>17, <2>1, <2>2 DEF TypeOK, CleanDelete
  <2>4. lookup' \in [Ids -> Session \cup {None}]
    BY <1>17 DEF TypeOK, CleanDelete
  <2>5. stream' \in [Streamers -> StreamState]
    <3>. DEFINE st == <<clean.list, store[clean.list][clean.pos]>>
    <3>1. st \in Stamps
      BY <2>1 DEF TypeOK, Stamps
    <3>2. \A t \in Streamers : [stream[t] EXCEPT !.snap = @ \ {st}] \in StreamState
      BY <3>1, StreamStateUpdates DEF TypeOK
    <3>3. stream' = [t \in Streamers |->
            IF pc[t] = "lock" THEN [stream[t] EXCEPT !.snap = @ \ {st}] ELSE stream[t]]
      BY <1>17 DEF CleanDelete
    <3>. QED
      BY <3>2, <3>3 DEF TypeOK
  <2>6. mu' \in [w : Setters \cup {Cleaner, None}, r : SUBSET {Cleaner}]
    BY <1>17 DEF TypeOK, CleanDelete, Unlock
  <2>7. clean' \in CleanState
    BY <1>17 DEF TypeOK, CleanDelete, CleanState
  <2>. QED
    BY <1>17, <2>3, <2>4, <2>5, <2>6, <2>7 DEF TypeOK, CleanDelete, Goto
<1>18. ASSUME NEW extra \in SUBSET made, CleanRelock(extra)
       PROVE  TypeOK'
  BY <1>18 DEF TypeOK, CleanRelock, CleanState, Goto, data, Open, RLock
<1>19. ASSUME CleanEnd PROVE TypeOK'
  <2>1. NoClean \in CleanState
    BY DEF NoClean, CleanState
  <2>. QED
    BY <1>19, <2>1 DEF TypeOK, CleanEnd, Goto, data, RUnlock, Unlock
<1>20. ASSUME Elapse PROVE TypeOK'
  BY <1>20, BoundsAssumption DEF TypeOK, Elapse, data, locks
<1>21. ASSUME UNCHANGED vars PROVE TypeOK'
  BY <1>21 DEF TypeOK, vars, data, locks
<1>. QED
  BY <1>1, <1>2, <1>3, <1>4, <1>5, <1>6, <1>7, <1>8, <1>9, <1>10, <1>11, <1>12, <1>13,
     <1>14, <1>15, <1>16, <1>17, <1>18, <1>19, <1>20, <1>21
  DEF Next, SetStep, GetStep, StreamStart, StreamWalk, CleanWalk

-----------------------------------------------------------------------------
(* Locks and the cleaner's cursor *)

\* A thread holds a lock exactly between the steps that take and release it.
LEMMA LockStep ==
    ASSUME TypeOK, LockInv, [Next]_vars
    PROVE  LockInv'
<1>1. ASSUME NEW t \in Setters, NEW st \in Stamps \cup {None}, SetCall(t, st)
      PROVE  LockInv'
  BY <1>1, ThreadsAssumption, NoneAssumption DEF TypeOK, LockInv, Threads, SetCall, Goto, data, locks
<1>2. ASSUME NEW t \in Setters, SetAnnounce(t)
      PROVE  LockInv'
  BY <1>2, ThreadsAssumption, NoneAssumption DEF TypeOK, LockInv, Threads, SetAnnounce, Goto, data, Announce, Open
<1>3. ASSUME NEW t \in Setters, SetRun(t)
      PROVE  LockInv'
  BY <1>3, ThreadsAssumption, NoneAssumption DEF TypeOK, LockInv, Threads, SetRun, Goto, Owns, Unlock
<1>4. ASSUME NEW t \in Getters, GetCall(t)
      PROVE  LockInv'
  BY <1>4, ThreadsAssumption, NoneAssumption DEF TypeOK, LockInv, Threads, GetCall, Goto, data, locks
<1>5. ASSUME NEW t \in Getters, NEW id \in Ids, GetRead(t, id)
      PROVE  LockInv'
  BY <1>5, ThreadsAssumption, NoneAssumption DEF TypeOK, LockInv, Threads, GetRead, Goto, data, locks
<1>6. ASSUME NEW t \in Streamers, NEW from \in Requests, StreamOpen(t, from)
      PROVE  LockInv'
  BY <1>6, ThreadsAssumption, NoneAssumption DEF TypeOK, LockInv, Threads, StreamOpen, Goto, data, locks
<1>7. ASSUME NEW t \in Streamers, StreamLock(t)
      PROVE  LockInv'
  BY <1>7, ThreadsAssumption, NoneAssumption DEF TypeOK, LockInv, Threads, StreamLock, Goto, data, Open, RLock
<1>8. ASSUME NEW t \in Streamers, NEW p \in Peers, StreamList(t, p)
      PROVE  LockInv'
  BY <1>8, ThreadsAssumption, NoneAssumption DEF TypeOK, LockInv, Threads, StreamList, data, locks
<1>9. ASSUME NEW t \in Streamers, StreamStep(t)
      PROVE  LockInv'
  BY <1>9, ThreadsAssumption, NoneAssumption DEF TypeOK, LockInv, Threads, StreamStep, data, locks
<1>10. ASSUME NEW t \in Streamers, StreamClose(t)
       PROVE  LockInv'
  BY <1>10, ThreadsAssumption, NoneAssumption DEF TypeOK, LockInv, Threads, StreamClose, ListDone, Goto, data, RUnlock
<1>11. ASSUME NEW t \in Streamers, StreamAbandon(t)
       PROVE  LockInv'
  BY <1>11, ThreadsAssumption, NoneAssumption DEF TypeOK, LockInv, Threads, StreamAbandon, data, locks
<1>12. ASSUME CleanTick PROVE LockInv'
  BY <1>12, ThreadsAssumption, NoneAssumption DEF TypeOK, LockInv, Threads, CleanTick, Goto, data, locks
<1>13. ASSUME CleanRLock PROVE LockInv'
  BY <1>13, ThreadsAssumption, NoneAssumption DEF TypeOK, LockInv, Threads, CleanRLock, Goto, data, Open, RLock, Announce
<1>14. ASSUME CleanBegin PROVE LockInv'
  BY <1>14, ThreadsAssumption, NoneAssumption DEF TypeOK, LockInv, Threads, CleanBegin, Owns, Goto, data, locks
<1>15. ASSUME NEW p \in Peers, NEW i \in DOMAIN store[p], CleanFind(p, i)
       PROVE  LockInv'
  BY <1>15, ThreadsAssumption, NoneAssumption DEF TypeOK, LockInv, Threads, CleanFind, Goto, data, RUnlock
<1>16. ASSUME CleanAnnounce PROVE LockInv'
  BY <1>16, ThreadsAssumption, NoneAssumption DEF TypeOK, LockInv, Threads, CleanAnnounce, Goto, data, Open, Announce
<1>17. ASSUME CleanDelete PROVE LockInv'
  BY <1>17, ThreadsAssumption, NoneAssumption DEF TypeOK, LockInv, Threads, CleanDelete, Owns, Goto, Unlock
<1>18. ASSUME NEW extra \in SUBSET made, CleanRelock(extra)
       PROVE  LockInv'
  BY <1>18, ThreadsAssumption, NoneAssumption DEF TypeOK, LockInv, Threads, CleanRelock, Goto, data, Open, RLock
<1>19. ASSUME CleanEnd PROVE LockInv'
  BY <1>19, ThreadsAssumption, NoneAssumption DEF TypeOK, LockInv, Threads, CleanEnd, Goto, data, RUnlock, Unlock
<1>20. ASSUME Elapse PROVE LockInv'
  BY <1>20, ThreadsAssumption, NoneAssumption DEF TypeOK, LockInv, Threads, Elapse, data, locks
<1>21. ASSUME UNCHANGED vars PROVE LockInv'
  BY <1>21, ThreadsAssumption, NoneAssumption DEF TypeOK, LockInv, Threads, vars, data, locks
<1>. QED
  BY <1>1, <1>2, <1>3, <1>4, <1>5, <1>6, <1>7, <1>8, <1>9, <1>10, <1>11, <1>12, <1>13,
     <1>14, <1>15, <1>16, <1>17, <1>18, <1>19, <1>20, <1>21
  DEF Next, SetStep, GetStep, StreamStart, StreamWalk, CleanWalk

-----------------------------------------------------------------------------
(* Lists, index and serials.  Only SetRun and CleanDelete change them. *)

\* A stream and its goroutine write their own state and no session.
LEMMA StreamFrame ==
    ASSUME NEW u \in Streamers,
           StreamStart(u) \/ StreamLock(u) \/ StreamWalk(u) \/ StreamAbandon(u)
    PROVE  /\ UNCHANGED data
           /\ pc' = pc \/ \E to : pc' = [pc EXCEPT ![u] = to]
           /\ stream' = stream \/ \E s : stream' = [stream EXCEPT ![u] = s]
<1>1. CASE StreamStart(u)
  BY <1>1 DEF StreamStart, StreamOpen, Goto
<1>2. CASE StreamLock(u)
  BY <1>2 DEF StreamLock, Goto
<1>3. ASSUME NEW p \in Peers, StreamList(u, p)
      PROVE  UNCHANGED <<data, pc>> /\ \E s : stream' = [stream EXCEPT ![u] = s]
  BY <1>3 DEF StreamList
<1>4. ASSUME StreamStep(u)
      PROVE  UNCHANGED <<data, pc>> /\ \E s : stream' = [stream EXCEPT ![u] = s]
  BY <1>4, Zenon DEF StreamStep
<1>5. CASE StreamClose(u)
  BY <1>5 DEF StreamClose, Goto
<1>6. CASE StreamAbandon(u)
  BY <1>6 DEF StreamAbandon
<1>. QED
  BY <1>1, <1>2, <1>3, <1>4, <1>5, <1>6 DEF StreamWalk

\* Set and Get leave the streams alone.
LEMMA CallFrame ==
    ASSUME NEW u, SetStep(u) \/ GetStep(u)
    PROVE  stream' = stream /\ \E to : pc' = [pc EXCEPT ![u] = to]
<1>1. CASE \E st \in Stamps \cup {None} : SetCall(u, st)
  BY <1>1 DEF SetCall, Goto
<1>2. CASE SetAnnounce(u)
  BY <1>2 DEF SetAnnounce, Goto
<1>3. CASE SetRun(u)
  BY <1>3 DEF SetRun, Goto
<1>4. CASE GetStep(u)
  BY <1>4 DEF GetStep, GetCall, GetRead, Goto
<1>. QED
  BY <1>1, <1>2, <1>3, <1>4 DEF SetStep

\* A stream moves by its own steps, which leave the lists alone, or not at
\* all; only a deletion touches the stream of another goroutine.
LEMMA StreamMoves ==
    ASSUME TypeOK, [Next]_vars, NEW t \in Streamers
    PROVE  \/ CleanDelete
           \/ pc'[t] = pc[t] /\ stream'[t] = stream[t]
           \/ /\ StreamStart(t) \/ StreamLock(t) \/ StreamWalk(t) \/ StreamAbandon(t)
              /\ UNCHANGED data
<1>0. pc \in [Threads -> Pcs] /\ t \in Threads /\ t # Cleaner /\ t \notin Setters \cup Getters
  BY ThreadsAssumption DEF TypeOK, Threads
<1>1. ASSUME NEW u \in Setters \cup Getters, SetStep(u) \/ GetStep(u)
      PROVE  pc'[t] = pc[t] /\ stream'[t] = stream[t]
  <2>1. stream' = stream /\ \E to : pc' = [pc EXCEPT ![u] = to]
    BY <1>1, CallFrame
  <2>. QED
    BY <1>0, <2>1
<1>2. ASSUME NEW u \in Streamers,
             StreamStart(u) \/ StreamLock(u) \/ StreamWalk(u) \/ StreamAbandon(u)
      PROVE  /\ UNCHANGED data
             /\ u # t => pc'[t] = pc[t] /\ stream'[t] = stream[t]
  BY <1>0, <1>2, StreamFrame DEF TypeOK
<1>3. ASSUME CleanWalk, ~CleanDelete
      PROVE  pc'[t] = pc[t] /\ stream'[t] = stream[t]
  <2>1. stream' = stream
    BY <1>3 DEF CleanWalk, CleanTick, CleanBegin, CleanEnd, CleanFind
  <2>2. \E to : pc' = [pc EXCEPT ![Cleaner] = to]
    BY <1>3 DEF CleanWalk, CleanTick, CleanBegin, CleanEnd, CleanFind, Goto
  <2>. QED
    BY <1>0, <2>1, <2>2
<1>4. ASSUME CleanRLock \/ CleanAnnounce \/ \E extra \in SUBSET made : CleanRelock(extra)
      PROVE  pc'[t] = pc[t] /\ stream'[t] = stream[t]
  <2>1. stream' = stream
    BY <1>4 DEF CleanRLock, CleanAnnounce, CleanRelock
  <2>2. \E to : pc' = [pc EXCEPT ![Cleaner] = to]
    BY <1>4 DEF CleanRLock, CleanAnnounce, CleanRelock, Goto
  <2>. QED
    BY <1>0, <2>1, <2>2
<1>5. CASE Elapse \/ UNCHANGED vars
  BY <1>5 DEF Elapse, vars
<1>. QED
  BY <1>1, <1>2, <1>3, <1>4, <1>5 DEF Next

\* The lists and the index change only when a Set runs or the cleaner deletes.
LEMMA DataSteps ==
    ASSUME [Next]_vars
    PROVE  UNCHANGED data \/ (\E t \in Setters : SetRun(t)) \/ CleanDelete
BY DEF Next, vars, SetStep, SetCall, SetAnnounce, GetStep, GetCall, GetRead, StreamStart,
       StreamOpen, StreamLock, StreamWalk, StreamList, StreamStep, StreamClose,
       StreamAbandon, CleanWalk, CleanTick, CleanRLock, CleanBegin, CleanFind,
       CleanAnnounce, CleanRelock, CleanEnd, Elapse

\* No stamp of this node that is stored or about to be stored is ahead of the
\* serials it has handed out.
OwnInv ==
    /\ OwnSerialsBounded
    /\ \A t \in Setters : arg[t] # None /\ arg[t][1] = Self => arg[t][2] <= curr

\* A Set stores, or refuses, the stamp it was given or a fresh one.
LEMMA SetRunPuts ==
    ASSUME TypeOK, OwnInv, NEW t \in Setters, SetRun(t)
    PROVE  \E p \in Peers, k \in Serials :
             /\ Put(p, k)
             /\ \/ p = Self /\ k = curr + 1 /\ curr' = curr + 1
                \/ (p = Self => k <= curr) /\ curr' = curr
<1>1. CASE arg[t] = None
  <2>1. curr < MaxSerial /\ curr' = curr + 1 /\ Put(Self, curr + 1)
    BY <1>1 DEF SetRun
  <2>2. curr + 1 \in Serials /\ Self \in Peers
    BY <2>1, BoundsAssumption DEF TypeOK, Serials, Peers
  <2>. QED
    BY <2>1, <2>2
<1>2. CASE arg[t] # None
  <2>1. curr' = curr /\ Put(arg[t][1], arg[t][2])
    BY <1>2 DEF SetRun
  <2>2. arg[t][1] \in Peers /\ arg[t][2] \in Serials
    BY <1>2 DEF TypeOK, Stamps
  <2>. QED
    BY <1>2, <2>1, <2>2 DEF OwnInv
<1>. QED
  BY <1>1, <1>2

\* What Put does to the list of a peer: nothing, or one more at the back.
LEMMA PutList ==
    ASSUME TypeOK, NEW p \in Peers, NEW k \in Serials, Put(p, k), NEW q \in Peers
    PROVE  \/ store'[q] = store[q]
           \/ /\ q = p
              /\ InOrder(p, k)
              /\ Len(store'[q]) = Len(store[q]) + 1
              /\ DOMAIN store[q] = 1..Len(store[q])
              /\ DOMAIN store'[q] = 1..(Len(store[q]) + 1)
              /\ \A i \in DOMAIN store[q] : store'[q][i] = store[q][i]
              /\ store'[q][Len(store[q]) + 1] = k
<1>1. CASE store' = store
  BY <1>1
<1>2. CASE InOrder(p, k) /\ store' = [store EXCEPT ![p] = Append(@, k)]
  <2>1. CASE q # p
    BY <1>2, <2>1 DEF TypeOK
  <2>2. CASE q = p
    <3>1. store'[q] = Append(store[q], k) /\ store[q] \in Seq(Serials)
      BY <1>2, <2>2 DEF TypeOK
    <3>. QED
      BY <1>2, <2>2, <3>1
  <2>. QED
    BY <2>1, <2>2
<1>. QED
  BY <1>1, <1>2 DEF Put

\* What the cleaner's deletion does to the lists.
LEMMA DeleteList ==
    ASSUME TypeOK, CursorInv, CleanDelete, NEW q \in Peers
    PROVE  \/ store'[q] = store[q] /\ q # clean.list
           \/ /\ q = clean.list
              /\ clean.pos \in DOMAIN store[q]
              /\ store'[q] = Without(store[q], clean.pos)
<1>1. clean.list \in Peers /\ clean.pos \in DOMAIN store[clean.list]
  BY DEF CursorInv, CleanDelete, Goto
<1>2. store' = [store EXCEPT ![clean.list] = Without(@, clean.pos)]
  BY DEF CleanDelete
<1>. QED
  BY <1>1, <1>2 DEF TypeOK

\* The cleaner's cursor stays on a session that has expired (clean gives up mu
\* between finding a session and deleting it, while Set appends).
LEMMA CursorStep ==
    ASSUME TypeOK, LockInv, OwnInv, CursorInv, [Next]_vars
    PROVE  CursorInv'
<1>. USE DEF CursorInv, Goto
<1>1. ASSUME NEW t \in Setters, SetRun(t)
      PROVE  CursorInv'
  <2>1. pc'[Cleaner] = pc[Cleaner] /\ clean' = clean /\ now' = now
    BY <1>1, ThreadsAssumption DEF SetRun, TypeOK, Threads
  <2>2. PICK p \in Peers, k \in Serials : Put(p, k)
    BY <1>1, SetRunPuts
  <2>3. ASSUME clean.list \in Peers, clean.pos \in DOMAIN store[clean.list]
        PROVE  /\ clean.pos \in DOMAIN store'[clean.list]
               /\ store'[clean.list][clean.pos] = store[clean.list][clean.pos]
    <3>. DEFINE l == clean.list
    <3>1. CASE store'[l] = store[l]
      BY <2>3, <3>1
    <3>2. CASE /\ DOMAIN store[l] = 1..Len(store[l])
               /\ DOMAIN store'[l] = 1..(Len(store[l]) + 1)
               /\ \A i \in DOMAIN store[l] : store'[l][i] = store[l][i]
      <4>1. Len(store[l]) \in Nat
        BY <2>3 DEF TypeOK
      <4>. QED
        BY <2>3, <3>2, <4>1
    <3>. QED
      BY <2>2, <2>3, <3>1, <3>2, PutList
  <2>. QED
    BY <2>1, <2>3 DEF Expired
<1>2. ASSUME CleanDelete PROVE CursorInv'
  BY <1>2 DEF CleanDelete, TypeOK, Threads, CleanState
<1>3. ASSUME NEW p \in Peers, NEW i \in DOMAIN store[p], CleanFind(p, i)
      PROVE  CursorInv'
  BY <1>3 DEF CleanFind, TypeOK, Threads, CleanState, Expired, data
<1>4. ASSUME CleanTick PROVE CursorInv'
  BY <1>4, BoundsAssumption DEF CleanTick, NoClean, TypeOK, Threads, CleanState
<1>5. ASSUME CleanRLock \/ CleanBegin \/ CleanAnnounce \/ CleanEnd
             \/ \E extra \in SUBSET made : CleanRelock(extra)
      PROVE  CursorInv'
  <2>1. CASE CleanRLock \/ CleanAnnounce
    BY <2>1 DEF CleanRLock, CleanAnnounce, Goto, TypeOK, Threads, Expired, data
  <2>2. CASE CleanBegin
    BY <2>2 DEF CleanBegin, Goto, TypeOK, Threads, CleanState, Expired, data
  <2>3. CASE CleanEnd
    BY <2>3 DEF CleanEnd, Goto, TypeOK, Threads, CleanState, NoClean, Expired, data
  <2>4. ASSUME NEW extra \in SUBSET made, CleanRelock(extra) PROVE CursorInv'
    BY <2>4 DEF CleanRelock, Goto, TypeOK, Threads, CleanState, Expired, data
  <2>. QED
    BY <1>5, <2>1, <2>2, <2>3, <2>4
<1>6. ASSUME pc'[Cleaner] = pc[Cleaner], clean' = clean, UNCHANGED data,
             now' = now \/ now' = now + 1
      PROVE  CursorInv'
  BY <1>6, BoundsAssumption DEF TypeOK, CleanState, Expired, data
<1>7. ASSUME NEW t \in Setters,
             SetAnnounce(t) \/ \E st \in Stamps \cup {None} : SetCall(t, st)
      PROVE  CursorInv'
  BY <1>6, <1>7, ThreadsAssumption DEF SetAnnounce, SetCall, TypeOK, Threads
<1>8. ASSUME NEW t \in Getters, GetStep(t)
      PROVE  CursorInv'
  BY <1>6, <1>8, ThreadsAssumption DEF GetStep, GetCall, GetRead, TypeOK, Threads
<1>9. ASSUME NEW t \in Streamers,
             StreamStart(t) \/ StreamLock(t) \/ StreamWalk(t) \/ StreamAbandon(t)
      PROVE  CursorInv'
  BY <1>6, <1>9, ThreadsAssumption DEF StreamStart, StreamOpen, StreamLock, StreamWalk,
     StreamList, StreamStep, StreamClose, StreamAbandon, TypeOK, Threads
<1>10. ASSUME Elapse \/ UNCHANGED vars PROVE CursorInv'
  BY <1>6, <1>10 DEF Elapse, vars
<1>. QED
  BY <1>1, <1>2, <1>3, <1>4, <1>5, <1>7, <1>8, <1>9, <1>10
  DEF Next, SetStep, CleanWalk

\* Set's check against the back of the list keeps every list ascending.
LEMMA OrderStep ==
    ASSUME TypeOK, OwnInv, CursorInv, StoreOrdered, [Next]_vars
    PROVE  StoreOrdered'
<1>1. CASE UNCHANGED data
  BY <1>1 DEF StoreOrdered, data
<1>2. ASSUME NEW t \in Setters, SetRun(t)
      PROVE  StoreOrdered'
  <2>1. PICK p \in Peers, k \in Serials : Put(p, k)
    BY <1>2, SetRunPuts
  <2>2. SUFFICES ASSUME NEW q \in Peers, NEW i \in DOMAIN store'[q],
                        NEW j \in DOMAIN store'[q], i < j
                 PROVE  store'[q][i] < store'[q][j]
    BY DEF StoreOrdered
  <2>3. CASE store'[q] = store[q]
    BY <2>2, <2>3 DEF StoreOrdered
  <2>4. CASE /\ q = p
             /\ InOrder(p, k)
             /\ DOMAIN store[q] = 1..Len(store[q])
             /\ DOMAIN store'[q] = 1..(Len(store[q]) + 1)
             /\ \A m \in DOMAIN store[q] : store'[q][m] = store[q][m]
             /\ store'[q][Len(store[q]) + 1] = k
    <3>. DEFINE n == Len(store[q])
    <3>1. store[q] \in Seq(Serials) /\ n \in Nat
      BY DEF TypeOK
    <3>2. i \in 1..n /\ \A m \in 1..n : store[q][m] \in Int
      BY <2>2, <2>4, <3>1, BoundsAssumption DEF Serials
    <3>3. CASE j \in 1..n
      BY <2>2, <2>4, <3>2, <3>3 DEF StoreOrdered
    <3>4. CASE j = n + 1
      <4>1. store[q] # <<>> /\ store[q][n] < k
        BY <2>4, <3>1, <3>2 DEF InOrder
      <4>2. n \in 1..n /\ (i = n \/ i < n)
        BY <3>1, <3>2
      <4>3. i = n \/ store[q][i] < store[q][n]
        BY <2>4, <3>2, <4>2 DEF StoreOrdered
      <4>4. k \in Int /\ store[q][i] \in Int /\ store[q][n] \in Int
        BY <3>2, <4>2, BoundsAssumption DEF Serials
      <4>5. store[q][i] < k
        BY <4>1, <4>3, <4>4
      <4>. QED
        BY <2>4, <3>2, <3>4, <4>5
    <3>. QED
      BY <2>2, <2>4, <3>1, <3>3, <3>4
  <2>. QED
    BY <2>1, <2>3, <2>4, PutList
<1>3. ASSUME CleanDelete PROVE StoreOrdered'
  <2>1. SUFFICES ASSUME NEW q \in Peers, NEW i \in DOMAIN store'[q],
                        NEW j \in DOMAIN store'[q], i < j
                 PROVE  store'[q][i] < store'[q][j]
    BY DEF StoreOrdered
  <2>2. CASE store'[q] = store[q]
    BY <2>1, <2>2 DEF StoreOrdered
  <2>3. CASE clean.pos \in DOMAIN store[q] /\ store'[q] = Without(store[q], clean.pos)
    <3>1. store[q] \in Seq(Serials) /\ Len(store[q]) \in Nat /\ DOMAIN store[q] = 1..Len(store[q])
      BY DEF TypeOK
    <3>2. i \in 1..(Len(store[q]) - 1) /\ j \in 1..(Len(store[q]) - 1)
      BY <2>3, <3>1, WithoutElements
    <3>3. /\ store'[q][i] = IF i < clean.pos THEN store[q][i] ELSE store[q][i + 1]
          /\ store'[q][j] = IF j < clean.pos THEN store[q][j] ELSE store[q][j + 1]
      <4>1. \A k \in 1..(Len(store[q]) - 1) : Without(store[q], clean.pos)[k] =
              IF k < clean.pos THEN store[q][k] ELSE store[q][k + 1]
        BY <2>3, <3>1, WithoutElements
      <4>. QED
        BY <2>3, <3>2, <4>1
    <3>4. /\ i \in DOMAIN store[q] /\ i + 1 \in DOMAIN store[q]
          /\ j \in DOMAIN store[q] /\ j + 1 \in DOMAIN store[q]
          /\ i < j + 1 /\ i + 1 < j + 1 /\ clean.pos \in Int
      BY <2>1, <2>3, <3>1, <3>2
    <3>5. /\ store[q][i] < store[q][j]
          /\ store[q][i] < store[q][j + 1]
          /\ store[q][i + 1] < store[q][j + 1]
      BY <2>1, <3>4 DEF StoreOrdered
    <3>. QED
      BY <2>1, <3>2, <3>3, <3>4, <3>5
  <2>. QED
    BY <1>3, <2>2, <2>3, DeleteList
<1>. QED
  BY <1>1, <1>2, <1>3, DataSteps

\* No session of this node is ahead of curr, stored or about to be stored.
LEMMA OwnStep ==
    ASSUME TypeOK, CursorInv, OwnInv, [Next]_vars
    PROVE  OwnInv'
<1>. DEFINE Args == \A t \in Setters : arg[t] # None /\ arg[t][1] = Self => arg[t][2] <= curr
<1>1. OwnSerialsBounded'
  <2>0. Self \in Peers /\ curr \in Int
    BY BoundsAssumption DEF Peers, TypeOK
  <2>1. CASE UNCHANGED data
    BY <2>1 DEF OwnInv, OwnSerialsBounded, data
  <2>2. ASSUME NEW t \in Setters, SetRun(t)
        PROVE  OwnSerialsBounded'
    <3>1. PICK p \in Peers, k \in Serials :
             /\ Put(p, k)
             /\ \/ p = Self /\ k = curr + 1 /\ curr' = curr + 1
                \/ (p = Self => k <= curr) /\ curr' = curr
      BY <2>2, SetRunPuts
    <3>2. store[Self] \in Seq(Serials) /\ Len(store[Self]) \in Nat
      BY <2>0 DEF TypeOK
    <3>3. \A i \in DOMAIN store[Self] : store[Self][i] \in Int /\ store[Self][i] <= curr
      BY <3>2, BoundsAssumption DEF OwnInv, OwnSerialsBounded, Serials
    <3>4. CASE store'[Self] = store[Self]
      BY <2>0, <3>1, <3>3, <3>4 DEF OwnSerialsBounded
    <3>5. CASE /\ Self = p
               /\ DOMAIN store[Self] = 1..Len(store[Self])
               /\ DOMAIN store'[Self] = 1..(Len(store[Self]) + 1)
               /\ \A i \in DOMAIN store[Self] : store'[Self][i] = store[Self][i]
               /\ store'[Self][Len(store[Self]) + 1] = k
      BY <2>0, <3>1, <3>2, <3>3, <3>5 DEF OwnSerialsBounded
    <3>. QED
      BY <2>0, <3>1, <3>4, <3>5, PutList
  <2>3. ASSUME CleanDelete PROVE OwnSerialsBounded'
    <3>1. curr' = curr
      BY <2>3 DEF CleanDelete
    <3>2. CASE store'[Self] = store[Self]
      BY <3>1, <3>2 DEF OwnInv, OwnSerialsBounded
    <3>3. CASE clean.pos \in DOMAIN store[Self]
               /\ store'[Self] = Without(store[Self], clean.pos)
      <4>1. store[Self] \in Seq(Serials) /\ Len(store[Self]) \in Nat
            /\ DOMAIN store[Self] = 1..Len(store[Self])
        BY <2>0 DEF TypeOK
      <4>2. ASSUME NEW i \in DOMAIN store'[Self]
            PROVE  \E j \in DOMAIN store[Self] : store'[Self][i] = store[Self][j]
        <5>1. i \in 1..(Len(store[Self]) - 1)
          BY <3>3, <4>1, WithoutElements
        <5>2. i \in DOMAIN store[Self] /\ i + 1 \in DOMAIN store[Self]
          BY <4>1, <5>1
        <5>3. store'[Self][i] = IF i < clean.pos THEN store[Self][i] ELSE store[Self][i + 1]
          BY <3>3, <5>1 DEF Without
        <5>. QED
          BY <5>2, <5>3
      <4>. QED
        BY <3>1, <4>2 DEF OwnInv, OwnSerialsBounded
    <3>. QED
      BY <2>0, <2>3, <3>2, <3>3, DeleteList
  <2>. QED
    BY <2>1, <2>2, <2>3, DataSteps
<1>2. Args'
  <2>1. curr \in Int /\ (curr' = curr \/ curr' = curr + 1)
    <3>1. CASE UNCHANGED data
      BY <3>1, BoundsAssumption DEF data, TypeOK
    <3>2. CASE \E t \in Setters : SetRun(t)
      BY <3>2, BoundsAssumption DEF SetRun, TypeOK
    <3>3. CASE CleanDelete
      BY <3>3, BoundsAssumption DEF CleanDelete, TypeOK
    <3>. QED
      BY <3>1, <3>2, <3>3, DataSteps
  <2>2. ASSUME NEW t \in Setters, NEW st \in Stamps \cup {None}, SetCall(t, st)
        PROVE  Args'
    <3>1. arg' = [arg EXCEPT ![t] = st] /\ curr' = curr
      BY <2>2 DEF SetCall, data
    <3>2. st # None /\ st[1] = Self => st[2] <= curr
      BY <2>2 DEF SetCall
    <3>. QED
      BY <3>1, <3>2 DEF TypeOK, OwnInv
  <2>3. ASSUME NEW t \in Setters, SetRun(t)
        PROVE  Args'
    <3>1. arg' = [arg EXCEPT ![t] = None]
      BY <2>3 DEF SetRun
    <3>2. \A u \in Setters : arg[u] # None => arg[u][2] \in Int
      BY BoundsAssumption DEF TypeOK, Stamps, Serials
    <3>. QED
      BY <2>1, <3>1, <3>2 DEF TypeOK, OwnInv
  <2>4. CASE arg' = arg /\ curr' = curr
    BY <2>4 DEF OwnInv
  <2>5. \/ arg' = arg /\ curr' = curr
        \/ \E t \in Setters : SetRun(t) \/ \E st \in Stamps \cup {None} : SetCall(t, st)
    BY DEF Next, vars, data, SetStep, SetAnnounce, GetStep, GetCall, GetRead, StreamStart,
       StreamOpen, StreamLock, StreamWalk, StreamList, StreamStep, StreamClose,
       StreamAbandon, CleanWalk, CleanTick, CleanRLock, CleanBegin, CleanFind, CleanDelete,
       CleanAnnounce, CleanRelock, CleanEnd, Elapse
  <2>. QED
    BY <2>2, <2>3, <2>4, <2>5
<1>. QED
  BY <1>1, <1>2 DEF OwnInv

\* Put adds its stamp to the sessions held, or nothing.
LEMMA HeldAfterPut ==
    ASSUME TypeOK, NEW p \in Peers, NEW k \in Serials, Put(p, k)
    PROVE  \/ Held' = Held /\ store' = store /\ lookup' = lookup
           \/ /\ InOrder(p, k)
              /\ Held' = Held \cup {<<p, k>>}
              /\ lookup' = [lookup EXCEPT ![Content[<<p, k>>].id] = Content[<<p, k>>]]
<1>1. CASE store' = store /\ lookup' = lookup
  BY <1>1 DEF Held
<1>2. CASE /\ InOrder(p, k)
           /\ store' = [store EXCEPT ![p] = Append(@, k)]
           /\ lookup' = [lookup EXCEPT ![Content[<<p, k>>].id] = Content[<<p, k>>]]
  <2>1. ASSUME NEW st \in Stamps
        PROVE  st \in Held' <=> st \in Held \cup {<<p, k>>}
    <3>. DEFINE q == st[1]
    <3>1. q \in Peers /\ st = <<q, st[2]>> /\ st[2] \in Serials
      BY DEF Stamps
    <3>2. CASE q # p
      <4>1. store'[q] = store[q]
        BY <1>2, <3>1, <3>2 DEF TypeOK
      <4>. QED
        BY <3>1, <3>2, <4>1 DEF Held
    <3>3. CASE q = p
      <4>1. store[q] \in Seq(Serials) /\ store'[q] = Append(store[q], k)
        BY <1>2, <3>1, <3>3 DEF TypeOK
      <4>2. /\ Len(store[q]) \in Nat
            /\ DOMAIN store[q] = 1..Len(store[q])
            /\ DOMAIN store'[q] = 1..(Len(store[q]) + 1)
            /\ \A i \in 1..Len(store[q]) : store'[q][i] = store[q][i]
            /\ store'[q][Len(store[q]) + 1] = k
        BY <4>1
      <4>3. (\E i \in DOMAIN store'[q] : store'[q][i] = st[2])
              <=> (\E i \in DOMAIN store[q] : store[q][i] = st[2]) \/ st[2] = k
        <5>. DEFINE n == Len(store[q])
        <5>1. \A i : i \in 1..(n + 1) <=> i \in 1..n \/ i = n + 1
          BY <4>2
        <5>. HIDE DEF n
        <5>. QED
          BY <4>2, <5>1 DEF n
      <4>. QED
        BY <3>1, <3>3, <4>3 DEF Held
    <3>. QED
      BY <3>2, <3>3
  <2>2. Held' \subseteq Stamps /\ Held \cup {<<p, k>>} \subseteq Stamps
    BY DEF Held, Stamps
  <2>3. Held' = Held \cup {<<p, k>>}
    BY <2>1, <2>2
  <2>. QED
    BY <1>2, <2>3
<1>. QED
  BY <1>1, <1>2 DEF Put

Victim == <<clean.list, store[clean.list][clean.pos]>>

\* The cleaner removes the session under its cursor and no other.
LEMMA HeldAfterDelete ==
    ASSUME TypeOK, CursorInv, StoreOrdered, CleanDelete
    PROVE  /\ Victim \in Held
           /\ Held' = Held \ {Victim}
           /\ lookup' = [lookup EXCEPT ![Content[Victim].id] = None]
<1>. DEFINE l == clean.list
            s == store[l]
            c == clean.pos
<1>1. l \in Peers /\ c \in DOMAIN s /\ s \in Seq(Serials) /\ Len(s) \in Nat /\ DOMAIN s = 1..Len(s)
  BY DEF CursorInv, CleanDelete, Goto, TypeOK
<1>2. Victim \in Held
  <2>1. s[c] \in Serials
    BY <1>1
  <2>. QED
    BY <1>1, <2>1 DEF Victim, Held, Stamps
<1>3. ASSUME NEW st \in Stamps
      PROVE  st \in Held' <=> st \in Held /\ st # Victim
  <2>. DEFINE q == st[1]
  <2>1. q \in Peers /\ st = <<q, st[2]>>
    BY DEF Stamps
  <2>2. CASE q # l
    <3>1. store'[q] = store[q]
      BY <2>1, <2>2, DeleteList
    <3>. QED
      BY <2>1, <2>2, <3>1 DEF Held, Victim
  <2>3. CASE q = l
    <3>1. store'[q] = Without(s, c)
      BY <2>1, <2>3, DeleteList
    <3>2. ASSUME NEW i \in DOMAIN store'[q]
          PROVE  \E j \in DOMAIN s : store'[q][i] = s[j] /\ j # c
      <4>0. /\ DOMAIN Without(s, c) = 1..(Len(s) - 1)
            /\ \A j \in 1..(Len(s) - 1) :
                 Without(s, c)[j] = IF j < c THEN s[j] ELSE s[j + 1]
        BY <1>1, WithoutElements
      <4>1. i \in 1..(Len(s) - 1) /\ store'[q][i] = IF i < c THEN s[i] ELSE s[i + 1]
        BY <3>1, <4>0
      <4>2. i \in DOMAIN s /\ i + 1 \in DOMAIN s /\ (i < c => i # c) /\ (~(i < c) => i + 1 # c)
        BY <1>1, <4>1
      <4>. QED
        BY <4>1, <4>2
    <3>3. ASSUME NEW j \in DOMAIN s, j # c
          PROVE  (\E m \in DOMAIN store'[q] : store'[q][m] = s[j]) /\ s[j] # s[c]
      <4>1. j < c \/ c < j
        BY <1>1, <3>3
      <4>2. s[j] < s[c] \/ s[c] < s[j]
        <5>1. \A a, b \in DOMAIN s : a < b => s[a] < s[b]
          BY <1>1, Zenon DEF StoreOrdered
        <5>. HIDE DEF s, c
        <5>. QED
          BY <1>1, <3>3, <4>1, <5>1
      <4>3. s[j] \in Int /\ s[c] \in Int
        <5>1. Serials \subseteq Int
          BY BoundsAssumption DEF Serials
        <5>. HIDE DEF s, c, Serials
        <5>2. s[j] \in Serials /\ s[c] \in Serials
          BY <1>1, <3>3
        <5>. QED
          BY <5>1, <5>2
      <4>4. \E m \in DOMAIN Without(s, c) : Without(s, c)[m] = s[j]
        BY <1>1, <3>3, WithoutElements
      <4>. QED
        BY <3>1, <4>2, <4>3, <4>4
    <3>4. (\E i \in DOMAIN store'[q] : store'[q][i] = st[2])
            <=> (\E j \in DOMAIN s : s[j] = st[2]) /\ st[2] # s[c]
      BY <1>1, <3>2, <3>3
    <3>. QED
      BY <2>1, <2>3, <3>4 DEF Held, Victim
  <2>. QED
    BY <2>2, <2>3
<1>4. Held' \subseteq Stamps /\ Held \subseteq Stamps
  BY DEF Held
<1>5. Held' = Held \ {Victim}
  BY <1>3, <1>4
<1>. QED
  BY <1>2, <1>5 DEF CleanDelete, Victim

\* Set and delete keep the index backed by the lists.
LEMMA LookupStep ==
    ASSUME TypeOK, CursorInv, OwnInv, StoreOrdered, LookupBacked, [Next]_vars
    PROVE  LookupBacked'
<1>0. ASSUME NEW st \in Stamps PROVE Content[st] \in Session /\ Content[st].id \in Ids
  BY ContentAssumption DEF Session
<1>1. CASE UNCHANGED data
  <2>1. Held' = Held /\ lookup' = lookup
    BY <1>1 DEF data, Held
  <2>. QED
    BY <2>1 DEF LookupBacked
<1>2. ASSUME NEW t \in Setters, SetRun(t)
      PROVE  LookupBacked'
  <2>1. PICK p \in Peers, k \in Serials : Put(p, k)
    BY <1>2, SetRunPuts
  <2>2. CASE Held' = Held /\ lookup' = lookup
    BY <2>2 DEF LookupBacked
  <2>3. CASE /\ Held' = Held \cup {<<p, k>>}
             /\ lookup' = [lookup EXCEPT ![Content[<<p, k>>].id] = Content[<<p, k>>]]
    <3>1. <<p, k>> \in Stamps
      BY DEF Stamps
    <3>. QED
      BY <1>0, <2>3, <3>1 DEF LookupBacked, TypeOK
  <2>. QED
    BY <2>1, <2>2, <2>3, HeldAfterPut
<1>3. ASSUME CleanDelete PROVE LookupBacked'
  <2>1. /\ Victim \in Held
        /\ Held' = Held \ {Victim}
        /\ lookup' = [lookup EXCEPT ![Content[Victim].id] = None]
    BY <1>3, HeldAfterDelete
  <2>2. Victim \in Stamps
    BY <2>1 DEF Held
  <2>3. ASSUME NEW id \in Ids, lookup'[id] # None
        PROVE  lookup'[id].id = id /\ \E st \in Held' : Content[st] = lookup'[id]
    <3>1. id # Content[Victim].id /\ lookup'[id] = lookup[id]
      BY <1>0, <2>1, <2>2, <2>3 DEF TypeOK
    <3>2. lookup[id].id = id /\ \E st \in Held : Content[st] = lookup[id]
      BY <2>3, <3>1 DEF LookupBacked
    <3>. QED
      BY <2>1, <3>1, <3>2
  <2>. QED
    BY <2>3 DEF LookupBacked
<1>. QED
  BY <1>1, <1>2, <1>3, DataSteps

-----------------------------------------------------------------------------
(* Streams and Get *)

\* What a stream was started with and must still send is still listed.
SnapInv ==
    \A t \in Streamers : pc[t] \in {"lock", "walk"} => stream[t].snap \subseteq Held

\* A step adds to the sessions held or is the cleaner's deletion.
LEMMA HeldGrowsOrDelete ==
    ASSUME TypeOK, OwnInv, CursorInv, StoreOrdered, [Next]_vars
    PROVE  CleanDelete \/ Held \subseteq Held'
<1>1. CASE UNCHANGED data
  BY <1>1 DEF data, Held
<1>2. ASSUME NEW t \in Setters, SetRun(t)
      PROVE  Held \subseteq Held'
  <2>1. PICK p \in Peers, k \in Serials : Put(p, k)
    BY <1>2, SetRunPuts
  <2>. QED
    BY <2>1, HeldAfterPut
<1>. QED
  BY <1>1, <1>2, DataSteps

\* What an iterating stream started with stays listed: the cleaner cannot have
\* delMu at the same time.
LEMMA SnapStep ==
    ASSUME TypeOK, LockInv, OwnInv, CursorInv, StoreOrdered, SnapInv, [Next]_vars
    PROVE  SnapInv'
<1>1. ASSUME CleanDelete PROVE SnapInv'
  <2>1. Held' = Held \ {Victim}
    BY <1>1, HeldAfterDelete
  <2>2. pc[Cleaner] = "delete" /\ \A t \in Streamers : pc'[t] = pc[t]
    BY <1>1, ThreadsAssumption DEF CleanDelete, Goto, TypeOK, Threads
  <2>3. ASSUME NEW t \in Streamers, pc'[t] \in {"lock", "walk"}
        PROVE  stream'[t].snap \subseteq Held'
    <3>1. pc[t] = "lock"
      BY <2>2, <2>3 DEF LockInv
    <3>2. stream[t] \in StreamState /\ stream'[t] = [stream[t] EXCEPT !.snap = @ \ {Victim}]
      BY <1>1, <3>1 DEF CleanDelete, TypeOK, Victim
    <3>3. stream'[t].snap = stream[t].snap \ {Victim}
      BY <3>2 DEF StreamState
    <3>. QED
      BY <2>1, <3>1, <3>3 DEF SnapInv
  <2>. QED
    BY <2>3 DEF SnapInv
<1>2. ASSUME ~CleanDelete PROVE SnapInv'
  <2>1. Held \subseteq Held'
    BY <1>2, HeldGrowsOrDelete
  <2>2. SUFFICES ASSUME NEW t \in Streamers, pc'[t] \in {"lock", "walk"}
                 PROVE  stream'[t].snap \subseteq Held'
    BY DEF SnapInv
  <2>3. stream \in [Streamers -> StreamState] /\ stream[t] \in StreamState
    BY DEF TypeOK
  <2>4. CASE pc[t] \in {"lock", "walk"} /\ stream'[t].snap = stream[t].snap
    BY <2>1, <2>4 DEF SnapInv
  <2>5. CASE \E from \in Requests : StreamOpen(t, from)
    <3>1. PICK from \in Requests : StreamOpen(t, from)
      BY <2>5
    <3>2. stream'[t] = [NoStream EXCEPT !.from = from, !.todo = made, !.snap = Held]
      BY <3>1 DEF StreamOpen, TypeOK
    <3>3. stream'[t].snap = Held
      BY <3>2 DEF NoStream
    <3>. QED
      BY <2>1, <3>3
  <2>6. ASSUME StreamStart(t) \/ StreamLock(t) \/ StreamWalk(t) \/ StreamAbandon(t)
        PROVE  \/ pc[t] \in {"lock", "walk"} /\ stream'[t].snap = stream[t].snap
               \/ \E from \in Requests : StreamOpen(t, from)
    <3>1. CASE StreamStart(t)
      BY <3>1 DEF StreamStart
    <3>2. CASE StreamLock(t)
      BY <2>2, <3>2 DEF StreamLock, Goto, TypeOK, Threads
    <3>3. ASSUME NEW p \in Peers, StreamList(t, p)
          PROVE  pc[t] \in {"lock", "walk"} /\ stream'[t].snap = stream[t].snap
      <4>1. stream'[t] = [stream[t] EXCEPT !.todo = @ \ {p}, !.list = p, !.pos = 0]
        BY <3>3 DEF StreamList, TypeOK
      <4>. QED
        BY <2>3, <3>3, <4>1 DEF StreamList, ListDone, StreamState
    <3>4. CASE StreamStep(t)
      <4>1. pc[t] = "walk"
        BY <3>4 DEF StreamStep
      <4>2. \A S : [stream[t] EXCEPT !.pos = @ + 1, !.sent = S].snap = stream[t].snap
        BY <2>3 DEF StreamState
      <4>3. [stream[t] EXCEPT !.pos = @ + 1].snap = stream[t].snap
        BY <2>3 DEF StreamState
      <4>4. \/ \E S : stream' = [stream EXCEPT ![t] = [stream[t] EXCEPT !.pos = @ + 1, !.sent = S]]
            \/ stream' = [stream EXCEPT ![t] = [stream[t] EXCEPT !.pos = @ + 1]]
        BY <3>4, Zenon DEF StreamStep
      <4>5. \/ \E S : stream'[t] = [stream[t] EXCEPT !.pos = @ + 1, !.sent = S]
            \/ stream'[t] = [stream[t] EXCEPT !.pos = @ + 1]
        BY <2>3, <4>4
      <4>. QED
        BY <4>1, <4>2, <4>3, <4>5
    <3>5. CASE StreamClose(t)
      BY <2>2, <3>5 DEF StreamClose, Goto, TypeOK, Threads
    <3>6. CASE StreamAbandon(t)
      <4>1. stream'[t] = [stream[t] EXCEPT !.gone = TRUE]
        BY <3>6 DEF StreamAbandon, TypeOK
      <4>. QED
        BY <2>3, <3>6, <4>1 DEF StreamAbandon, StreamState
    <3>. QED
      BY <2>6, <3>1, <3>2, <3>3, <3>4, <3>5, <3>6 DEF StreamWalk
  <2>. QED
    BY <1>2, <2>2, <2>4, <2>5, <2>6, StreamMoves
<1>. QED
  BY <1>1, <1>2

\* What Get returned stays listed until it has expired.
LEMMA GotStep ==
    ASSUME TypeOK, OwnInv, CursorInv, StoreOrdered, LookupBacked, GotListedOrExpired,
           [Next]_vars
    PROVE  GotListedOrExpired'
<1>1. SUFFICES ASSUME NEW t \in Getters, got'[t] # None
               PROVE  \/ got'[t].expiry < now' - Grace
                      \/ \E st \in Held' : Content[st] = got'[t]
  BY DEF GotListedOrExpired
<1>2. now' = now \/ now' = now + 1
  BY DEF Next, vars, SetStep, SetCall, SetAnnounce, SetRun, GetStep, GetCall, GetRead,
     StreamStart, StreamOpen, StreamLock, StreamWalk, StreamList, StreamStep, StreamClose,
     StreamAbandon, CleanWalk, CleanTick, CleanRLock, CleanBegin, CleanFind, CleanDelete,
     CleanAnnounce, CleanRelock, CleanEnd, Elapse
<1>3. CASE \E id \in Ids : GetRead(t, id)
  <2>1. PICK id \in Ids : GetRead(t, id)
    BY <1>3
  <2>2. got'[t] = lookup[id] /\ Held' = Held
    BY <2>1 DEF GetRead, TypeOK, data, Held
  <2>. QED
    BY <1>1, <2>2 DEF LookupBacked
<1>4. CASE got'[t] = got[t]
  <2>0. got[t] \in Session /\ got[t].expiry \in Int
    BY <1>1, <1>4, BoundsAssumption DEF TypeOK, Session
  <2>1. CASE got[t].expiry < now - Grace
    BY <1>2, <1>4, <2>0, <2>1, BoundsAssumption DEF TypeOK
  <2>2. ASSUME NEW st \in Held, Content[st] = got[t], ~CleanDelete
        PROVE  \E e \in Held' : Content[e] = got'[t]
    BY <1>4, <2>2, HeldGrowsOrDelete
  <2>3. ASSUME NEW st \in Held, Content[st] = got[t], CleanDelete
        PROVE  \/ got'[t].expiry < now' - Grace
               \/ \E e \in Held' : Content[e] = got'[t]
    <3>1. CASE st # Victim
      BY <1>4, <2>3, <3>1, HeldAfterDelete
    <3>2. CASE st = Victim
      <4>1. Content[st].expiry < clean.min /\ clean.min <= now - Grace
        BY <2>3, <3>2 DEF CursorInv, CleanDelete, Goto, Expired, Victim
      <4>2. now' = now /\ clean.min \in Int
        BY <2>3 DEF CleanDelete, TypeOK, CleanState
      <4>. QED
        BY <1>4, <2>0, <2>3, <4>1, <4>2, BoundsAssumption DEF TypeOK
    <3>. QED
      BY <3>1, <3>2
  <2>. QED
    BY <1>1, <1>4, <2>1, <2>2, <2>3 DEF GotListedOrExpired
<1>5. got'[t] = got[t] \/ \E id \in Ids : GetRead(t, id)
  BY DEF Next, vars, SetStep, SetCall, SetAnnounce, SetRun, GetStep, GetCall, GetRead,
     StreamStart, StreamOpen, StreamLock, StreamWalk, StreamList, StreamStep, StreamClose,
     StreamAbandon, CleanWalk, CleanTick, CleanRLock, CleanBegin, CleanFind, CleanDelete,
     CleanAnnounce, CleanRelock, CleanEnd, Elapse, TypeOK
<1>. QED
  BY <1>3, <1>4, <1>5

-----------------------------------------------------------------------------
(* The inductive invariant and the theorems *)

Inv ==
    /\ TypeOK
    /\ LockInv
    /\ CursorInv
    /\ OwnInv
    /\ StoreOrdered
    /\ LookupBacked
    /\ SnapInv
    /\ GotListedOrExpired

\* NewSessionStore establishes the invariant.
LEMMA InitInv == Init => Inv
<1>. SUFFICES ASSUME Init PROVE Inv
  OBVIOUS
<1>1. NoStream \in StreamState /\ NoClean \in CleanState
  BY BoundsAssumption DEF NoStream, NoClean, StreamState, CleanState
<1>2. TypeOK
  <2>1. store \in [Peers -> Seq(Serials)]
    BY DEF Init
  <2>. QED
    BY <1>1, <2>1, BoundsAssumption DEF Init, TypeOK, Unlocked, Threads, Pcs, CleanPcs
<1>3. LockInv
  BY NoneAssumption DEF Init, LockInv, Unlocked, Threads
<1>4. CursorInv
  BY DEF Init, CursorInv, Threads
<1>5. \A p \in Peers : DOMAIN store[p] = {}
  BY DEF Init
<1>6. OwnInv /\ StoreOrdered
  BY <1>5 DEF Init, OwnInv, OwnSerialsBounded, StoreOrdered, Peers
<1>7. LookupBacked /\ GotListedOrExpired
  BY DEF Init, LookupBacked, GotListedOrExpired
<1>8. SnapInv
  BY DEF Init, SnapInv, Threads
<1>. QED
  BY <1>2, <1>3, <1>4, <1>6, <1>7, <1>8 DEF Inv

\* Every step of every thread keeps the invariant.
LEMMA NextInv == Inv /\ [Next]_vars => Inv'
BY TypeStep, LockStep, CursorStep, OwnStep, OrderStep, LookupStep, SnapStep, GotStep DEF Inv

\* The invariant holds in every reachable state, whatever the number of
\* threads that use the store.
THEOREM Invariance == Spec => []Inv
BY InitInv, NextInv, PTL DEF Spec

\* The fields of sessionStore, its locks and its threads keep their types.
THEOREM TypeCorrect == Spec => []TypeOK
<1>1. Inv => TypeOK
  BY DEF Inv
<1>. QED
  BY <1>1, Invariance, PTL

\* Set, Stream and the cleaner keep every list in strictly ascending order.
THEOREM ListsOrdered == Spec => []StoreOrdered
<1>1. Inv => StoreOrdered
  BY DEF Inv
<1>. QED
  BY <1>1, Invariance, PTL

\* Get never returns a session that has been removed from the lists.
THEOREM IndexBacked == Spec => []LookupBacked
<1>1. Inv => LookupBacked
  BY DEF Inv
<1>. QED
  BY <1>1, Invariance, PTL

\* What a request got from Get stays listed until it has expired.
THEOREM GotSound == Spec => []GotListedOrExpired
<1>1. Inv => GotListedOrExpired
  BY DEF Inv
<1>. QED
  BY <1>1, Invariance, PTL

\* No session is removed under an iterating stream (delMu in Stream, clean).
THEOREM StreamsUndisturbed == Spec => []StreamUndisturbed
<1>1. Inv => StreamUndisturbed
  BY DEF Inv, SnapInv, StreamUndisturbed
<1>. QED
  BY <1>1, Invariance, PTL

\* The next serial of this node is above everything in its own list.
LEMMA FreshInOrder ==
    ASSUME TypeOK, OwnInv
    PROVE  InOrder(Self, curr + 1)
<1>1. SUFFICES ASSUME store[Self] # <<>>
               PROVE  store[Self][Len(store[Self])] < curr + 1
  BY DEF InOrder
<1>2. store[Self] \in Seq(Serials) /\ curr \in Int
  BY BoundsAssumption DEF TypeOK, Peers
<1>3. Len(store[Self]) \in DOMAIN store[Self]
  BY <1>1, <1>2
<1>4. store[Self][Len(store[Self])] <= curr /\ store[Self][Len(store[Self])] \in Int
  BY <1>2, <1>3, BoundsAssumption DEF OwnInv, OwnSerialsBounded, Serials
<1>. QED
  BY <1>2, <1>4

\* A Set with the zero Stamp is never refused as out of order.
THEOREM LocalSetsAccepted == Spec => LocalSetAccepted
<1>1. ASSUME Inv, [Next]_vars, curr' # curr
      PROVE  store'[Self] = Append(store[Self], curr')
  <2>1. Self \in Peers /\ TypeOK /\ InOrder(Self, curr + 1)
    BY <1>1, FreshInOrder DEF Inv, Peers
  <2>2. PICK t \in Setters : SetRun(t)
    BY <1>1, DataSteps DEF data, CleanDelete
  <2>3. Put(Self, curr + 1) /\ curr' = curr + 1
    BY <1>1, <2>2 DEF SetRun
  <2>. QED
    BY <2>1, <2>3 DEF Put, TypeOK
<1>2. Inv /\ [Next]_vars => [curr' # curr => store'[Self] = Append(store[Self], curr')]_vars
  BY <1>1
<1>. QED
  BY <1>2, Invariance, PTL DEF Spec, LocalSetAccepted

\* The cleaner removes only sessions that expired before the grace period.
THEOREM RemovalsExpired == Spec => OnlyExpiredRemoved
<1>1. ASSUME Inv, [Next]_vars, NEW st \in Held \ Held'
      PROVE  Content[st].expiry < now - Grace
  <2>1. CleanDelete /\ st = Victim
    <3>1. CleanDelete
      BY <1>1, HeldGrowsOrDelete DEF Inv
    <3>. QED
      BY <1>1, <3>1, HeldAfterDelete DEF Inv
  <2>2. Content[st].expiry < clean.min /\ clean.min <= now - Grace
    BY <1>1, <2>1 DEF Inv, CursorInv, CleanDelete, Goto, Expired, Victim
  <2>3. Content[st].expiry \in Int /\ clean.min \in Int /\ now - Grace \in Int
    <3>1. st \in Stamps
      BY <1>1 DEF Held
    <3>2. Content[st] \in Session
      BY <3>1, ContentAssumption
    <3>. QED
      BY <1>1, <3>2, BoundsAssumption DEF Inv, TypeOK, CleanState, Session
  <2>. QED
    BY <2>2, <2>3
<1>2. Inv /\ [Next]_vars => [\A st \in Held \ Held' : Content[st].expiry < now - Grace]_vars
  BY <1>1
<1>. QED
  BY <1>2, Invariance, PTL DEF Spec, OnlyExpiredRemoved

\* The check against the back of an ordered list is a check against the list.
LEMMA InOrderIsNewest ==
    ASSUME TypeOK, StoreOrdered, NEW p \in Peers, NEW k \in Serials, InOrder(p, k)
    PROVE  Log!Newest(<<p, k>>)
<1>1. SUFFICES ASSUME NEW e \in Held, e[1] = p
               PROVE  e[2] < k
  BY DEF Log!Newest
<1>2. PICK i \in DOMAIN store[p] : store[p][i] = e[2]
  BY <1>1 DEF Held
<1>. DEFINE n == Len(store[p])
<1>3. store[p] \in Seq(Serials) /\ n \in Nat /\ DOMAIN store[p] = 1..n
  BY DEF TypeOK
<1>4. n \in 1..n /\ store[p] # <<>> /\ (i = n \/ i < n)
  BY <1>2, <1>3
<1>5. store[p][n] < k /\ (i = n \/ store[p][i] < store[p][n])
  BY <1>2, <1>3, <1>4 DEF InOrder, StoreOrdered
<1>6. store[p][i] \in Int /\ store[p][n] \in Int /\ k \in Int
  BY <1>2, <1>3, <1>4, BoundsAssumption DEF Serials
<1>. QED
  BY <1>2, <1>5, <1>6

\* The store with its lists, locks, streams and cleaner is a SessionLog.
THEOREM Refinement == Spec => ImplementsLog
<1>1. ASSUME Init PROVE Log!LogInit
  <2>1. \A p \in Peers : DOMAIN store[p] = {}
    BY <1>1 DEF Init
  <2>2. Held = {}
    BY <2>1 DEF Held, Stamps
  <2>. QED
    BY <1>1, <2>2 DEF Init, Log!LogInit
<1>2. ASSUME Inv, [Next]_vars
      PROVE  [Log!LogNext]_(Log!logVars)
  <2>0. TypeOK /\ CursorInv /\ OwnInv /\ StoreOrdered /\ Log!Stamps = Stamps
    BY <1>2 DEF Inv, Stamps, Log!Stamps, Peers, Log!Peers, Serials, Log!Serials
  <2>1. CASE UNCHANGED data
    BY <2>1 DEF data, Held, Log!logVars
  <2>2. ASSUME NEW t \in Setters, SetRun(t)
        PROVE  [Log!LogNext]_(Log!logVars)
    <3>1. PICK p \in Peers, k \in Serials :
             /\ Put(p, k)
             /\ \/ p = Self /\ k = curr + 1 /\ curr' = curr + 1
                \/ (p = Self => k <= curr) /\ curr' = curr
      BY <2>0, <2>2, SetRunPuts
    <3>2. CASE InOrder(p, k)
      <4>1. Held' = Held \cup {<<p, k>>}
        <5>1. store' = [store EXCEPT ![p] = Append(@, k)]
          BY <3>1, <3>2 DEF Put
        <5>2. <<p, k>> \in Held'
          <6>1. store'[p] = Append(store[p], k) /\ store[p] \in Seq(Serials)
            BY <2>0, <5>1 DEF TypeOK
          <6>2. Len(store[p]) + 1 \in DOMAIN store'[p] /\ store'[p][Len(store[p]) + 1] = k
            BY <6>1
          <6>. QED
            BY <6>2 DEF Held, Stamps
        <5>. QED
          BY <2>0, <3>1, <5>2, HeldAfterPut
      <4>2. Log!Newest(<<p, k>>) /\ <<p, k>> \in Stamps
        BY <2>0, <3>2, InOrderIsNewest DEF Stamps
      <4>3. CASE p = Self /\ k = curr + 1 /\ curr' = curr + 1
        <5>1. curr < MaxSerial
          BY <2>0, <4>3, BoundsAssumption DEF TypeOK, Serials
        <5>. QED
          BY <4>1, <4>2, <4>3, <5>1 DEF Log!LogNext, Log!Issue
      <4>4. CASE (p = Self => k <= curr) /\ curr' = curr
        <5>1. Log!Learn(<<p, k>>)
          BY <4>1, <4>2, <4>4 DEF Log!Learn
        <5>. QED
          BY <2>0, <4>2, <5>1 DEF Log!LogNext
      <4>. QED
        BY <3>1, <4>3, <4>4
    <3>3. CASE ~InOrder(p, k)
      <4>1. Held' = Held
        BY <3>1, <3>3 DEF Put, Held
      <4>2. curr' = curr
        BY <2>0, <3>1, <3>3, FreshInOrder
      <4>. QED
        BY <4>1, <4>2 DEF Log!logVars
    <3>. QED
      BY <3>2, <3>3
  <2>3. ASSUME CleanDelete PROVE [Log!LogNext]_(Log!logVars)
    <3>1. Victim \in Held /\ Held' = Held \ {Victim} /\ curr' = curr
      BY <2>0, <2>3, HeldAfterDelete DEF CleanDelete
    <3>2. Victim \in Stamps /\ Log!Forget(Victim)
      BY <3>1 DEF Held, Log!Forget
    <3>. QED
      BY <2>0, <3>2 DEF Log!LogNext
  <2>. QED
    BY <1>2, <2>1, <2>2, <2>3, DataSteps
<1>. QED
  BY <1>1, <1>2, Invariance, PTL DEF Spec, ImplementsLog, Log!LogSpec

-----------------------------------------------------------------------------
(* The wedge *)

\* With the cleaner waiting for delMu under mu no Set can run.
LEMMA WedgedKeepsData ==
    ASSUME Inv, Wedged, [Next]_vars
    PROVE  UNCHANGED data
<1>1. pc[Cleaner] = "lock" /\ Cleaner \in mu.r
  BY DEF Wedged, Inv, LockInv
<1>2. ~CleanDelete /\ ~ \E t \in Setters : SetRun(t)
  BY <1>1 DEF CleanDelete, Goto, SetRun, Owns
<1>. QED
  BY <1>2, DataSteps

\* An abandoned stream with something left to send stays where it is.
LEMMA StuckStep ==
    ASSUME Inv, UNCHANGED data, NEW t \in Streamers, pc[t] = "walk", Stuck(t), [Next]_vars
    PROVE  pc'[t] = "walk" /\ Stuck(t)'
<1>. DEFINE r == stream[t]
<1>1. TypeOK /\ r \in StreamState /\ Held' = Held
  BY DEF Inv, TypeOK, data, Held
<1>2. PICK st \in r.snap : Wanted(t, st) /\ st \in Ahead(t)
  BY DEF Stuck
<1>3. r.gone
  BY DEF Stuck
<1>4. CASE pc'[t] = pc[t] /\ stream'[t] = stream[t]
  <2>1. Rest(t)' = Rest(t)
    BY <1>4 DEF Rest, data
  <2>2. Ahead(t)' = Ahead(t)
    BY <1>1, <1>4, <2>1 DEF Ahead
  <2>. QED
    BY <1>4, <2>2 DEF Stuck, Wanted
<1>5. ASSUME NEW p \in Peers, StreamList(t, p)
      PROVE  pc'[t] = "walk" /\ Stuck(t)'
  <2>1. /\ pc' = pc
        /\ stream'[t] = [r EXCEPT !.todo = @ \ {p}, !.list = p, !.pos = 0]
    BY <1>1, <1>5 DEF StreamList, TypeOK
  <2>2. /\ stream'[t].todo = r.todo \ {p}
        /\ stream'[t].list = p
        /\ stream'[t].pos = 0
        /\ stream'[t].snap = r.snap
        /\ stream'[t].gone = r.gone
        /\ stream'[t].from = r.from
    BY <1>1, <2>1 DEF StreamState
  <2>3. st \in Held /\ st[1] \in r.todo
    BY <1>2, <1>5 DEF StreamList, ListDone, Ahead
  <2>4. st \in Ahead(t)'
    <3>1. CASE st[1] # p
      BY <1>1, <2>2, <2>3, <3>1 DEF Ahead
    <3>2. CASE st[1] = p
      <4>1. st = <<p, st[2]>> /\ \E i \in DOMAIN store[p] : store[p][i] = st[2]
        BY <2>3, <3>2 DEF Held, Stamps
      <4>2. DOMAIN store[p] = (0 + 1)..Len(store[p]) /\ store'[p] = store[p] /\ p # None
        BY <1>1, NoneAssumption DEF TypeOK, data
      <4>3. st \in Rest(t)'
        BY <2>2, <4>1, <4>2 DEF Rest
      <4>. QED
        BY <4>3 DEF Ahead
    <3>. QED
      BY <3>1, <3>2
  <2>. QED
    BY <1>2, <1>3, <2>1, <2>2, <2>4 DEF Stuck, Wanted
<1>6. ASSUME StreamStep(t)
      PROVE  pc'[t] = "walk" /\ Stuck(t)'
  <2>. DEFINE p == r.list
              e == <<p, store[p][r.pos + 1]>>
  <2>1. ~Wanted(t, e) /\ pc' = pc /\ stream'[t] = [r EXCEPT !.pos = @ + 1]
    BY <1>1, <1>3, <1>6 DEF StreamStep, TypeOK
  <2>2. /\ stream'[t].todo = r.todo
        /\ stream'[t].list = p
        /\ stream'[t].pos = r.pos + 1
        /\ stream'[t].snap = r.snap
        /\ stream'[t].gone = r.gone
        /\ stream'[t].from = r.from
        /\ r.pos \in Nat
    BY <1>1, <2>1 DEF StreamState
  <2>3. st \in Ahead(t)'
    <3>1. CASE st \in Held /\ st[1] \in r.todo
      BY <1>1, <2>2, <3>1 DEF Ahead
    <3>2. CASE st \in Rest(t)
      <4>1. p # None /\ p \in Peers
        BY <1>1, <3>2 DEF Rest, StreamState
      <4>2. PICK i \in (r.pos + 1)..Len(store[p]) : st = <<p, store[p][i]>>
        BY <3>2, <4>1 DEF Rest
      <4>3. i # r.pos + 1
        BY <1>2, <2>1, <4>2
      <4>4. Len(store[p]) \in Int /\ store'[p] = store[p]
        BY <1>1, <4>1 DEF TypeOK, data
      <4>5. i \in ((r.pos + 1) + 1)..Len(store[p])
        BY <2>2, <4>2, <4>3, <4>4
      <4>6. st \in Rest(t)'
        BY <2>2, <4>1, <4>2, <4>4, <4>5 DEF Rest
      <4>. QED
        BY <4>6 DEF Ahead
    <3>. QED
      BY <1>2, <3>1, <3>2 DEF Ahead
  <2>. QED
    BY <1>2, <1>3, <2>1, <2>2, <2>3 DEF Stuck, Wanted
<1>7. ~StreamClose(t)
  BY <1>2 DEF StreamClose, ListDone, Ahead
<1>8. ~StreamStart(t) /\ ~StreamLock(t) /\ ~StreamAbandon(t)
  BY <1>3 DEF StreamStart, StreamOpen, StreamLock, StreamAbandon, Goto
<1>9. ASSUME CleanDelete PROVE pc'[t] = pc[t] /\ stream'[t] = stream[t]
  BY <1>1, <1>9, ThreadsAssumption DEF CleanDelete, Goto, TypeOK, Threads
<1>. QED
  BY <1>1, <1>4, <1>5, <1>6, <1>7, <1>8, <1>9, StreamMoves DEF StreamWalk

\* Once a consumer has left a stream that still has something to send and the
\* cleaner waits for delMu, the store never changes again.
THEOREM WedgeIsPermanent == Spec => WedgedForever
<1>1. ASSUME Inv, Wedged, [Next]_vars
      PROVE  Wedged' /\ UNCHANGED <<store, lookup, curr>>
  <2>1. UNCHANGED data
    BY <1>1, WedgedKeepsData
  <2>2. PICK t \in Streamers : pc[t] = "walk" /\ Stuck(t)
    BY <1>1 DEF Wedged
  <2>3. pc'[t] = "walk" /\ Stuck(t)'
    BY <1>1, <2>1, <2>2, StuckStep
  <2>4. pc[Cleaner] = "lock" /\ delMu.r # {} /\ TypeOK
    BY <1>1, <2>2 DEF Wedged, Inv, LockInv
  <2>5. pc'[Cleaner] = "lock"
    <3>1. ~CleanBegin
      BY <2>4 DEF CleanBegin, Owns
    <3>2. ~CleanWalk /\ ~CleanRLock /\ ~CleanAnnounce /\ ~ \E extra \in SUBSET made : CleanRelock(extra)
      BY <2>4, <3>1 DEF CleanWalk, CleanTick, CleanEnd, CleanDelete, CleanFind, CleanRLock,
         CleanAnnounce, CleanRelock, Goto
    <3>3. \A u \in Setters \cup Getters \cup Streamers : u # Cleaner
      BY ThreadsAssumption
    <3>4. \A u, to : u # Cleaner => [pc EXCEPT ![u] = to][Cleaner] = pc[Cleaner]
      BY <2>4 DEF TypeOK, Threads
    <3>5. \/ pc' = pc
          \/ \E u \in Setters \cup Getters \cup Streamers : \E to : pc' = [pc EXCEPT ![u] = to]
      BY <1>1, <3>2, StreamFrame, CallFrame DEF Next, vars, Elapse
    <3>. QED
      BY <2>4, <3>3, <3>4, <3>5
  <2>. QED
    BY <2>1, <2>3, <2>5 DEF Wedged, data
<1>2. Inv /\ [Next]_vars
        => [Wedged => Wedged' /\ UNCHANGED <<store, lookup, curr>>]_vars
  BY <1>1
<1>. QED
  BY <1>2, Invariance, PTL DEF Spec, WedgedForever

-----------------------------------------------------------------------------
(* What a stream sends *)

\* A session is listed only under a peer for which a list has been made.
MadeInv == \A st \in Held : st[1] \in made

\* Before it has delMu, a stream has sent nothing and has every list that it
\* found something in to visit.
Waiting(t) ==
    /\ stream[t].list = None
    /\ stream[t].sent = {}
    /\ \A st \in stream[t].snap : st[1] \in stream[t].todo

\* An iterating stream is in a list it will not visit again, has sent nothing
\* of the lists it is yet to visit, and of the list it is in only sessions up
\* to its position.
Visited(t, st) == \E i \in 1..stream[t].pos : store[st[1]][i] = st[2]
Walking(t) ==
    /\ stream[t].list \notin stream[t].todo
    /\ stream[t].list # None => stream[t].pos <= Len(store[stream[t].list])
    /\ \A st \in stream[t].sent : st[1] \notin stream[t].todo
    /\ \A st \in stream[t].sent : st[1] = stream[t].list => Visited(t, st)
    /\ \A st \in stream[t].snap : Wanted(t, st) => st \in stream[t].sent \cup Ahead(t)

WalkInv ==
    \A t \in Streamers : (pc[t] = "lock" => Waiting(t)) /\ (pc[t] = "walk" => Walking(t))

\* Without a deletion no session moves within its list.
LEMMA ListsGrow ==
    ASSUME TypeOK, OwnInv, [Next]_vars, ~CleanDelete, NEW p \in Peers
    PROVE  /\ Len(store[p]) \in Nat
           /\ Len(store'[p]) \in Nat
           /\ DOMAIN store[p] = 1..Len(store[p])
           /\ Len(store[p]) <= Len(store'[p])
           /\ \A i \in 1..Len(store[p]) : store'[p][i] = store[p][i]
<1>1. store[p] \in Seq(Serials) /\ Len(store[p]) \in Nat /\ DOMAIN store[p] = 1..Len(store[p])
  BY DEF TypeOK
<1>2. CASE store'[p] = store[p]
  BY <1>1, <1>2
<1>3. ASSUME NEW t \in Setters, SetRun(t)
      PROVE  /\ Len(store'[p]) \in Nat
             /\ Len(store[p]) <= Len(store'[p])
             /\ \A i \in 1..Len(store[p]) : store'[p][i] = store[p][i]
  <2>1. PICK q \in Peers, k \in Serials : Put(q, k)
    BY <1>3, SetRunPuts
  <2>2. \/ store'[p] = store[p]
        \/ /\ Len(store'[p]) = Len(store[p]) + 1
           /\ \A i \in 1..Len(store[p]) : store'[p][i] = store[p][i]
    BY <1>1, <2>1, PutList
  <2>. QED
    BY <1>1, <2>2
<1>. QED
  BY <1>1, <1>2, <1>3, DataSteps DEF data

\* Set makes the list it puts a session into.
LEMMA MadeStep ==
    ASSUME Inv, MadeInv, [Next]_vars
    PROVE  MadeInv'
<1>0. TypeOK /\ OwnInv /\ CursorInv /\ StoreOrdered
  BY DEF Inv
<1>1. CASE UNCHANGED data
  BY <1>1 DEF data, Held, MadeInv
<1>2. ASSUME NEW t \in Setters, SetRun(t)
      PROVE  MadeInv'
  <2>1. PICK p \in Peers, k \in Serials : Put(p, k)
    BY <1>0, <1>2, SetRunPuts
  <2>2. Held' \subseteq Held \cup {<<p, k>>} /\ made' = made \cup {p}
    BY <1>0, <2>1, HeldAfterPut DEF Put
  <2>. QED
    BY <2>2 DEF MadeInv
<1>3. ASSUME CleanDelete PROVE MadeInv'
  <2>1. Held' \subseteq Held /\ made' = made
    BY <1>0, <1>3, HeldAfterDelete DEF CleanDelete
  <2>. QED
    BY <2>1 DEF MadeInv
<1>. QED
  BY <1>1, <1>2, <1>3, DataSteps

\* Appending to the lists does not take a session a stream still has ahead of
\* it away, nor one it has passed from where it passed it.
LEMMA WalkKept ==
    ASSUME Inv, [Next]_vars, ~CleanDelete, NEW t \in Streamers,
           Walking(t), stream'[t] = stream[t]
    PROVE  Walking(t)'
<1>. DEFINE r == stream[t]
<1>0. TypeOK /\ OwnInv /\ CursorInv /\ StoreOrdered /\ r \in StreamState
  BY DEF Inv, TypeOK
<1>1. Held \subseteq Held'
  BY <1>0, HeldGrowsOrDelete
<1>2. ASSUME r.list # None
      PROVE  /\ r.pos <= Len(store'[r.list])
             /\ \A i \in 1..r.pos : store'[r.list][i] = store[r.list][i]
             /\ Rest(t) \subseteq Rest(t)'
  <2>1. r.list \in Peers /\ r.pos \in Nat /\ r.pos <= Len(store[r.list])
    BY <1>0, <1>2 DEF StreamState, Walking
  <2>2. /\ Len(store[r.list]) \in Nat /\ Len(store'[r.list]) \in Nat
        /\ Len(store[r.list]) <= Len(store'[r.list])
        /\ \A i \in 1..Len(store[r.list]) : store'[r.list][i] = store[r.list][i]
    BY <1>0, <2>1, ListsGrow
  <2>3. r.pos <= Len(store'[r.list]) /\ \A i \in 1..r.pos : i \in 1..Len(store[r.list])
    BY <2>1, <2>2
  <2>4. ASSUME NEW e \in Rest(t) PROVE e \in Rest(t)'
    <3>1. PICK i \in (r.pos + 1)..Len(store[r.list]) : e = <<r.list, store[r.list][i]>>
      BY <1>2, <2>4 DEF Rest
    <3>2. i \in 1..Len(store[r.list]) /\ i \in (r.pos + 1)..Len(store'[r.list])
      BY <2>1, <2>2, <3>1
    <3>3. e = <<r.list, store'[r.list][i]>>
      BY <2>2, <3>1, <3>2
    <3>. QED
      BY <1>2, <3>2, <3>3 DEF Rest
  <2>. QED
    BY <2>2, <2>3, <2>4
<1>3. Ahead(t) \subseteq Ahead(t)'
  <2>1. Rest(t) \subseteq Rest(t)'
    BY <1>2 DEF Rest
  <2>. QED
    BY <1>1, <2>1 DEF Ahead
<1>4. \A st \in r.sent : st[1] = r.list => Visited(t, st)'
  <2>1. SUFFICES ASSUME NEW st \in r.sent, st[1] = r.list
                 PROVE  Visited(t, st)'
    OBVIOUS
  <2>2. st[1] \in Peers /\ r.list # None
    BY <1>0, <2>1, NoneAssumption DEF StreamState, Stamps
  <2>3. PICK i \in 1..r.pos : store[r.list][i] = st[2]
    BY <2>1 DEF Walking, Visited
  <2>. QED
    BY <1>2, <2>1, <2>2, <2>3 DEF Visited
<1>. QED
  BY <1>2, <1>3, <1>4 DEF Walking, Wanted

\* Stream opens with everything it must send in the lists it will visit.
LEMMA StartWaits ==
    ASSUME TypeOK, MadeInv, NEW t \in Streamers, StreamStart(t)
    PROVE  pc'[t] = "lock" /\ Waiting(t)' /\ stream'[t].sent = {}
<1>1. PICK from \in Requests : StreamOpen(t, from)
  BY DEF StreamStart
<1>2. stream'[t] = [NoStream EXCEPT !.from = from, !.todo = made, !.snap = Held]
  BY <1>1 DEF StreamOpen, TypeOK
<1>3. /\ stream'[t].list = None
      /\ stream'[t].sent = {}
      /\ stream'[t].todo = made
      /\ stream'[t].snap = Held
  BY <1>2 DEF NoStream
<1>4. pc'[t] = "lock"
  BY <1>1 DEF StreamOpen, Goto, TypeOK, Threads
<1>. QED
  BY <1>3, <1>4 DEF Waiting, MadeInv

\* When it gets delMu, all it must send is still listed, and ahead of it.
LEMMA LockWalks ==
    ASSUME Inv, NEW t \in Streamers, Waiting(t), StreamLock(t)
    PROVE  Walking(t)' /\ stream'[t] = stream[t]
<1>. DEFINE r == stream[t]
<1>1. TypeOK /\ r \in StreamState /\ pc[t] = "lock"
  BY DEF Inv, TypeOK, StreamLock, Goto
<1>2. stream' = stream /\ Held' = Held
  BY DEF StreamLock, data, Held
<1>3. r.list \notin r.todo
  BY <1>1, NoneAssumption DEF StreamState, Waiting
<1>4. r.snap \subseteq Ahead(t)'
  <2>1. r.snap \subseteq Held
    BY <1>1 DEF Inv, SnapInv
  <2>. QED
    BY <1>2, <2>1 DEF Ahead, Waiting
<1>. QED
  BY <1>2, <1>3, <1>4 DEF Walking, Waiting

\* Going on to the next list, at its front, a stream leaves nothing behind.
LEMMA ListWalks ==
    ASSUME Inv, NEW t \in Streamers, Walking(t), NEW p \in Peers, StreamList(t, p)
    PROVE  Walking(t)' /\ stream'[t].sent = stream[t].sent
<1>. DEFINE r == stream[t]
<1>1. TypeOK /\ r \in StreamState /\ SnapInv /\ p # None
  BY NoneAssumption DEF Inv, TypeOK
<1>2. stream'[t] = [r EXCEPT !.todo = @ \ {p}, !.list = p, !.pos = 0]
  BY <1>1 DEF StreamList, TypeOK
<1>3. /\ stream'[t].todo = r.todo \ {p}
      /\ stream'[t].list = p
      /\ stream'[t].pos = 0
      /\ stream'[t].snap = r.snap
      /\ stream'[t].sent = r.sent
      /\ stream'[t].from = r.from
  BY <1>1, <1>2 DEF StreamState
<1>4. Held' = Held /\ store' = store /\ p \in r.todo /\ Rest(t) \cap r.snap = {}
  BY DEF StreamList, ListDone, data, Held
<1>5. store[p] \in Seq(Serials) /\ Len(store[p]) \in Nat /\ DOMAIN store[p] = 1..Len(store[p])
  BY <1>1 DEF TypeOK
<1>6. \A st \in r.sent : st[1] \notin r.todo /\ st[1] # p
  BY <1>4 DEF Walking
<1>7. ASSUME NEW st \in r.snap, Wanted(t, st)
      PROVE  st \in r.sent \cup Ahead(t)'
  <2>1. CASE st \in Held /\ st[1] \in r.todo /\ st[1] # p
    BY <1>3, <1>4, <2>1 DEF Ahead
  <2>2. CASE st \in Held /\ st[1] = p
    <3>1. st = <<p, st[2]>> /\ \E i \in 1..Len(store[p]) : store[p][i] = st[2]
      BY <1>5, <2>2 DEF Held, Stamps
    <3>2. (0 + 1)..Len(store[p]) = 1..Len(store[p])
      OBVIOUS
    <3>3. st \in Rest(t)'
      BY <1>1, <1>3, <1>4, <3>1, <3>2 DEF Rest
    <3>. QED
      BY <3>3 DEF Ahead
  <2>3. st \in r.sent \cup Ahead(t)
    BY <1>7 DEF Walking
  <2>. QED
    BY <1>4, <2>1, <2>2, <2>3 DEF Ahead
<1>8. stream'[t].pos <= Len(store'[p])
  BY <1>3, <1>4, <1>5
<1>. QED
  BY <1>3, <1>6, <1>7, <1>8 DEF Walking, Wanted

\* The session at the next position is sent or not wanted, and lies behind
\* everything of its list that was sent before it.
LEMMA StepWalks ==
    ASSUME Inv, NEW t \in Streamers, Walking(t), StreamStep(t)
    PROVE  /\ Walking(t)'
           /\ \A new \in stream'[t].sent \ stream[t].sent :
                \A old \in stream[t].sent : old[1] = new[1] => old[2] < new[2]
<1>. DEFINE r == stream[t]
            p == r.list
            n == r.pos + 1
            e == <<p, store[p][n]>>
<1>1. TypeOK /\ StoreOrdered /\ r \in StreamState /\ r.pos \in Nat
  BY DEF Inv, TypeOK, StreamState
<1>2. p # None /\ n \in Nat /\ n <= Len(store[p])
  <2>1. PICK i \in (r.pos + 1)..Len(store[p]) : p # None
    BY DEF StreamStep, Rest
  <2>2. p \in Peers
    BY <1>1, <2>1 DEF StreamState
  <2>3. Len(store[p]) \in Nat
    BY <1>1, <2>2 DEF TypeOK
  <2>. QED
    BY <1>1, <2>1, <2>3
<1>3. p \in Peers /\ store[p] \in Seq(Serials) /\ Len(store[p]) \in Nat /\ DOMAIN store[p] = 1..Len(store[p])
  BY <1>1, <1>2 DEF TypeOK, StreamState
<1>4. /\ stream'[t].todo = r.todo
      /\ stream'[t].list = p
      /\ stream'[t].pos = n
      /\ stream'[t].snap = r.snap
      /\ stream'[t].from = r.from
      /\ \/ stream'[t].sent = r.sent \cup {e}
         \/ stream'[t].sent = r.sent /\ ~Wanted(t, e)
  <2>1. \/ stream'[t] = [r EXCEPT !.pos = @ + 1, !.sent = @ \cup {e}]
        \/ stream'[t] = [r EXCEPT !.pos = @ + 1] /\ ~Wanted(t, e)
    BY <1>1 DEF StreamStep, TypeOK
  <2>2. CASE stream'[t] = [r EXCEPT !.pos = @ + 1, !.sent = @ \cup {e}]
    BY <1>1, <2>2 DEF StreamState
  <2>3. CASE stream'[t] = [r EXCEPT !.pos = @ + 1] /\ ~Wanted(t, e)
    BY <1>1, <2>3 DEF StreamState
  <2>. QED
    BY <2>1, <2>2, <2>3
<1>5. Held' = Held /\ store' = store
  BY DEF StreamStep, data, Held
<1>. HIDE DEF e
<1>6. e[1] = p /\ e[2] = store[p][n]
  BY DEF e
<1>7. ASSUME NEW st \in stream'[t].sent, st[1] = p
      PROVE  Visited(t, st)'
  <2>1. CASE st = e
    BY <1>1, <1>2, <1>4, <1>5, <1>6, <2>1 DEF Visited
  <2>2. CASE st \in r.sent
    <3>1. PICK i \in 1..r.pos : store[p][i] = st[2]
      BY <1>7, <2>2 DEF Walking, Visited
    <3>2. i \in 1..n
      BY <1>1, <3>1
    <3>. QED
      BY <1>4, <1>5, <1>7, <3>1, <3>2 DEF Visited
  <2>. QED
    BY <1>4, <1>7, <2>1, <2>2
<1>8. \A st \in stream'[t].sent : st[1] \notin r.todo
  BY <1>4, <1>6 DEF Walking
<1>9. ASSUME NEW st \in r.snap, Wanted(t, st)
      PROVE  st \in stream'[t].sent \cup Ahead(t)'
  <2>1. CASE st \in r.sent
    BY <1>4, <2>1
  <2>2. CASE st \in Held /\ st[1] \in r.todo
    BY <1>4, <1>5, <2>2 DEF Ahead
  <2>3. CASE st \in Rest(t)
    <3>1. PICK i \in (r.pos + 1)..Len(store[p]) : st = <<p, store[p][i]>>
      BY <1>2, <2>3 DEF Rest
    <3>2. CASE i = n
      BY <1>4, <1>9, <3>1, <3>2 DEF e
    <3>3. CASE i # n
      <4>1. i \in (n + 1)..Len(store[p])
        BY <1>1, <1>3, <3>1, <3>3
      <4>2. st \in Rest(t)'
        BY <1>2, <1>4, <1>5, <3>1, <4>1 DEF Rest
      <4>. QED
        BY <4>2 DEF Ahead
    <3>. QED
      BY <3>2, <3>3
  <2>. QED
    BY <1>9, <2>1, <2>2, <2>3 DEF Walking, Ahead
<1>10. Walking(t)'
  BY <1>2, <1>4, <1>5, <1>7, <1>8, <1>9 DEF Walking, Wanted
<1>11. ASSUME NEW new \in stream'[t].sent \ r.sent, NEW old \in r.sent, old[1] = new[1]
       PROVE  old[2] < new[2]
  <2>1. new = e
    BY <1>4, <1>11
  <2>2. PICK i \in 1..r.pos : store[p][i] = old[2]
    BY <1>6, <1>11, <2>1 DEF Walking, Visited
  <2>3. i \in 1..Len(store[p]) /\ n \in 1..Len(store[p]) /\ i < n
    BY <1>1, <1>2, <1>3, <2>2
  <2>. QED
    BY <1>1, <1>3, <1>6, <2>1, <2>2, <2>3 DEF StoreOrdered
<1>. QED
  BY <1>10, <1>11

\* A consumer that leaves changes nothing of what was sent or is ahead.
LEMMA AbandonKeeps ==
    ASSUME TypeOK, NEW t \in Streamers, StreamAbandon(t)
    PROVE  /\ pc'[t] = pc[t]
           /\ stream'[t].sent = stream[t].sent
           /\ Waiting(t) => Waiting(t)'
           /\ Walking(t) => Walking(t)'
<1>. DEFINE r == stream[t]
<1>1. r \in StreamState /\ stream'[t] = [r EXCEPT !.gone = TRUE]
  BY DEF TypeOK, StreamAbandon
<1>2. /\ stream'[t].todo = r.todo
      /\ stream'[t].list = r.list
      /\ stream'[t].pos = r.pos
      /\ stream'[t].snap = r.snap
      /\ stream'[t].sent = r.sent
      /\ stream'[t].from = r.from
  BY <1>1 DEF StreamState
<1>3. pc' = pc /\ Held' = Held /\ store' = store
  BY DEF StreamAbandon, data, Held
<1>4. Ahead(t)' = Ahead(t)
  BY <1>2, <1>3 DEF Ahead, Rest
<1>. QED
  BY <1>2, <1>3, <1>4 DEF Waiting, Walking, Visited, Wanted

\* Every step of every thread keeps what is said of a stream.
LEMMA WalkStep ==
    ASSUME Inv, MadeInv, WalkInv, [Next]_vars
    PROVE  WalkInv'
<1>1. SUFFICES ASSUME NEW t \in Streamers
               PROVE  (pc'[t] = "lock" => Waiting(t)') /\ (pc'[t] = "walk" => Walking(t)')
  BY DEF WalkInv
<1>2. /\ TypeOK /\ LockInv
      /\ pc[t] = "lock" => Waiting(t)
      /\ pc[t] = "walk" => Walking(t)
  BY DEF Inv, WalkInv
<1>3. CASE CleanDelete
  <2>1. pc'[t] = pc[t] /\ pc[t] # "walk"
    BY <1>2, <1>3, ThreadsAssumption DEF CleanDelete, Goto, TypeOK, LockInv, Threads
  <2>2. ASSUME pc[t] = "lock" PROVE Waiting(t)'
    <3>1. stream[t] \in StreamState /\ stream'[t] = [stream[t] EXCEPT !.snap = @ \ {Victim}]
      BY <1>2, <1>3, <2>2 DEF CleanDelete, TypeOK, Victim
    <3>2. /\ stream'[t].snap \subseteq stream[t].snap
          /\ stream'[t].todo = stream[t].todo
          /\ stream'[t].list = stream[t].list
          /\ stream'[t].sent = stream[t].sent
      BY <3>1 DEF StreamState
    <3>. QED
      BY <1>2, <2>2, <3>2 DEF Waiting
  <2>. QED
    BY <2>1, <2>2
<1>4. CASE ~CleanDelete /\ pc'[t] = pc[t] /\ stream'[t] = stream[t]
  <2>1. pc[t] = "lock" => Waiting(t)'
    BY <1>2, <1>4 DEF Waiting
  <2>2. pc[t] = "walk" => Walking(t)'
    BY <1>2, <1>4, WalkKept
  <2>. QED
    BY <1>4, <2>1, <2>2
<1>5. CASE StreamStart(t)
  BY <1>2, <1>5, StartWaits
<1>6. CASE StreamLock(t)
  <2>1. pc[t] = "lock" /\ pc'[t] = "walk"
    BY <1>2, <1>6 DEF StreamLock, Goto, TypeOK, Threads
  <2>. QED
    BY <1>2, <1>6, <2>1, LockWalks
<1>7. ASSUME NEW p \in Peers, StreamList(t, p)
      PROVE  pc'[t] = "walk" /\ Walking(t)'
  <2>1. pc[t] = "walk" /\ pc' = pc
    BY <1>7 DEF StreamList, ListDone
  <2>. QED
    BY <1>2, <1>7, <2>1, ListWalks
<1>8. CASE StreamStep(t)
  <2>1. pc[t] = "walk" /\ pc' = pc
    BY <1>8 DEF StreamStep
  <2>. QED
    BY <1>2, <1>8, <2>1, StepWalks
<1>9. CASE StreamClose(t)
  BY <1>2, <1>9 DEF StreamClose, Goto, TypeOK, Threads
<1>10. CASE StreamAbandon(t)
  BY <1>2, <1>10, AbandonKeeps
<1>. QED
  BY <1>2, <1>3, <1>4, <1>5, <1>6, <1>7, <1>8, <1>9, <1>10, StreamMoves DEF StreamWalk

\* The invariant of the streams, on top of Inv.
THEOREM StreamInvariance == Spec => [](Inv /\ MadeInv /\ WalkInv)
<1>1. Init => MadeInv /\ WalkInv
  <2>. SUFFICES ASSUME Init PROVE MadeInv /\ WalkInv
    OBVIOUS
  <2>1. \A p \in Peers : DOMAIN store[p] = {}
    BY DEF Init
  <2>2. Held = {}
    BY <2>1 DEF Held, Stamps
  <2>. QED
    BY <2>2 DEF Init, MadeInv, WalkInv, Threads
<1>2. Inv /\ MadeInv /\ WalkInv /\ [Next]_vars => MadeInv' /\ WalkInv'
  BY MadeStep, WalkStep
<1>. QED
  BY <1>1, <1>2, Invariance, PTL DEF Spec

\* Stream sends, or has still ahead of it, every session it was asked for.
THEOREM StreamsComplete == Spec => []StreamComplete
<1>1. WalkInv => StreamComplete
  BY DEF WalkInv, Walking, StreamComplete
<1>. QED
  BY <1>1, StreamInvariance, PTL

\* Stream sends the sessions of one peer in ascending order, none of them
\* twice, while Set appends to the lists it walks.
THEOREM StreamsAscend == Spec => StreamAscending
<1>1. ASSUME Inv, MadeInv, WalkInv, [Next]_vars, NEW t \in Streamers,
             NEW new \in stream'[t].sent \ stream[t].sent,
             NEW old \in stream[t].sent, old[1] = new[1]
      PROVE  old[2] < new[2]
  <2>1. TypeOK /\ stream[t] \in StreamState
    BY <1>1 DEF Inv, TypeOK
  <2>2. ~CleanDelete
    <3>1. SUFFICES ASSUME CleanDelete PROVE stream'[t].sent = stream[t].sent
      BY <1>1
    <3>2. stream'[t] = stream[t] \/ stream'[t] = [stream[t] EXCEPT !.snap = @ \ {Victim}]
      BY <3>1 DEF CleanDelete, Victim
    <3>. QED
      BY <2>1, <3>2 DEF StreamState
  <2>3. ~StreamStart(t) /\ ~StreamAbandon(t)
    BY <1>1, <2>1, StartWaits, AbandonKeeps
  <2>4. ~StreamLock(t)
    BY <1>1 DEF StreamLock
  <2>5. ~StreamClose(t)
    <3>1. SUFFICES ASSUME StreamClose(t) PROVE stream'[t].sent = {}
      BY <1>1
    <3>2. stream'[t] = NoStream
      BY <2>1, <3>1 DEF StreamClose, TypeOK
    <3>. QED
      BY <3>2 DEF NoStream
  <2>6. ASSUME NEW p \in Peers, StreamList(t, p) PROVE FALSE
    <3>1. Walking(t)
      BY <1>1, <2>6 DEF StreamList, ListDone, WalkInv
    <3>. QED
      BY <1>1, <2>6, <3>1, ListWalks
  <2>7. StreamStep(t)
    BY <1>1, <2>1, <2>2, <2>3, <2>4, <2>5, <2>6, StreamMoves DEF StreamWalk
  <2>8. Walking(t)
    BY <1>1, <2>7 DEF StreamStep, WalkInv
  <2>. QED
    BY <1>1, <2>7, <2>8, StepWalks
<1>2. Inv /\ MadeInv /\ WalkInv /\ [Next]_vars =>
        [\A t \in Streamers : \A new \in stream'[t].sent \ stream[t].sent :
           \A old \in stream[t].sent : old[1] = new[1] => old[2] < new[2]]_vars
  BY <1>1
<1>. QED
  BY <1>2, StreamInvariance, PTL DEF Spec, StreamAscending

\* A session that is listed and indexed stays so until the cleaner removes an
\* expired session with its id.
THEOREM StaysReachable == Spec => ReachableUntilExpiry
<1>1. ASSUME Inv, [Next]_vars, NEW st \in Reachable, st \notin Reachable'
      PROVE  \E ex \in Held \ Held' : Content[ex].id = Content[st].id
  <2>1. /\ TypeOK /\ OwnInv /\ CursorInv /\ StoreOrdered
        /\ st \in Held /\ lookup[Content[st].id] # None
    BY <1>1 DEF Inv, Reachable
  <2>2. st \in Stamps /\ Content[st].id \in Ids
    BY <2>1, ContentAssumption DEF Held, Session
  <2>3. CASE UNCHANGED data
    BY <1>1, <2>1, <2>3 DEF data, Held, Reachable
  <2>4. ASSUME NEW t \in Setters, SetRun(t) PROVE FALSE
    <3>1. PICK p \in Peers, k \in Serials : Put(p, k)
      BY <2>1, <2>4, SetRunPuts
    <3>2. st \in Held'
      BY <2>1, <3>1, HeldAfterPut
    <3>3. <<p, k>> \in Stamps
      BY DEF Stamps
    <3>4. Content[<<p, k>>] # None
      BY <3>3, ContentAssumption, NoneAssumption
    <3>5. \/ lookup' = lookup
          \/ lookup' = [lookup EXCEPT ![Content[<<p, k>>].id] = Content[<<p, k>>]]
      BY <2>1, <3>1, HeldAfterPut
    <3>6. lookup'[Content[st].id] # None
      BY <2>1, <2>2, <3>4, <3>5 DEF TypeOK
    <3>. QED
      BY <1>1, <3>2, <3>6 DEF Reachable
  <2>5. CASE CleanDelete
    <3>1. /\ Victim \in Held
          /\ Held' = Held \ {Victim}
          /\ lookup' = [lookup EXCEPT ![Content[Victim].id] = None]
      BY <2>1, <2>5, HeldAfterDelete
    <3>2. Content[st].id = Content[Victim].id
      <4>1. SUFFICES ASSUME Content[st].id # Content[Victim].id PROVE st \in Reachable'
        BY <1>1
      <4>2. st \in Held' /\ lookup'[Content[st].id] = lookup[Content[st].id]
        BY <2>1, <2>2, <3>1, <4>1 DEF TypeOK
      <4>. QED
        BY <2>1, <4>2 DEF Reachable
    <3>. QED
      BY <3>1, <3>2
  <2>. QED
    BY <1>1, <2>3, <2>4, <2>5, DataSteps
<1>2. Inv /\ [Next]_vars =>
        [\A st \in Reachable : st \notin Reachable' =>
           \E ex \in Held \ Held' : Content[ex].id = Content[st].id]_vars
  BY <1>1
<1>. QED
  BY <1>2, Invariance, PTL DEF Spec, ReachableUntilExpiry

=============================================================================
