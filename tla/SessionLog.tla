----------------------------- MODULE SessionLog -----------------------------
(***************************************************************************)
(* What a node's session store promises to the rest of the program: a set  *)
(* of stamped sessions that grows, per issuing peer, only above what it     *)
(* already holds, and loses sessions only to the cleaner.  SessionStore     *)
(* implements it with lists, locks and a cleaner; Replication assumes it.   *)
(***************************************************************************)
EXTENDS Integers

CONSTANTS
    Self,       \* the peer id of the node that owns the store
    Remotes,    \* the peer ids of the other nodes
    MaxSerial   \* bound on the serials handed out

Peers == Remotes \cup {Self}
Serials == 1..MaxSerial
Stamps == Peers \X Serials

VARIABLES
    curr,   \* the last serial this node handed out
    log     \* the stamps of the sessions held

logVars == <<curr, log>>

LogInit == curr = 0 /\ log = {}

\* st may be stored: nothing as recent from the same peer is held.
Newest(st) == \A e \in log : e[1] = st[1] => e[2] < st[2]

\* A session issued by this node gets the next serial and is always stored.
Issue ==
    /\ curr < MaxSerial
    /\ Newest(<<Self, curr + 1>>)
    /\ curr' = curr + 1
    /\ log' = log \cup {<<Self, curr + 1>>}

\* A session learned from another node, at best one of our own coming back.
Learn(st) ==
    /\ st[1] = Self => st[2] <= curr
    /\ Newest(st)
    /\ log' = log \cup {st}
    /\ UNCHANGED curr

Forget(st) ==
    /\ st \in log
    /\ log' = log \ {st}
    /\ UNCHANGED curr

LogNext ==
    \/ Issue
    \/ \E st \in Stamps : Learn(st) \/ Forget(st)

LogSpec == LogInit /\ [][LogNext]_logVars
=============================================================================
