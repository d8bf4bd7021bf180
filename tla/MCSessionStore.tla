--------------------------- MODULE MCSessionStore ---------------------------
(* Small instances of SessionStore.                                         *)
EXTENDS SessionStore

CONSTANTS a, b, x, y

Sess(id, exp) == [id |-> id, expiry |-> exp]

\* Two sessions of one peer, and one of each peer, share an id (two logins
\* with the same claims in the same second), and expiry is not in list order.
SharedContent ==
    [st \in Stamps |->
        CASE st = <<a, 1>> -> Sess(x, 1)
          [] st = <<a, 2>> -> Sess(x, 0)
          [] st = <<b, 1>> -> Sess(y, 0)
          [] OTHER -> Sess(x, 0)]
\* A peer that knows nothing, and one that has seen our first session.
AllOrNewer == {[p \in Peers |-> 0], [p \in Peers |-> IF p = Self THEN 2 ELSE 0]}
AllRequests == {[p \in Peers |-> 0]}
NoRequests == {}

\* Every session has expired one tick later.
ShortContent == [st \in Stamps |-> Sess(x, 0)]
=============================================================================
