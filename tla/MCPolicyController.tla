------------------------- MODULE MCPolicyController -------------------------
(* Small instances of PolicyController.                                     *)
EXTENDS PolicyController

CONSTANTS selA, selB

\* What the user makes: a policy and all it needs but for the secret or the
\* provider, or with a secret without data.  The controllers have the role in the
\* repository, without delete.
Fresh ==
    LET made(norm, k, g, o) ==
          [ap |-> [p \in Policies |-> CHOOSE ap \in NewPolicy(0) : ap.norm = norm /\ ap.ok],
           secret |-> k, client |-> k \notin {None, NoData}, gw |-> g, op |-> o, maps |-> "fine",
           efs |-> NoFilters, delete |-> FALSE]
    IN  {made(TRUE, None, selA, 1), made(FALSE, WrongKey, selA, 0), made(FALSE, NoData, None, 1)}

\* A policy with all there is to it, or all but its filter, or one that is gone
\* while its filter is still there; under the role in the repository and under a
\* wider one.
Old ==
    LET done == [spec |-> 0, ok |-> TRUE, norm |-> TRUE, fin |-> TRUE, del |-> FALSE, sel |-> selA]
        filter == [sel |-> selA, time |-> 0, pols |-> Policies \X {0}, order |-> 1]
        made(ap, copies, may) ==
          [ap |-> ap, secret |-> 1, client |-> TRUE, gw |-> selA, op |-> 1, maps |-> "fine",
           efs |-> [f \in Filters |-> IF f <= copies THEN filter ELSE None], delete |-> may]
        kept == [p \in Policies |-> done]
        gone == [p \in Policies |-> None]
    IN  {made(kept, 0, TRUE), made(kept, 0, FALSE), made(kept, 1, TRUE), made(gone, 1, TRUE),
         made(gone, 1, FALSE)}

Clusters == Fresh \cup Old
=============================================================================
