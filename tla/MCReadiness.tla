---------------------------- MODULE MCReadiness ----------------------------
(* Small instances of Readiness.                                            *)
EXTENDS Readiness

CONSTANTS e, f

\* One peer, or all of them, go away and come back; this node is listed, too.
Churn == {{Self}, {e, Self}, {e, f, Self}}
=============================================================================
