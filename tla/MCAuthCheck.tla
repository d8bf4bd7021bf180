---------------------------- MODULE MCAuthCheck ----------------------------
(* Small instances of AuthCheck.                                            *)
EXTENDS AuthCheck

CONSTANTS a, k1, k2, p

\* Two versions of the policy: the second has a new token secret and lets
\* everyone in.
OldPolicy == [key |-> k1, need |-> [rt \in {p} |-> {a}]]
NewPolicy == [key |-> k2, need |-> [rt \in {p} |-> {}]]
OnePolicy == {OldPolicy}
BothPolicies == {OldPolicy, NewPolicy}

\* The policy is deleted, or stored anew.
AnyChange == {NewPolicy, None}

\* Callback links without a code, and without a state.
NoStrays == {}
OldLinks == {<<1, 0>>, <<0, 1>>}
=============================================================================
