----------------------------- MODULE MCTreasury -----------------------------
(* Instances of Treasury for TLC. *)
EXTENDS Treasury

CONSTANTS w1, w2, i1, refill, k1, ns1, tick, r1

\* At most one refill of 1 a day; a policy that refuses it; one that allows a
\* refill of 2.
Narrow == [min |-> 1, target |-> 2, max_single |-> 1, max_daily |-> 1]
Zero   == [min |-> 1, target |-> 2, max_single |-> 0, max_daily |-> 0]
Wide   == [min |-> 1, target |-> 2, max_single |-> 2, max_daily |-> 2]

LowPolicies == {Narrow, Zero}
OnePolicy == {Wide}
=============================================================================
