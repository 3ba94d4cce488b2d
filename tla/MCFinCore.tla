----------------------------- MODULE MCFinCore ------------------------------
(* Instances of FinCore for TLC: agents that pay a shop, and a master vault. *)
EXTENDS FinCore, TLC

CONSTANTS a1, vault, acct, shop, i1, c1, c2

MCAccountOf == [a \in Agents |-> acct]
MCPrice     == [i \in Invoices |-> 2]
MCPolicy    == [min |-> 2, target |-> 3, max_single |-> 2, max_daily |-> 3]
MCOpenings  == {[a \in Accounts |-> IF a = shop THEN 0 ELSE n] : n \in {0, 2}}
Symmetric   == Permutations(Calls)
=============================================================================
