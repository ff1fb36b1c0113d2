------------------------------ MODULE MCOrders ------------------------------
(* Orders on small instances: two variants, two checkouts, two requests.     *)
EXTENDS OrdersInvariant, TLC

CONSTANTS v1, v2

Shelf == (v1 :> 1) @@ (v2 :> 2)

\* One unit of each: a checkout that holds one and another that holds the other
\* each want what the other has.
LastUnits == (v1 :> 1) @@ (v2 :> 1)

Symmetric == Permutations(Checkouts) \cup Permutations(Requests)
=============================================================================
