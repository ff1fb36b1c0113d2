----------------------------- MODULE MCSessions -----------------------------
(* Sessions on small instances: the invocations are interchangeable.       *)
EXTENDS Sessions, TLC

Symmetric == Permutations(Runs)
=============================================================================
