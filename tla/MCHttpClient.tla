---------------------------- MODULE MCHttpClient ----------------------------
(* HttpClient on small instances.                                          *)
EXTENDS HttpClient, TLC

CONSTANTS a, b, c1, c2, c3

OneTab == [c \in Calls |-> a]
TwoTabs == (c1 :> a) @@ (c2 :> b)
Symmetric == Permutations(Calls)
=============================================================================
