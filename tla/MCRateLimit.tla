---------------------------- MODULE MCRateLimit ----------------------------
(* RateLimit on small instances: the calls are interchangeable.            *)
EXTENDS RateLimit, TLC

Symmetric == Permutations(Calls)
=============================================================================
