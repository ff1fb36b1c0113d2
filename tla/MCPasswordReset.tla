-------------------------- MODULE MCPasswordReset --------------------------
(* PasswordReset on small instances: equals are interchangeable.           *)
EXTENDS PasswordReset, TLC

Symmetric == Permutations(Runs) \cup Permutations(Asks) \cup Permutations(Resets)
=============================================================================
