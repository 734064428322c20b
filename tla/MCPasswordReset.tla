-------------------------- MODULE MCPasswordReset --------------------------
(* Instances of PasswordReset for TLC: flow ids and request slots are       *)
(* interchangeable.                                                         *)
EXTENDS PasswordReset, TLC

Symmetry == Permutations(Flows) \cup Permutations(Reqs)
=============================================================================
