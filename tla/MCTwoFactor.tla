---------------------------- MODULE MCTwoFactor ----------------------------
(* Instances of TwoFactor for TLC: request slots and challenge ids are      *)
(* interchangeable.                                                         *)
EXTENDS TwoFactor, TLC

Symmetry == Permutations(Reqs) \cup Permutations(Challenges)
=============================================================================
