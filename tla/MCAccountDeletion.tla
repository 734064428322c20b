------------------------- MODULE MCAccountDeletion -------------------------
(* Instances of AccountDeletion for TLC: accounts and workers are           *)
(* interchangeable.                                                         *)
EXTENDS AccountDeletion, TLC

Symmetry == Permutations(Users) \cup Permutations(Workers)
=============================================================================
