------------------------- MODULE MCAccountLifecycle -------------------------
(* Instances of AccountLifecycle for TLC; no symmetry, for the sake of the   *)
(* liveness property.                                                       *)
EXTENDS AccountLifecycle
=============================================================================
