--------------------------- MODULE MCServedProfile ---------------------------
(* Instances of ServedProfile for TLC; no symmetry, for the sake of the      *)
(* liveness property.                                                       *)
EXTENDS ServedProfile
=============================================================================
