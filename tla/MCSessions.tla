----------------------------- MODULE MCSessions -----------------------------
(* Instances of Sessions for TLC: ids and request slots are interchangeable. *)
EXTENDS Sessions, TLC

Symmetry == Permutations(Sids) \cup Permutations(Reqs)
=============================================================================
