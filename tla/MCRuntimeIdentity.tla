------------------------- MODULE MCRuntimeIdentity -------------------------
(* Instances of RuntimeIdentity for TLC. *)
EXTENDS RuntimeIdentity, TLC

Symmetry == Permutations(Txns)
=============================================================================
