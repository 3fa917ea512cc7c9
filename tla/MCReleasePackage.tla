--------------------------- MODULE MCReleasePackage ---------------------------
(* A small release for TLC. *)
EXTENDS ReleasePackage, TLC
Symmetry == Permutations(Sources)
==============================================================================
