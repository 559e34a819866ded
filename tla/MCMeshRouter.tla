---------------------------- MODULE MCMeshRouter ----------------------------
(* Three interchangeable radios and a few advertisements.                   *)
EXTENDS MeshRouter, TLC

CONSTANTS a, b, c

MCNode == {a, b, c}
Symmetry == Permutations(MCNode)
=============================================================================
