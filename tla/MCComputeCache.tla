--------------------------- MODULE MCComputeCache ---------------------------
(* Finite instances of ComputeCache.                                       *)
EXTENDS ComputeCache, TLC

Symmetry == Permutations(Requests)
=============================================================================
