----------------------------- MODULE MCSessions -----------------------------
(* Finite instances of Sessions.                                           *)
EXTENDS Sessions, TLC

Symmetry == Permutations(Calls)
=============================================================================
