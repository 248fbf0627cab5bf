------------------------------ MODULE MCDbPool ------------------------------
(* Finite instances of DbPool.                                             *)
EXTENDS DbPool, TLC

Symmetry == Permutations(Threads) \cup Permutations(Conns)
=============================================================================
