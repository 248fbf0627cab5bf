---------------------------- MODULE MCThreadPool ----------------------------
(* Finite instances of ThreadPool.                                         *)
EXTENDS ThreadPool, TLC

Symmetry == Permutations(Workers) \cup Permutations(Clients) \cup Permutations(Tasks)
=============================================================================
