------------------------------- MODULE MCData -------------------------------
(* A finite instance of Data: 1 and 2 are strangers with two common        *)
(* friends, 5 and 6 are their strangers with one, and one friendship is    *)
(* listed from both ends.                                                  *)
EXTENDS Data, TLC
MCFile == <<<<1, 3>>, <<1, 4>>, <<2, 3>>, <<4, 6>>, <<2, 4>>, <<6, 4>>, <<3, 5>>>>
MCRank == [u \in Users |-> CASE u = 2 -> 300 [] u = 6 -> 250 [] OTHER -> 10 * u]
Symmetry == Permutations(Callers)
=============================================================================
