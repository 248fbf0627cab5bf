------------------------------ MODULE MCStorage ------------------------------
(* Finite instances of Storage.                                             *)
EXTENDS Storage
==============================================================================
