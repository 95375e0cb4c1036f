------------------------------ MODULE MCAdmin ------------------------------
(* Small instances of Admin for TLC. *)
EXTENDS Admin, TLC

Symmetry == Permutations(Rows) \cup Permutations(Changes)
=============================================================================
