------------------------------ MODULE MCContent -----------------------------
(* Instances of Content for TLC. *)
EXTENDS Content, TLC

Symmetry == Permutations(Proc) \cup Permutations(File)
=============================================================================
