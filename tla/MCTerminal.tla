----------------------------- MODULE MCTerminal -----------------------------
(* Instances of Terminal for TLC. *)
EXTENDS Terminal, TLC

Symmetry == Permutations(Writer) \cup Permutations(Byte)
=============================================================================
