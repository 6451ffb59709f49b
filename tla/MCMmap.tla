------------------------------- MODULE MCMmap -------------------------------
(* Instances of Mmap for TLC. *)
EXTENDS Mmap, TLC

(* Every PROT_WRITE and MAP_SHARED, the four that mmaptest.c asks for. *)
AnyMode == [write : BOOLEAN, shared : BOOLEAN]
=============================================================================
