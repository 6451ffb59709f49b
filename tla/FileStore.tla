----------------------------- MODULE FileStore ------------------------------
(* What the blocks of a file promise: every file is a sequence of its own,    *)
(* overwritten in place, grown at its end, or truncated.                      *)
EXTENDS Integers, Sequences

CONSTANTS File, Val, MaxLen

VARIABLES contents

FInit == contents = [f \in File |-> <<>>]

(* Some of its positions hold a new value. *)
Overwrite(f) == \E v \in Val, S \in SUBSET DOMAIN contents[f] :
  contents' = [contents EXCEPT ![f] = [k \in DOMAIN @ |-> IF k \in S THEN v ELSE @[k]]]

Append1(f) == \E v \in Val, n \in 1..(MaxLen - Len(contents[f])) :
  contents' = [contents EXCEPT ![f] = @ \o [k \in 1..n |-> v]]

Truncate(f) == contents' = [contents EXCEPT ![f] = <<>>]

FNext == \E f \in File : Overwrite(f) \/ Append1(f) \/ Truncate(f)

FSpec == FInit /\ [][FNext]_contents
=============================================================================
