----------------------------- MODULE ByteQueue ------------------------------
(* What a pipe promises: a bounded queue of bytes.  Every byte that is put    *)
(* comes out once and in order, unless the queue goes away with both ends.    *)
EXTENDS Integers, Sequences

CONSTANTS Byte, Capacity

VARIABLES queue, gone
qvars == <<queue, gone>>

QInit == queue = <<>> /\ gone = FALSE

Put == \E b \in Byte :
  /\ ~gone /\ Len(queue) < Capacity
  /\ queue' = Append(queue, b)
  /\ UNCHANGED gone

Get ==
  /\ ~gone /\ queue # <<>>
  /\ queue' = Tail(queue)
  /\ UNCHANGED gone

Drop == ~gone /\ gone' = TRUE /\ queue' = <<>>

QNext == Put \/ Get \/ Drop

QSpec == QInit /\ [][QNext]_qvars
=============================================================================
