----------------------------- MODULE BlockStore -----------------------------
(* What the buffer cache promises: every block has one value and at most one  *)
(* process that may look at it or change it.                                  *)
CONSTANTS Proc, Block, Value, None

VARIABLES content, owner
cvars == <<content, owner>>

CInit == content \in [Block -> Value] /\ owner = [k \in Block |-> None]

Take(p, k) ==
  /\ owner[k] = None
  /\ owner' = [owner EXCEPT ![k] = p]
  /\ UNCHANGED content

Change(p, k) ==
  /\ owner[k] = p
  /\ \E v \in Value : content' = [content EXCEPT ![k] = v]
  /\ UNCHANGED owner

Give(p, k) ==
  /\ owner[k] = p
  /\ owner' = [owner EXCEPT ![k] = None]
  /\ UNCHANGED content

CNext == \E p \in Proc, k \in Block : Take(p, k) \/ Change(p, k) \/ Give(p, k)

CSpec == CInit /\ [][CNext]_cvars
=============================================================================
