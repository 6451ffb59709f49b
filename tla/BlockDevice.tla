---------------------------- MODULE BlockDevice -----------------------------
(* What virtio_disk_rw() promises: by the time it returns, the buffer's       *)
(* contents and its block have been copied once, in the direction asked for.  *)
CONSTANTS Buf, Value

VARIABLES disk, data, request
bvars == <<disk, data, request>>

BInit ==
  /\ disk \in [Buf -> Value] /\ data \in [Buf -> Value]
  /\ request = [b \in Buf |-> "idle"]

Call(b) ==
  /\ request[b] = "idle"
  /\ \/ request' = [request EXCEPT ![b] = "read"] /\ UNCHANGED data
     \/ /\ request' = [request EXCEPT ![b] = "write"]
        /\ \E v \in Value : data' = [data EXCEPT ![b] = v]
  /\ UNCHANGED disk

Do(b) ==
  /\ request[b] \in {"read", "write"}
  /\ disk' = IF request[b] = "write" THEN [disk EXCEPT ![b] = data[b]] ELSE disk
  /\ data' = IF request[b] = "read" THEN [data EXCEPT ![b] = disk[b]] ELSE data
  /\ request' = [request EXCEPT ![b] = "done"]

Return(b) ==
  /\ request[b] = "done"
  /\ request' = [request EXCEPT ![b] = "idle"]
  /\ UNCHANGED <<disk, data>>

BNext == \E b \in Buf : Call(b) \/ Do(b) \/ Return(b)

BSpec == BInit /\ [][BNext]_bvars
=============================================================================
