----------------------------- MODULE VirtioDisk -----------------------------
(* The driver of kernel/virtio_disk.c: virtio_disk_rw() by the processes that *)
(* have a buffer locked, virtio_disk_intr(), and the device, which takes      *)
(* requests from the avail ring and completes them in any order.  A buffer    *)
(* stands for the process that holds its sleep lock and for its disk block.   *)
EXTENDS Integers, FiniteSetsExt

CONSTANTS
  Buf, Value,
  None,       \* null pointer, free lock
  Intr,       \* the interrupt handler, as an owner of vdisk_lock
  NUM,        \* descriptors, and entries of each ring
  UINT16      \* number of values of a uint16

(* 2^16 is a multiple of NUM, and NUM descriptors serve at least one request. *)
ASSUME SizeAssumption ==
  NUM \in Nat /\ NUM >= 3 /\ \E k \in 2..UINT16 : UINT16 = k * NUM
ASSUME NoneAssumption == None \notin Buf \cup 0..(NUM - 1) /\ Intr \notin Buf /\ None # Intr

Desc == 0..(NUM - 1)

VARIABLES
  free, addr, next, ops,       \* free descriptors; desc[].addr and .next; ops[]
  infob, status,               \* info[].b and info[].status (TRUE: 0, success)
  avail, availidx,             \* avail->ring, avail->idx
  used, usedidx, used_idx,     \* used->ring, used->idx, disk.used_idx
  seen, inflight, isr,         \* the device: avail entries read, requests, interrupt
  lock, intr,                  \* vdisk_lock; what virtio_disk_intr() does next
  pc, idx, bdisk, write,       \* per caller: where, idx[0], b->disk, argument
  data, disk                   \* b->data and the disk's blocks

descs == <<free, addr, next, ops, infob>>
rings == <<avail, availidx, used, usedidx, used_idx>>
device == <<seen, inflight, isr, disk>>
vars == <<descs, status, rings, device, lock, intr, pc, idx, bdisk, write, data>>

(* A request header that is not in use. *)
NoOp == [write |-> FALSE, sector |-> None]

(* virtio_disk_init() *)
Init ==
  /\ free = Desc
  /\ addr = [i \in Desc |-> None] /\ next = [i \in Desc |-> None]
  /\ ops = [i \in Desc |-> NoOp]
  /\ infob = [i \in Desc |-> None] /\ status = [i \in Desc |-> TRUE]
  /\ avail = [i \in Desc |-> 0] /\ used = [i \in Desc |-> 0]
  /\ availidx = 0 /\ usedidx = 0 /\ used_idx = 0
  /\ seen = 0 /\ inflight = {} /\ isr = FALSE
  /\ lock = None /\ intr = "off"
  /\ pc = [b \in Buf |-> "idle"] /\ idx = [b \in Buf |-> 0]
  /\ bdisk = [b \in Buf |-> FALSE] /\ write = [b \in Buf |-> FALSE]
  /\ data \in [Buf -> Value] /\ disk \in [Buf -> Value]

-----------------------------------------------------------------------------
Inc(x) == (x + 1) % UINT16

Goto(b, l) == pc' = [pc EXCEPT ![b] = l]

(* wakeup(&disk.free[0]) by b, which goes on at l. *)
WakeFree(b, l) ==
  pc' = [c \in Buf |-> IF c = b THEN l ELSE IF pc[c] = "fsleep" THEN "lock" ELSE pc[c]]

-----------------------------------------------------------------------------
(* virtio_disk_rw() *)

RwCall(b) ==
  /\ pc[b] = "idle"
  /\ \/ write' = [write EXCEPT ![b] = FALSE] /\ UNCHANGED data
     \/ /\ write' = [write EXCEPT ![b] = TRUE]
        /\ \E v \in Value : data' = [data EXCEPT ![b] = v]
  /\ Goto(b, "lock")
  /\ UNCHANGED <<descs, status, rings, device, lock, intr, idx, bdisk>>

RwLock(b) ==
  /\ pc[b] \in {"lock", "relock"} /\ lock = None
  /\ lock' = b
  /\ Goto(b, IF pc[b] = "lock" THEN "alloc" ELSE "wait")
  /\ UNCHANGED <<descs, status, rings, device, intr, idx, bdisk, write, data>>

(* alloc3_desc() fails: the one or two descriptors it got go back with        *)
(* free_desc(), which wakes the others that wait for descriptors.             *)
RwSleepFree(b) ==
  /\ pc[b] = "alloc" /\ Cardinality(free) < 3
  /\ IF free = {} THEN Goto(b, "fsleep") ELSE WakeFree(b, "fsleep")
  /\ lock' = None
  /\ UNCHANGED <<descs, status, rings, device, intr, idx, bdisk, write, data>>

(* alloc3_desc() takes the lowest free descriptors. *)
Alloc3 ==
  LET i0 == Min(free)
      i1 == Min(free \ {i0})
  IN  <<i0, i1, Min(free \ {i0, i1})>>
Taken(d) == {d[1], d[2], d[3]}

(* The three descriptors: header, data, status; then the avail ring's entry. *)
RwFormat(b) ==
  /\ pc[b] = "alloc" /\ Cardinality(free) >= 3
  /\ LET i0 == Alloc3[1]  i1 == Alloc3[2]  i2 == Alloc3[3]
     IN  /\ free' = free \ Taken(Alloc3)
         /\ ops' = [ops EXCEPT ![i0] = [write |-> write[b], sector |-> b]]
         /\ addr' = [addr EXCEPT ![i1] = b, ![i2] = i0]
         /\ next' = [next EXCEPT ![i0] = i1, ![i1] = i2, ![i2] = None]
         /\ status' = [status EXCEPT ![i0] = FALSE]
         /\ infob' = [infob EXCEPT ![i0] = b]
         /\ idx' = [idx EXCEPT ![b] = i0]
         /\ avail' = [avail EXCEPT ![availidx % NUM] = i0]
  /\ bdisk' = [bdisk EXCEPT ![b] = TRUE]
  /\ Goto(b, "publish")
  /\ UNCHANGED <<availidx, used, usedidx, used_idx, device, lock, intr, write, data>>

RwPublish(b) ==
  /\ pc[b] = "publish"
  /\ availidx' = Inc(availidx)
  /\ Goto(b, "wait")
  /\ UNCHANGED <<descs, status, avail, used, usedidx, used_idx, device, lock, intr, idx,
                 bdisk, write, data>>

RwSleep(b) ==
  /\ pc[b] = "wait" /\ bdisk[b]
  /\ lock' = None
  /\ Goto(b, "bsleep")
  /\ UNCHANGED <<descs, status, rings, device, intr, idx, bdisk, write, data>>

(* free_chain() follows next from the head.  The header of a request that has *)
(* returned stays in memory, but is dead.                                     *)
Chain(i) ==
  LET Step(S) == S \cup ({next[j] : j \in S} \ {None})
  IN  Step(Step({i}))

RwDoneEarly(b) ==
  /\ pc[b] = "wait"
  /\ infob' = [infob EXCEPT ![idx[b]] = None]
  /\ free' = free \cup Chain(idx[b])
  /\ addr' = [i \in Desc |-> IF i \in Chain(idx[b]) THEN None ELSE addr[i]]
  /\ next' = [i \in Desc |-> IF i \in Chain(idx[b]) THEN None ELSE next[i]]
  /\ idx' = [idx EXCEPT ![b] = 0] /\ write' = [write EXCEPT ![b] = FALSE]
  /\ ops' = [ops EXCEPT ![idx[b]] = NoOp]
  /\ WakeFree(b, "idle")
  /\ lock' = None
  /\ UNCHANGED <<status, rings, device, intr, bdisk, data>>
RwDone(b) ==
  /\ pc[b] = "wait" /\ ~bdisk[b]
  /\ infob' = [infob EXCEPT ![idx[b]] = None]
  /\ free' = free \cup Chain(idx[b])
  /\ addr' = [i \in Desc |-> IF i \in Chain(idx[b]) THEN None ELSE addr[i]]
  /\ next' = [i \in Desc |-> IF i \in Chain(idx[b]) THEN None ELSE next[i]]
  /\ idx' = [idx EXCEPT ![b] = 0] /\ write' = [write EXCEPT ![b] = FALSE]
  /\ ops' = [ops EXCEPT ![idx[b]] = NoOp]
  /\ WakeFree(b, "idle")
  /\ lock' = None
  /\ UNCHANGED <<status, rings, device, intr, bdisk, data>>

-----------------------------------------------------------------------------
(* The device.  A ring entry that has been read is dead and set to 0.         *)

DevFetch ==
  /\ seen # availidx
  /\ inflight' = inflight \cup {avail[seen % NUM]}
  /\ avail' = [avail EXCEPT ![seen % NUM] = 0]
  /\ seen' = Inc(seen)
  /\ UNCHANGED <<descs, status, availidx, used, usedidx, used_idx, isr, disk, lock, intr, pc, idx, bdisk, write, data>>

(* Carry out the chain that starts at id, write its status, post it in the    *)
(* used ring and raise the interrupt.                                         *)
DevDo(id) ==
  LET b == addr[next[id]]
      s == ops[id].sector
  IN  /\ id \in inflight
      /\ disk' = IF ops[id].write THEN [disk EXCEPT ![s] = data[b]] ELSE disk
      /\ data' = IF ops[id].write THEN data ELSE [data EXCEPT ![b] = disk[s]]
      /\ status' = [status EXCEPT ![addr[next[next[id]]]] = TRUE]
      /\ used' = [used EXCEPT ![usedidx % NUM] = id]
      /\ usedidx' = Inc(usedidx)
      /\ isr' = TRUE
      /\ inflight' = inflight \ {id}
      /\ UNCHANGED <<descs, avail, availidx, used_idx, seen, lock, intr, pc, idx, bdisk, write>>

-----------------------------------------------------------------------------
(* virtio_disk_intr() *)

IntrAck ==
  /\ intr = "off" /\ isr /\ lock = None
  /\ lock' = Intr
  /\ isr' = FALSE
  /\ intr' = "loop"
  /\ UNCHANGED <<descs, status, rings, seen, inflight, disk, pc, idx, bdisk, write, data>>

IntrEntry ==
  LET id == used[used_idx % NUM]
      b == infob[id]
  IN  /\ intr = "loop" /\ used_idx # usedidx
      /\ bdisk' = [bdisk EXCEPT ![b] = FALSE]
      /\ pc' = [pc EXCEPT ![b] = IF @ = "bsleep" THEN "relock" ELSE @]
      /\ used' = [used EXCEPT ![used_idx % NUM] = 0]
      /\ used_idx' = Inc(used_idx)
      /\ UNCHANGED <<descs, status, avail, availidx, usedidx, device, lock, intr, idx,
                     write, data>>

IntrExit ==
  /\ intr = "loop" /\ used_idx = usedidx
  /\ intr' = "exit"
  /\ UNCHANGED <<descs, status, rings, device, lock, pc, idx, bdisk, write, data>>

IntrReleaseAcks ==
  /\ intr = "exit"
  /\ lock' = None /\ intr' = "off"
  /\ isr' = FALSE
  /\ UNCHANGED <<descs, status, rings, seen, inflight, disk, pc, idx, bdisk, write, data>>
IntrRelease ==
  /\ intr = "exit"
  /\ lock' = None /\ intr' = "off"
  /\ UNCHANGED <<descs, status, rings, device, pc, idx, bdisk, write, data>>

-----------------------------------------------------------------------------
Next ==
  \/ \E b \in Buf :
       \/ RwCall(b) \/ RwLock(b) \/ RwSleepFree(b) \/ RwFormat(b) \/ RwPublish(b)
       \/ RwSleep(b) \/ RwDone(b)
  \/ DevFetch \/ \E id \in Desc : DevDo(id)
  \/ IntrAck \/ IntrEntry \/ IntrExit \/ IntrRelease

Spec == Init /\ [][Next]_vars

-----------------------------------------------------------------------------
(* Properties. *)

Submitted(b) == pc[b] \in {"wait", "bsleep", "relock"}

(* virtio_disk_rw() sleeps with the request at the device, or completed with  *)
(* an interrupt still to come: "this may race with the device writing new     *)
(* entries to the used ring ... which is harmless".                           *)
SleeperHasRequest ==
  \A b \in Buf : pc[b] = "bsleep" /\ intr = "off" =>
    bdisk[b] /\ (isr \/ ~status[idx[b]])

(* virtio_disk_rw() implements a block device: each call copies its own       *)
(* buffer and block, once, before it returns.                                 *)
Request(b) ==
  CASE pc[b] = "idle" -> "idle"
    [] Submitted(b) /\ status[idx[b]] -> "done"
    [] OTHER -> IF write[b] THEN "write" ELSE "read"
Device == INSTANCE BlockDevice WITH request <- [b \in Buf |-> Request(b)]
RefinesBlockDevice == Device!BSpec
=============================================================================
