--------------------------------- MODULE Bio ---------------------------------
(* The buffer cache of kernel/bio.c and the sleep locks of its buffers        *)
(* (kernel/sleeplock.c).  What happens under bcache.lock or under a sleep     *)
(* lock's spin lock is one step.  The callers do what log.c and fs.c do with  *)
(* a buffer: change it, then write it through or pin it for the log, and      *)
(* later write it and unpin it.                                               *)
EXTENDS Integers, FiniteSets, Sequences

CONSTANTS
  Proc, Block, Value, None,
  NBUF,       \* buffers
  MaxPins     \* blocks the log pins at a time

ASSUME SizeAssumption == NBUF \in Nat \ {0} /\ MaxPins \in Nat
ASSUME NoneAssumption == None \notin Proc /\ None \notin Block
ASSUME ProcAssumption == IsFiniteSet(Proc)

Buf == 1..NBUF

VARIABLES
  blockno, valid, refcnt, data,   \* struct buf
  locked, lpid,                   \* its sleep lock
  lru,                            \* the list: most recently used first
  disk,
  pinned,                         \* buffers in the log's header
  pc, buf, want,                  \* per process: where, its buffer, the block it asked for
  panicked

vars == <<blockno, valid, refcnt, data, locked, lpid, lru, disk, pinned, pc, buf, want, panicked>>
lk == <<locked, lpid>>

(* binit(): every buffer goes to the head of the list in turn.  Buffers start *)
(* with dev 0, which is no block of the file system's device.                 *)
Init ==
  /\ blockno = [b \in Buf |-> None] /\ valid = [b \in Buf |-> FALSE]
  /\ refcnt = [b \in Buf |-> 0] /\ data \in [Buf -> Value]
  /\ locked = [b \in Buf |-> FALSE] /\ lpid = [b \in Buf |-> None]
  /\ lru = [i \in 1..NBUF |-> NBUF + 1 - i]
  /\ disk \in [Block -> Value] /\ pinned = {}
  /\ pc = [p \in Proc |-> "idle"] /\ buf = [p \in Proc |-> None]
  /\ want = [p \in Proc |-> None] /\ panicked = FALSE

-----------------------------------------------------------------------------
Goto(p, l) == pc' = [pc EXCEPT ![p] = l]

(* bget(), up to acquiresleep(). *)

Cached(b, k) == blockno[b] = k

BgetHit(p, k) ==
  /\ ~panicked /\ pc[p] = "idle"
  /\ \E b \in Buf :
       /\ Cached(b, k)
       /\ refcnt' = [refcnt EXCEPT ![b] = @ + 1]
       /\ buf' = [buf EXCEPT ![p] = b]
  /\ want' = [want EXCEPT ![p] = k]
  /\ Goto(p, "acquire")
  /\ UNCHANGED <<blockno, valid, data, lk, lru, disk, pinned, panicked>>

Unused(b) == refcnt[b] = 0

(* The last unused buffer of the list. *)
Victim(i) == Unused(lru[i]) /\ \A j \in (i + 1)..NBUF : ~Unused(lru[j])

BgetMiss(p, k) ==
  /\ ~panicked /\ pc[p] = "idle"
  /\ \A b \in Buf : ~Cached(b, k)
  /\ \E i \in 1..NBUF :
       /\ Victim(i)
       /\ blockno' = [blockno EXCEPT ![lru[i]] = k]
       /\ valid' = [valid EXCEPT ![lru[i]] = FALSE]
       /\ refcnt' = [refcnt EXCEPT ![lru[i]] = 1]
       /\ buf' = [buf EXCEPT ![p] = lru[i]]
  /\ want' = [want EXCEPT ![p] = k]
  /\ Goto(p, "acquire")
  /\ UNCHANGED <<data, lk, lru, disk, pinned, panicked>>

(* panic("bget: no buffers") *)
BgetPanic(p, k) ==
  /\ ~panicked /\ pc[p] = "idle"
  /\ \A b \in Buf : ~Cached(b, k) /\ ~Unused(b)
  /\ panicked' = TRUE
  /\ UNCHANGED <<blockno, valid, refcnt, data, lk, lru, disk, pinned, pc, buf, want>>

-----------------------------------------------------------------------------
(* acquiresleep() and the rest of bread(). *)

Acquiresleep(p) ==
  /\ ~panicked /\ pc[p] = "acquire"
  /\ ~locked[buf[p]]
  /\ locked' = [locked EXCEPT ![buf[p]] = TRUE]
  /\ lpid' = [lpid EXCEPT ![buf[p]] = p]
  /\ Goto(p, "locked")
  /\ UNCHANGED <<blockno, valid, refcnt, data, lru, disk, pinned, buf, want, panicked>>

AcquiresleepWaits(p) ==
  /\ ~panicked /\ pc[p] = "acquire"
  /\ locked[buf[p]]
  /\ Goto(p, "asleep")
  /\ UNCHANGED <<blockno, valid, refcnt, data, lk, lru, disk, pinned, buf, want, panicked>>

(* virtio_disk_rw(b, 0) if the contents are not there, and valid = 1. *)
FillNever(b) == data
Fill(b) == IF valid[b] THEN data ELSE [data EXCEPT ![b] = disk[blockno[b]]]

BreadDone(p) ==
  /\ ~panicked /\ pc[p] = "locked"
  /\ data' = Fill(buf[p])
  /\ valid' = [valid EXCEPT ![buf[p]] = TRUE]
  /\ Goto(p, "held")
  /\ UNCHANGED <<blockno, refcnt, lk, lru, disk, pinned, buf, want, panicked>>

-----------------------------------------------------------------------------
(* What the caller of bread() does with the buffer. *)

Modify(p, v) ==
  /\ ~panicked /\ pc[p] = "held"
  /\ data' = [data EXCEPT ![buf[p]] = v]
  /\ Goto(p, "dirty")
  /\ UNCHANGED <<blockno, valid, refcnt, lk, lru, disk, pinned, buf, want, panicked>>

(* bwrite() *)
Bwrite(p) ==
  /\ ~panicked /\ pc[p] \in {"held", "dirty"}
  /\ disk' = [disk EXCEPT ![blockno[buf[p]]] = data[buf[p]]]
  /\ Goto(p, "written")
  /\ UNCHANGED <<blockno, valid, refcnt, data, lk, lru, pinned, buf, want, panicked>>

(* bpin(), by log_write() when the block is not in the log yet. *)
Bpin(b) == [refcnt EXCEPT ![b] = @ + 1]

LogWrite(p) ==
  /\ ~panicked /\ pc[p] = "dirty"
  /\ IF buf[p] \in pinned
     THEN UNCHANGED <<refcnt, pinned>>
     ELSE /\ Cardinality(pinned) < MaxPins
          /\ refcnt' = Bpin(buf[p])
          /\ pinned' = pinned \cup {buf[p]}
  /\ Goto(p, "held")
  /\ UNCHANGED <<blockno, valid, data, lk, lru, disk, buf, want, panicked>>

(* bunpin(), by install_trans() after bwrite(). *)
Bunpin(p) ==
  /\ ~panicked /\ pc[p] = "written" /\ buf[p] \in pinned
  /\ refcnt' = [refcnt EXCEPT ![buf[p]] = @ - 1]
  /\ pinned' = pinned \ {buf[p]}
  /\ Goto(p, "held")
  /\ UNCHANGED <<blockno, valid, data, lk, lru, disk, buf, want, panicked>>

-----------------------------------------------------------------------------
(* brelse(): releasesleep(), then the reference under bcache.lock. *)

WakeNobody(q, b) == FALSE
(* wakeup(lk) *)
Wakes(q, b) == pc[q] = "asleep" /\ buf[q] = b

Releasesleep(p) ==
  /\ ~panicked /\ pc[p] \in {"held", "written"}
  /\ locked' = [locked EXCEPT ![buf[p]] = FALSE]
  /\ lpid' = [lpid EXCEPT ![buf[p]] = None]
  /\ pc' = [q \in Proc |-> IF q = p THEN "unref"
                           ELSE IF Wakes(q, buf[p]) THEN "acquire" ELSE pc[q]]
  /\ UNCHANGED <<blockno, valid, refcnt, data, lru, disk, pinned, buf, want, panicked>>

(* What was before b in the list moves up by one. *)
MoveToFront(b) ==
  [i \in 1..NBUF |-> IF i = 1 THEN b
                     ELSE IF \E j \in i..NBUF : lru[j] = b THEN lru[i - 1] ELSE lru[i]]

Unref(b) == refcnt[b] - 1

Brelse(p) ==
  /\ ~panicked /\ pc[p] = "unref"
  /\ refcnt' = [refcnt EXCEPT ![buf[p]] = Unref(buf[p])]
  /\ lru' = IF Unref(buf[p]) = 0 THEN MoveToFront(buf[p]) ELSE lru
  /\ buf' = [buf EXCEPT ![p] = None] /\ want' = [want EXCEPT ![p] = None]
  /\ Goto(p, "idle")
  /\ UNCHANGED <<blockno, valid, data, lk, disk, pinned, panicked>>

-----------------------------------------------------------------------------
Next ==
  \E p \in Proc :
    \/ \E k \in Block : BgetHit(p, k) \/ BgetMiss(p, k) \/ BgetPanic(p, k)
    \/ Acquiresleep(p) \/ AcquiresleepWaits(p) \/ BreadDone(p)
    \/ \E v \in Value : Modify(p, v)
    \/ Bwrite(p) \/ LogWrite(p) \/ Bunpin(p) \/ Releasesleep(p) \/ Brelse(p)

Spec == Init /\ [][Next]_vars

-----------------------------------------------------------------------------
(* Properties. *)

(* releasesleep() wakes whoever waits: nobody sleeps on a free buffer.        *)
SleepsOnLocked == \A p \in Proc : pc[p] = "asleep" => locked[buf[p]]

(* The cache is transparent: a block changes only at the hands of the process *)
(* that has it locked, and recycling its buffer loses nothing.                *)
Content(k) ==
  IF \E b \in Buf : blockno[b] = k /\ valid[b]
  THEN data[CHOOSE b \in Buf : blockno[b] = k /\ valid[b]] ELSE disk[k]
Owner(k) ==
  IF \E p \in Proc : pc[p] \in {"held", "dirty", "written"} /\ blockno[buf[p]] = k
  THEN CHOOSE p \in Proc : pc[p] \in {"held", "dirty", "written"} /\ blockno[buf[p]] = k
  ELSE None
Store == INSTANCE BlockStore WITH content <- [k \in Block |-> Content(k)],
                                  owner <- [k \in Block |-> Owner(k)]
RefinesBlockStore == Store!CSpec
=============================================================================
