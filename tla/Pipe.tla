-------------------------------- MODULE Pipe --------------------------------
(* One pipe of kernel/pipe.c, used by processes that share its two ends       *)
(* after pipe() and fork().  pi->lock is held by a process from acquire() to  *)
(* release(); sleep() gives it up and takes it again after the wakeup.        *)
EXTENDS Integers, FiniteSets, Sequences

CONSTANTS
  Proc, Byte,
  None,       \* owner of the free lock
  PIPESIZE,
  UINT,       \* number of values of a uint
  MaxN        \* largest n of a read() or write()

(* 2^32 is a multiple of PIPESIZE: the ring survives the counters' overflow. *)
ASSUME SizeAssumption ==
  /\ PIPESIZE \in Nat \ {0} /\ MaxN \in Nat
  /\ \E k \in 2..UINT : UINT = k * PIPESIZE
ASSUME NoneAssumption == None \notin Proc

VARIABLES
  data, nread, nwrite, readopen, writeopen,   \* struct pipe
  freed,        \* kfree() has taken its page
  lock,         \* the process that holds pi->lock
  rends, wends, \* processes with a descriptor for the read end, the write end
  pc, left,     \* where each process is, and n - i
  killed

vars == <<data, nread, nwrite, readopen, writeopen, freed, lock, rends, wends,
          pc, left, killed>>
ring == <<data, nread, nwrite>>
ends == <<readopen, writeopen, freed, rends, wends>>

(* pipealloc(); what kalloc() left in the page is any byte. *)
Init ==
  /\ data \in [0..(PIPESIZE - 1) -> Byte]
  /\ nread = 0 /\ nwrite = 0 /\ readopen = TRUE /\ writeopen = TRUE
  /\ freed = FALSE /\ lock = None
  /\ rends = Proc /\ wends = Proc
  /\ pc = [p \in Proc |-> "idle"] /\ left = [p \in Proc |-> 0]
  /\ killed = [p \in Proc |-> FALSE]

-----------------------------------------------------------------------------
PlusOne(x) == (x + 1) % UINT

FullOffByOne == nwrite = (nread + PIPESIZE + 1) % UINT
Full == nwrite = (nread + PIPESIZE) % UINT
Empty == nread = nwrite

Goto(p, l) == pc' = [pc EXCEPT ![p] = l]

(* wakeup(&pi->nread) and wakeup(&pi->nwrite), by p, which goes on at l. *)
Woken(s, l, q) == IF pc[q] = s THEN l ELSE pc[q]
WakeReaders(p, l) == pc' = [q \in Proc |-> IF q = p THEN l ELSE Woken("rsleep", "rlock", q)]
WakeWritersNot(p, l) == pc' = [pc EXCEPT ![p] = l]
WakeWriters(p, l) == pc' = [q \in Proc |-> IF q = p THEN l ELSE Woken("wsleep", "wlock", q)]

-----------------------------------------------------------------------------
(* pipewrite() *)

WriteCall(p, n) ==
  /\ pc[p] = "idle" /\ p \in wends /\ ~killed[p]
  /\ left' = [left EXCEPT ![p] = n]
  /\ Goto(p, "wlock")
  /\ UNCHANGED <<ring, ends, lock, killed>>

WriteLock(p) ==
  /\ pc[p] = "wlock" /\ lock = None
  /\ lock' = p
  /\ Goto(p, "write")
  /\ UNCHANGED <<ring, ends, left, killed>>

WriteFails(p) ==
  /\ pc[p] = "write" /\ left[p] > 0
  /\ ~readopen \/ killed[p]
  /\ lock' = None
  /\ left' = [left EXCEPT ![p] = 0]
  /\ Goto(p, "idle")
  /\ UNCHANGED <<ring, ends, killed>>

WriteSleeps(p) ==
  /\ pc[p] = "write" /\ left[p] > 0
  /\ readopen /\ ~killed[p] /\ Full
  /\ WakeReaders(p, "wwait")
  /\ UNCHANGED <<ring, ends, lock, left, killed>>

(* sleep(): a kill() since the check does not keep a process from sleeping. *)
Sleeps(p) ==
  /\ pc[p] \in {"wwait", "rwait"}
  /\ lock' = None
  /\ Goto(p, IF pc[p] = "wwait" THEN "wsleep" ELSE "rsleep")
  /\ UNCHANGED <<ring, ends, left, killed>>

WriteByte(p, ch) ==
  /\ pc[p] = "write" /\ left[p] > 0
  /\ readopen /\ ~killed[p] /\ ~Full
  /\ data' = [data EXCEPT ![nwrite % PIPESIZE] = ch]
  /\ nwrite' = PlusOne(nwrite)
  /\ left' = [left EXCEPT ![p] = left[p] - 1]
  /\ UNCHANGED <<nread, ends, lock, pc, killed>>

(* copyin() fails. *)
WriteBreaks(p) ==
  /\ pc[p] = "write" /\ left[p] > 0
  /\ readopen /\ ~killed[p] /\ ~Full
  /\ left' = [left EXCEPT ![p] = 0]
  /\ UNCHANGED <<ring, ends, lock, pc, killed>>

WriteDone(p) ==
  /\ pc[p] = "write" /\ left[p] = 0
  /\ WakeReaders(p, "idle")
  /\ lock' = None
  /\ UNCHANGED <<ring, ends, left, killed>>

-----------------------------------------------------------------------------
(* piperead() *)

ReadCall(p, n) ==
  /\ pc[p] = "idle" /\ p \in rends /\ ~killed[p]
  /\ left' = [left EXCEPT ![p] = n]
  /\ Goto(p, "rlock")
  /\ UNCHANGED <<ring, ends, lock, killed>>

ReadLock(p) ==
  /\ pc[p] = "rlock" /\ lock = None
  /\ lock' = p
  /\ Goto(p, "read")
  /\ UNCHANGED <<ring, ends, left, killed>>

ReadFails(p) ==
  /\ pc[p] = "read" /\ Empty /\ writeopen
  /\ killed[p]
  /\ lock' = None
  /\ left' = [left EXCEPT ![p] = 0]
  /\ Goto(p, "idle")
  /\ UNCHANGED <<ring, ends, killed>>

ReadSleeps(p) ==
  /\ pc[p] = "read" /\ Empty /\ writeopen
  /\ ~killed[p]
  /\ Goto(p, "rwait")
  /\ UNCHANGED <<ring, ends, lock, left, killed>>

ReadReady(p) ==
  /\ pc[p] = "read" /\ ~(Empty /\ writeopen)
  /\ Goto(p, "copy")
  /\ UNCHANGED <<ring, ends, lock, left, killed>>

ReadByte(p) ==
  /\ pc[p] = "copy" /\ left[p] > 0 /\ ~Empty
  /\ nread' = PlusOne(nread)
  /\ left' = [left EXCEPT ![p] = left[p] - 1]
  /\ UNCHANGED <<data, nwrite, ends, lock, pc, killed>>

(* copyout() fails, after the byte has left the ring. *)
ReadBreaks(p) ==
  /\ pc[p] = "copy" /\ left[p] > 0 /\ ~Empty
  /\ nread' = PlusOne(nread)
  /\ left' = [left EXCEPT ![p] = 0]
  /\ UNCHANGED <<data, nwrite, ends, lock, pc, killed>>

ReadDone(p) ==
  /\ pc[p] = "copy" /\ (left[p] = 0 \/ Empty)
  /\ WakeWriters(p, "idle")
  /\ lock' = None
  /\ left' = [left EXCEPT ![p] = 0]
  /\ UNCHANGED <<ring, ends, killed>>

-----------------------------------------------------------------------------
(* fileclose() of one descriptor: whoever gives up the last one of an end     *)
(* calls pipeclose().                                                         *)

CloseWrite(p) ==
  /\ pc[p] = "idle" /\ p \in wends
  /\ wends' = wends \ {p}
  /\ Goto(p, IF wends = {p} THEN "wclose" ELSE "idle")
  /\ UNCHANGED <<ring, readopen, writeopen, freed, rends, lock, left, killed>>

CloseRead(p) ==
  /\ pc[p] = "idle" /\ p \in rends
  /\ rends' = rends \ {p}
  /\ Goto(p, IF rends = {p} THEN "rclose" ELSE "idle")
  /\ UNCHANGED <<ring, readopen, writeopen, freed, wends, lock, left, killed>>

FreesEither(other) == TRUE
(* The page goes when the other end is closed too. *)
Frees(other) == ~other

PipecloseWrite(p) ==
  /\ pc[p] = "wclose" /\ lock = None
  /\ writeopen' = FALSE
  /\ WakeReaders(p, "idle")
  /\ freed' = Frees(readopen)
  /\ UNCHANGED <<ring, readopen, rends, wends, lock, left, killed>>

PipecloseRead(p) ==
  /\ pc[p] = "rclose" /\ lock = None
  /\ readopen' = FALSE
  /\ WakeWriters(p, "idle")
  /\ freed' = Frees(writeopen)
  /\ UNCHANGED <<ring, writeopen, rends, wends, lock, left, killed>>

(* kill(): a process asleep returns from sleep(). *)
Kill(p) ==
  /\ ~killed[p] \/ pc[p] \in {"rsleep", "wsleep"}
  /\ killed' = [killed EXCEPT ![p] = TRUE]
  /\ Goto(p, CASE pc[p] = "rsleep" -> "rlock" [] pc[p] = "wsleep" -> "wlock" [] OTHER -> pc[p])
  /\ UNCHANGED <<ring, ends, lock, left>>

(* Every process has closed both ends and is gone. *)
Gone == freed /\ (\A p \in Proc : pc[p] = "idle" /\ killed[p]) /\ UNCHANGED vars

-----------------------------------------------------------------------------
Locks(p) == WriteLock(p) \/ ReadLock(p) \/ PipecloseWrite(p) \/ PipecloseRead(p)

Works(p) ==
  \/ WriteFails(p) \/ WriteSleeps(p) \/ (\E ch \in Byte : WriteByte(p, ch)) \/ WriteBreaks(p)
  \/ WriteDone(p) \/ Sleeps(p) \/ ReadFails(p) \/ ReadSleeps(p) \/ ReadReady(p) \/ ReadByte(p)
  \/ ReadBreaks(p) \/ ReadDone(p)

Next ==
  \/ \E p \in Proc :
       \/ Locks(p) \/ Works(p) \/ CloseWrite(p) \/ CloseRead(p) \/ Kill(p)
       \/ \E n \in 0..MaxN : WriteCall(p, n) \/ ReadCall(p, n)
  \/ Gone

Spec == Init /\ [][Next]_vars

(* A process in the kernel keeps going, and one that spins for pi->lock gets  *)
(* it when the lock is free again and again.  User programs need not close.   *)
Fairness == \A p \in Proc : WF_vars(Works(p)) /\ SF_vars(Locks(p))

FairSpec == Spec /\ Fairness

-----------------------------------------------------------------------------
(* Properties. *)

(* The ring and its two wrapping counters behave as a bounded FIFO of bytes,  *)
(* whatever the readers, writers and closers do.                              *)
Contents ==
  IF freed THEN <<>>
  ELSE [i \in 1..((nwrite - nread) % UINT) |-> data[(nread + i - 1) % PIPESIZE]]
Queue == INSTANCE ByteQueue WITH queue <- Contents, gone <- freed, Capacity <- PIPESIZE
RefinesByteQueue == Queue!QSpec

(* pipeclose() frees the page only when no process can still use it: nobody   *)
(* is in pipewrite() or piperead(), waits for pi->lock or has a descriptor.   *)
FreedUnused ==
  freed => lock = None /\ rends = {} /\ wends = {} /\ \A p \in Proc : pc[p] = "idle"

(* Once the last descriptor of the other end is closed, every read() and      *)
(* write() in progress returns.                                               *)
ClosedReturns ==
  \A p \in Proc :
    /\ (wends = {} /\ pc[p] \in {"rlock", "read", "copy", "rwait", "rsleep"}) ~> pc[p] = "idle"
    /\ (rends = {} /\ pc[p] \in {"wlock", "write", "wwait", "wsleep"}) ~> pc[p] = "idle"
=============================================================================
