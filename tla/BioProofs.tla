----------------------------- MODULE BioProofs ------------------------------
(* The invariant of Bio, what it says of locking and recycling, and that Bio  *)
(* implements BlockStore, for any processes, blocks and number of buffers.    *)
EXTENDS Bio, FiniteSetTheorems, TLAPS

Locking == {"locked", "held", "dirty", "written"}
Owning == {"held", "dirty", "written"}

BioTypeOK ==
  /\ blockno \in [Buf -> Block \cup {None}] /\ valid \in [Buf -> BOOLEAN]
  /\ refcnt \in [Buf -> Int] /\ data \in [Buf -> Value]
  /\ locked \in [Buf -> BOOLEAN] /\ lpid \in [Buf -> Proc \cup {None}]
  /\ lru \in [1..NBUF -> Buf]
  /\ disk \in [Block -> Value] /\ pinned \subseteq Buf
  /\ pc \in [Proc -> {"idle", "acquire", "asleep", "unref"} \cup Locking]
  /\ buf \in [Proc -> Buf \cup {None}]

(* The processes that have a reference to buffer b. *)
Users(b) == {p \in Proc : pc[p] # "idle" /\ buf[p] = b}

(* A process has a buffer of a block; no block has two; a buffer in the       *)
(* log's header or with contents is a block's.                                *)
BufInv ==
  /\ \A p \in Proc : pc[p] # "idle" => buf[p] \in Buf /\ blockno[buf[p]] \in Block
  /\ \A a, b \in Buf : blockno[a] = blockno[b] /\ blockno[a] \in Block => a = b
  /\ \A b \in Buf : valid[b] \/ b \in pinned => blockno[b] \in Block

(* refcnt counts the references and the log's pin. *)
RefInv == \A b \in Buf : refcnt[b] = Cardinality(Users(b)) + (IF b \in pinned THEN 1 ELSE 0)

(* The sleep lock of a buffer has one holder, and nobody sleeps on a free one. *)
SleepLockInv ==
  /\ \A p \in Proc : pc[p] \in Locking => locked[buf[p]] /\ lpid[buf[p]] = p
  /\ SleepsOnLocked

(* A buffer that nobody is changing and the log has not pinned holds what the *)
(* disk holds.                                                                *)
CleanInv ==
  /\ \A p \in Proc : pc[p] \in Owning => valid[buf[p]]
  /\ \A p \in Proc : pc[p] = "written" => data[buf[p]] = disk[blockno[buf[p]]]
  /\ \A b \in Buf :
       valid[b] /\ b \notin pinned /\ (\A p \in Proc : ~(pc[p] = "dirty" /\ buf[p] = b))
         => data[b] = disk[blockno[b]]

IInv == BioTypeOK /\ BufInv /\ RefInv /\ SleepLockInv /\ CleanInv

-----------------------------------------------------------------------------
LEMMA UsersFinite ==
  ASSUME NEW b
  PROVE  IsFiniteSet(Users(b)) /\ Cardinality(Users(b)) \in Nat
<1>1. Users(b) \subseteq Proc
  BY ZenonT(30) DEF Users
<1>. QED
  BY ZenonT(30), <1>1, ProcAssumption, FS_Subset, FS_CardinalityType

(* bget() recycles a buffer that nobody uses and the log has not pinned. *)
LEMMA UnusedIsFree ==
  ASSUME IInv, NEW b \in Buf, Unused(b)
  PROVE  Users(b) = {} /\ b \notin pinned
<1>1. Cardinality(Users(b)) = 0 /\ b \notin pinned
  BY UsersFinite DEF IInv, RefInv, Unused
<1>. QED
  BY ZenonT(30), <1>1, UsersFinite, FS_EmptySet

(* A buffer has at most one process past acquiresleep(). *)
LEMMA OneHolder ==
  ASSUME IInv, NEW p \in Proc, NEW q \in Proc,
         pc[p] \in Locking, pc[q] \in Locking, buf[p] = buf[q]
  PROVE  p = q
  BY ZenonT(30) DEF IInv, SleepLockInv

LEMMA InitInv == Init => IInv
<1>. SUFFICES ASSUME Init PROVE IInv
  BY ZenonT(30)
<1>1. BioTypeOK
  <2>1. valid \in [Buf -> BOOLEAN] /\ locked \in [Buf -> BOOLEAN]
    BY Zenon DEF Init
  <2>2. lru \in [1..NBUF -> Buf]
    BY SizeAssumption DEF Init, Buf
  <2>3. pc \in [Proc -> {"idle", "acquire", "asleep", "unref"} \cup Locking]
    BY ZenonT(30) DEF Init
  <2>4. blockno \in [Buf -> Block \cup {None}] /\ lpid \in [Buf -> Proc \cup {None}] /\ refcnt \in [Buf -> Int]
    BY DEF Init
  <2>. QED
    BY ZenonT(30), <2>1, <2>2, <2>3, <2>4 DEF Init, BioTypeOK
<1>2. BufInv
  BY ZenonT(30), NoneAssumption DEF Init, BufInv
<1>3. RefInv
  <2>. SUFFICES ASSUME NEW b \in Buf
                PROVE  refcnt[b] = Cardinality(Users(b)) + (IF b \in pinned THEN 1 ELSE 0)
    BY ZenonT(30) DEF RefInv
  <2>1. Users(b) = {}
    BY ZenonT(30) DEF Init, Users
  <2>2. Cardinality(Users(b)) = 0
    BY ZenonT(30), <2>1, FS_EmptySet
  <2>3. refcnt[b] = 0 /\ b \notin pinned
    BY ZenonT(30) DEF Init
  <2>. QED
    BY <2>2, <2>3
<1>4. SleepLockInv
  BY ZenonT(30) DEF Init, SleepLockInv, SleepsOnLocked, Locking
<1>5. CleanInv
  BY ZenonT(30) DEF Init, CleanInv, Owning
<1>. QED
  BY ZenonT(30), <1>1, <1>2, <1>3, <1>4, <1>5 DEF IInv

LEMMA BgetHitKeeps ==
  ASSUME IInv, NEW p \in Proc, NEW k \in Block, BgetHit(p, k)
  PROVE  IInv'
<1>. USE DEF IInv
<1>0. PICK b \in Buf : /\ blockno[b] = k
                       /\ refcnt' = [refcnt EXCEPT ![b] = @ + 1]
                       /\ buf' = [buf EXCEPT ![p] = b]
  BY ZenonT(30) DEF BgetHit, Cached
<1>b. \A q \in Proc \ {p} : buf'[q] = buf[q] /\ pc'[q] = pc[q]
  BY ZenonT(30), <1>0 DEF BgetHit, Goto, BioTypeOK
<1>1. BioTypeOK'
  BY <1>0 DEF BgetHit, Goto, BioTypeOK, lk
<1>2. BufInv'
  BY <1>0, <1>b DEF BgetHit, Goto, BufInv, BioTypeOK
<1>3. RefInv'
  <2>1. p \notin Users(b) /\ Users(b)' = Users(b) \cup {p}
    BY <1>0, <1>b DEF BgetHit, Goto, Users, BioTypeOK
  <2>2. Cardinality(Users(b)') = Cardinality(Users(b)) + 1
    BY ZenonT(30), <2>1, UsersFinite, FS_AddElement
  <2>3. \A a \in Buf \ {b} : Users(a)' = Users(a)
    BY ZenonT(30), <1>0, <1>b DEF BgetHit, Goto, Users, BioTypeOK
  <2>. QED
    BY SMTT(30), <1>0, <2>2, <2>3, UsersFinite DEF BgetHit, RefInv, BioTypeOK
<1>4. SleepLockInv'
  BY <1>b DEF BgetHit, Goto, SleepLockInv, SleepsOnLocked, Locking, lk, BioTypeOK
<1>5. CleanInv'
  BY <1>b DEF BgetHit, Goto, CleanInv, Owning, BioTypeOK
<1>. QED
  BY ZenonT(30), <1>1, <1>2, <1>3, <1>4, <1>5

LEMMA BgetMissKeeps ==
  ASSUME IInv, NEW p \in Proc, NEW k \in Block, BgetMiss(p, k)
  PROVE  IInv'
<1>. USE DEF IInv
<1>0. PICK b \in Buf : /\ Unused(b)
                       /\ blockno' = [blockno EXCEPT ![b] = k] /\ valid' = [valid EXCEPT ![b] = FALSE]
                       /\ refcnt' = [refcnt EXCEPT ![b] = 1] /\ buf' = [buf EXCEPT ![p] = b]
  BY ZenonT(30) DEF BgetMiss, Victim, BioTypeOK
<1>a. Users(b) = {} /\ b \notin pinned
  BY ZenonT(30), <1>0, UnusedIsFree
<1>b. /\ blockno' = [blockno EXCEPT ![b] = k] /\ valid' = [valid EXCEPT ![b] = FALSE]
      /\ refcnt' = [refcnt EXCEPT ![b] = 1] /\ buf' = [buf EXCEPT ![p] = b]
      /\ pc[p] = "idle" /\ pc' = [pc EXCEPT ![p] = "acquire"]
      /\ \A a \in Buf : blockno[a] # k
  BY ZenonT(30), <1>0 DEF BgetMiss, Goto, Cached
<1>c. \A q \in Proc \ {p} : buf'[q] = buf[q] /\ pc'[q] = pc[q] /\ (pc[q] # "idle" => buf[q] # b)
  BY ZenonT(30), <1>a, <1>b DEF BioTypeOK, Users
<1>1. BioTypeOK'
  <2>1. valid' \in [Buf -> BOOLEAN]
    BY ZenonT(30), <1>a, <1>b DEF BioTypeOK
  <2>. QED
    BY <1>a, <1>b, <2>1 DEF BgetMiss, BioTypeOK, lk
<1>2. BufInv'
  BY <1>a, <1>b, <1>c DEF BgetMiss, BufInv, BioTypeOK
<1>3. RefInv'
  <2>1. Users(b)' = {p}
    BY <1>a, <1>b, <1>c DEF Users, BioTypeOK
  <2>2. Cardinality(Users(b)') = 1
    BY ZenonT(30), <2>1, FS_Singleton
  <2>3. \A a \in Buf \ {b} : Users(a)' = Users(a)
    BY ZenonT(30), <1>b, <1>c DEF Users, BioTypeOK
  <2>. QED
    BY <1>a, <1>b, <2>2, <2>3, UsersFinite DEF BgetMiss, RefInv, BioTypeOK
<1>4. SleepLockInv'
  BY <1>b, <1>c DEF BgetMiss, SleepLockInv, SleepsOnLocked, Locking, lk, BioTypeOK
<1>5. CleanInv'
  BY <1>a, <1>b, <1>c DEF BgetMiss, CleanInv, Owning, BioTypeOK
<1>. QED
  BY ZenonT(30), <1>1, <1>2, <1>3, <1>4, <1>5

(* acquiresleep(), of a free lock and of a held one. *)
LEMMA AcquiresleepKeeps ==
  ASSUME IInv, NEW p \in Proc, Acquiresleep(p)
  PROVE  IInv'
<1>. USE DEF IInv
<1>0. buf[p] \in Buf /\ pc[p] = "acquire"
  BY ZenonT(30) DEF Acquiresleep, BufInv
<1>1. BioTypeOK'
  <2>1. locked' \in [Buf -> BOOLEAN]
    BY ZenonT(30), <1>0 DEF Acquiresleep, BioTypeOK
  <2>. QED
    BY ZenonT(30), <1>0, <2>1 DEF Acquiresleep, Goto, BioTypeOK, Locking
<1>2. BufInv'
  BY ZenonT(30), <1>0 DEF Acquiresleep, Goto, BufInv, BioTypeOK
<1>3. RefInv'
  <2>1. \A b : Users(b)' = Users(b)
    BY ZenonT(30), <1>0 DEF Acquiresleep, Goto, Users, BioTypeOK
  <2>. QED
    BY ZenonT(30), <2>1 DEF Acquiresleep, RefInv
<1>4. SleepLockInv'
  BY SMTT(30), <1>0 DEF Acquiresleep, Goto, SleepLockInv, SleepsOnLocked, Locking, lk, BioTypeOK, BufInv
<1>5. CleanInv'
  BY ZenonT(30), <1>0 DEF Acquiresleep, Goto, CleanInv, Owning, BioTypeOK
<1>. QED
  BY ZenonT(30), <1>1, <1>2, <1>3, <1>4, <1>5

LEMMA AcquiresleepWaitsKeeps ==
  ASSUME IInv, NEW p \in Proc, AcquiresleepWaits(p)
  PROVE  IInv'
<1>. USE DEF IInv
<1>0. buf[p] \in Buf /\ pc[p] = "acquire"
  BY ZenonT(30) DEF AcquiresleepWaits, BufInv
<1>1. BioTypeOK'
  BY ZenonT(30), <1>0 DEF AcquiresleepWaits, Goto, BioTypeOK, lk
<1>2. BufInv'
  BY ZenonT(30), <1>0 DEF AcquiresleepWaits, Goto, BufInv, BioTypeOK
<1>3. RefInv'
  <2>1. \A b : Users(b)' = Users(b)
    BY ZenonT(30), <1>0 DEF AcquiresleepWaits, Goto, Users, BioTypeOK
  <2>. QED
    BY ZenonT(30), <2>1 DEF AcquiresleepWaits, RefInv
<1>4. SleepLockInv'
  BY <1>0 DEF AcquiresleepWaits, Goto, SleepLockInv, SleepsOnLocked, Locking, lk, BioTypeOK, BufInv
<1>5. CleanInv'
  BY ZenonT(30), <1>0 DEF AcquiresleepWaits, Goto, CleanInv, Owning, BioTypeOK
<1>. QED
  BY ZenonT(30), <1>1, <1>2, <1>3, <1>4, <1>5

LEMMA BreadDoneKeeps ==
  ASSUME IInv, NEW p \in Proc, BreadDone(p)
  PROVE  IInv'
<1>. USE DEF IInv
<1>0. buf[p] \in Buf /\ blockno[buf[p]] \in Block /\ pc[p] = "locked"
  BY ZenonT(30) DEF BreadDone, BufInv
<1>1. BioTypeOK'
  <2>1. valid' \in [Buf -> BOOLEAN]
    BY ZenonT(30), <1>0 DEF BreadDone, BioTypeOK
  <2>2. data' \in [Buf -> Value]
    BY ZenonT(30), <1>0 DEF BreadDone, Fill, BioTypeOK
  <2>. QED
    BY ZenonT(30), <1>0, <2>1, <2>2 DEF BreadDone, Goto, BioTypeOK, lk, Locking
<1>2. BufInv'
  BY ZenonT(30), <1>0 DEF BreadDone, Goto, BufInv, BioTypeOK
<1>3. RefInv'
  <2>1. \A b : Users(b)' = Users(b)
    BY ZenonT(30), <1>0 DEF BreadDone, Goto, Users, BioTypeOK
  <2>. QED
    BY ZenonT(30), <2>1 DEF BreadDone, RefInv
<1>4. SleepLockInv'
  BY ZenonT(30), <1>0 DEF BreadDone, Goto, SleepLockInv, SleepsOnLocked, Locking, lk, BioTypeOK
<1>5. CleanInv'
  BY <1>0, OneHolder DEF BreadDone, Fill, Goto, CleanInv, Owning, Locking, BioTypeOK, BufInv
<1>. QED
  BY ZenonT(30), <1>1, <1>2, <1>3, <1>4, <1>5

(* What callers of bread() do. *)
LEMMA ModifyKeeps ==
  ASSUME IInv, NEW p \in Proc, NEW v \in Value, Modify(p, v)
  PROVE  IInv'
<1>. USE DEF IInv
<1>0. buf[p] \in Buf /\ blockno[buf[p]] \in Block /\ pc[p] \in {"held"}
  BY ZenonT(30) DEF Modify, BufInv
<1>1. BioTypeOK'
  BY ZenonT(30), <1>0 DEF Modify, Goto, BioTypeOK, lk, Locking
<1>2. BufInv'
  BY ZenonT(30), <1>0 DEF Modify, Goto, BufInv, BioTypeOK
<1>3. RefInv'
  <2>1. \A b : Users(b)' = Users(b)
    BY ZenonT(30), <1>0 DEF Modify, Goto, Users, BioTypeOK
  <2>. QED
    BY ZenonT(30), <1>0, <2>1 DEF Modify, RefInv
<1>4. SleepLockInv'
  BY ZenonT(30), <1>0 DEF Modify, Goto, SleepLockInv, SleepsOnLocked, Locking, lk, BioTypeOK
<1>5. CleanInv'
  BY <1>0, OneHolder DEF Modify, Goto, CleanInv, Owning, Locking, BioTypeOK, BufInv
<1>. QED
  BY ZenonT(30), <1>1, <1>2, <1>3, <1>4, <1>5

LEMMA BwriteKeeps ==
  ASSUME IInv, NEW p \in Proc, Bwrite(p)
  PROVE  IInv'
<1>. USE DEF IInv
<1>0. buf[p] \in Buf /\ blockno[buf[p]] \in Block /\ pc[p] \in {"held", "dirty"}
  BY ZenonT(30) DEF Bwrite, BufInv
<1>1. BioTypeOK'
  BY ZenonT(30), <1>0 DEF Bwrite, Goto, BioTypeOK, lk, Locking
<1>2. BufInv'
  BY ZenonT(30), <1>0 DEF Bwrite, Goto, BufInv, BioTypeOK
<1>3. RefInv'
  <2>1. \A b : Users(b)' = Users(b)
    BY ZenonT(30), <1>0 DEF Bwrite, Goto, Users, BioTypeOK
  <2>. QED
    BY ZenonT(30), <1>0, <2>1 DEF Bwrite, RefInv
<1>4. SleepLockInv'
  BY ZenonT(30), <1>0 DEF Bwrite, Goto, SleepLockInv, SleepsOnLocked, Locking, lk, BioTypeOK
<1>5. CleanInv'
  BY <1>0, OneHolder DEF Bwrite, Goto, CleanInv, Owning, Locking, BioTypeOK, BufInv
<1>. QED
  BY ZenonT(30), <1>1, <1>2, <1>3, <1>4, <1>5

LEMMA LogWriteKeeps ==
  ASSUME IInv, NEW p \in Proc, LogWrite(p)
  PROVE  IInv'
<1>. USE DEF IInv
<1>0. buf[p] \in Buf /\ blockno[buf[p]] \in Block /\ pc[p] \in {"dirty"}
  BY ZenonT(30) DEF LogWrite, BufInv
<1>1. BioTypeOK'
  BY <1>0 DEF LogWrite, Goto, BioTypeOK, lk, Locking, Bpin
<1>2. BufInv'
  BY <1>0 DEF LogWrite, Goto, BufInv, BioTypeOK
<1>3. RefInv'
  <2>1. \A b : Users(b)' = Users(b)
    BY ZenonT(30), <1>0 DEF LogWrite, Goto, Users, BioTypeOK
  <2>. QED
    BY <1>0, <2>1, UsersFinite DEF LogWrite, RefInv, Bpin, BioTypeOK
<1>4. SleepLockInv'
  BY ZenonT(30), <1>0 DEF LogWrite, Goto, SleepLockInv, SleepsOnLocked, Locking, lk, BioTypeOK
<1>5. CleanInv'
  BY <1>0, OneHolder DEF LogWrite, Goto, CleanInv, Owning, Locking, BioTypeOK, BufInv
<1>. QED
  BY ZenonT(30), <1>1, <1>2, <1>3, <1>4, <1>5

LEMMA BunpinKeeps ==
  ASSUME IInv, NEW p \in Proc, Bunpin(p)
  PROVE  IInv'
<1>. USE DEF IInv
<1>0. buf[p] \in Buf /\ blockno[buf[p]] \in Block /\ pc[p] \in {"written"}
  BY ZenonT(30) DEF Bunpin, BufInv
<1>1. BioTypeOK'
  BY <1>0 DEF Bunpin, Goto, BioTypeOK, lk, Locking
<1>2. BufInv'
  BY ZenonT(30), <1>0 DEF Bunpin, Goto, BufInv, BioTypeOK
<1>3. RefInv'
  <2>1. \A b : Users(b)' = Users(b)
    BY ZenonT(30), <1>0 DEF Bunpin, Goto, Users, BioTypeOK
  <2>. QED
    BY <1>0, <2>1, UsersFinite DEF Bunpin, RefInv, BioTypeOK
<1>4. SleepLockInv'
  BY ZenonT(30), <1>0 DEF Bunpin, Goto, SleepLockInv, SleepsOnLocked, Locking, lk, BioTypeOK
<1>5. CleanInv'
  BY <1>0, OneHolder DEF Bunpin, Goto, CleanInv, Owning, Locking, BioTypeOK, BufInv
<1>. QED
  BY ZenonT(30), <1>1, <1>2, <1>3, <1>4, <1>5

(* brelse() *)
LEMMA ReleasesleepKeeps ==
  ASSUME IInv, NEW p \in Proc, Releasesleep(p)
  PROVE  IInv'
<1>. USE DEF IInv
<1>0. buf[p] \in Buf /\ pc[p] \in {"held", "written"}
  BY ZenonT(30) DEF Releasesleep, BufInv
<1>a. \A q \in Proc : pc'[q] = IF q = p THEN "unref"
                               ELSE IF pc[q] = "asleep" /\ buf[q] = buf[p] THEN "acquire" ELSE pc[q]
  BY ZenonT(30) DEF Releasesleep, Wakes
<1>1. BioTypeOK'
  <2>1. locked' \in [Buf -> BOOLEAN]
    BY ZenonT(30), <1>0 DEF Releasesleep, BioTypeOK
  <2>2. pc' \in [Proc -> {"idle", "acquire", "asleep", "unref"} \cup Locking]
    BY ZenonT(30), <1>a DEF Releasesleep, BioTypeOK
  <2>. QED
    BY ZenonT(30), <1>0, <2>1, <2>2 DEF Releasesleep, BioTypeOK
<1>2. BufInv'
  BY ZenonT(30), <1>0, <1>a DEF Releasesleep, BufInv
<1>3. RefInv'
  <2>1. \A b : Users(b)' = Users(b)
    BY ZenonT(30), <1>0, <1>a DEF Releasesleep, Users
  <2>. QED
    BY ZenonT(30), <2>1 DEF Releasesleep, RefInv
<1>4. SleepLockInv'
  BY <1>0, <1>a, OneHolder DEF Releasesleep, SleepLockInv, SleepsOnLocked, Locking, BioTypeOK, BufInv
<1>5. CleanInv'
  BY ZenonT(30), <1>0, <1>a DEF Releasesleep, CleanInv, Owning
<1>. QED
  BY ZenonT(30), <1>1, <1>2, <1>3, <1>4, <1>5

LEMMA BrelseKeeps ==
  ASSUME IInv, NEW p \in Proc, Brelse(p)
  PROVE  IInv'
<1>. USE DEF IInv
<1>0. buf[p] \in Buf /\ pc[p] = "unref"
  BY ZenonT(30) DEF Brelse, BufInv
<1>a. \A q \in Proc \ {p} : buf'[q] = buf[q] /\ pc'[q] = pc[q]
  BY ZenonT(30) DEF Brelse, Goto, BioTypeOK
<1>b. pc'[p] = "idle"
  BY ZenonT(30) DEF Brelse, Goto, BioTypeOK
<1>1. BioTypeOK'
  <2>1. lru' \in [1..NBUF -> Buf]
    <3>1. MoveToFront(buf[p]) \in [1..NBUF -> Buf]
      BY <1>0, SizeAssumption DEF MoveToFront, BioTypeOK
    <3>. QED
      BY ZenonT(30), <3>1 DEF Brelse, BioTypeOK
  <2>2. refcnt' \in [Buf -> Int]
    BY <1>0 DEF Brelse, Unref, BioTypeOK
  <2>. QED
    BY ZenonT(30), <1>0, <2>1, <2>2 DEF Brelse, Goto, BioTypeOK, lk
<1>2. BufInv'
  BY ZenonT(30), <1>0, <1>a, <1>b DEF Brelse, BufInv
<1>3. RefInv'
  <2>. SUFFICES ASSUME NEW a \in Buf
                PROVE  refcnt'[a] = Cardinality(Users(a)') + (IF a \in pinned THEN 1 ELSE 0)
    BY ZenonT(30) DEF Brelse, RefInv
  <2>1. CASE a = buf[p]
    <3>1. p \in Users(a) /\ Users(a)' = Users(a) \ {p}
      BY ZenonT(30), <1>0, <1>a, <1>b, <2>1 DEF Users
    <3>2. Cardinality(Users(a)') = Cardinality(Users(a)) - 1
      BY ZenonT(30), <3>1, UsersFinite, FS_RemoveElement
    <3>. QED
      BY <1>0, <2>1, <3>2, UsersFinite DEF Brelse, Unref, RefInv, BioTypeOK
  <2>2. CASE a # buf[p]
    <3>1. Users(a)' = Users(a)
      BY ZenonT(30), <1>0, <1>a, <1>b, <2>2 DEF Users
    <3>. QED
      BY ZenonT(30), <1>0, <2>2, <3>1 DEF Brelse, RefInv, BioTypeOK
  <2>. QED
    BY ZenonT(30), <2>1, <2>2
<1>4. SleepLockInv'
  BY <1>0, <1>a, <1>b DEF Brelse, SleepLockInv, SleepsOnLocked, Locking, lk
<1>5. CleanInv'
  BY <1>0, <1>a, <1>b DEF Brelse, CleanInv, Owning
<1>. QED
  BY ZenonT(30), <1>1, <1>2, <1>3, <1>4, <1>5

LEMMA StepInv == IInv /\ [Next]_vars => IInv'
<1>. SUFFICES ASSUME IInv, [Next]_vars PROVE IInv'
  BY ZenonT(30)
<1>1. ASSUME NEW p \in Proc, NEW k \in Block, BgetPanic(p, k) PROVE IInv'
  BY SMTT(30), <1>1 DEF BgetPanic, IInv, BioTypeOK, BufInv, RefInv, Users, SleepLockInv, SleepsOnLocked, CleanInv, lk
<1>2. CASE UNCHANGED vars
  BY <1>2 DEF vars, IInv, BioTypeOK, BufInv, RefInv, Users, SleepLockInv, SleepsOnLocked, CleanInv
<1>. QED
  BY ZenonT(30), <1>1, <1>2, BgetHitKeeps, BgetMissKeeps, AcquiresleepKeeps, AcquiresleepWaitsKeeps,
     BreadDoneKeeps, ModifyKeeps, BwriteKeeps, LogWriteKeeps, BunpinKeeps, ReleasesleepKeeps, BrelseKeeps
     DEF Next

LEMMA Invariance == Spec => []IInv
  BY InitInv, StepInv, PTL DEF Spec

(* No wakeup of releasesleep() is lost, however many wait for a buffer.       *)
THEOREM NoLostWakeup == Spec => []SleepsOnLocked
  BY Invariance, PTL DEF IInv, SleepLockInv

(* brelse(), bpin() and bunpin(): what bget() recycles has no user, is not    *)
(* in the log's header, and holds what the disk holds.                        *)
RecycledClean ==
  \A b \in Buf : Unused(b) =>
    /\ b \notin pinned /\ \A p \in Proc : pc[p] # "idle" => buf[p] # b
    /\ valid[b] => data[b] = disk[blockno[b]]

(* Recycling a buffer loses nothing. *)
THEOREM RecyclingSafe == Spec => []RecycledClean
<1>1. IInv => RecycledClean
  <2>. SUFFICES ASSUME IInv, NEW b \in Buf, Unused(b)
                PROVE  /\ b \notin pinned /\ \A p \in Proc : pc[p] # "idle" => buf[p] # b
                       /\ valid[b] => data[b] = disk[blockno[b]]
    BY ZenonT(30) DEF RecycledClean
  <2>1. Users(b) = {} /\ b \notin pinned
    BY ZenonT(30), UnusedIsFree
  <2>2. \A p \in Proc : pc[p] # "idle" => buf[p] # b
    BY ZenonT(30), <2>1 DEF Users
  <2>. QED
    BY ZenonT(30), <2>1, <2>2 DEF IInv, CleanInv
<1>. QED
  BY <1>1, Invariance, PTL

-----------------------------------------------------------------------------
(* Bio implements BlockStore: the cache is the store. *)

Owns(p, k) == pc[p] \in Owning /\ blockno[buf[p]] = k

(* A block has the contents of its valid buffer, and its owner is whoever     *)
(* owns it.                                                                   *)
Mapping ==
  /\ \A k \in Block, b \in Buf : blockno[b] = k /\ valid[b] => Content(k) = data[b]
  /\ \A k \in Block : (\A b \in Buf : ~(blockno[b] = k /\ valid[b])) => Content(k) = disk[k]
  /\ \A k \in Block, p \in Proc : Owns(p, k) => Owner(k) = p
  /\ \A k \in Block : (\A p \in Proc : ~Owns(p, k)) => Owner(k) = None

LEMMA MappingRight == IInv => Mapping
<1>. SUFFICES ASSUME IInv, NEW k \in Block
              PROVE  /\ \A b \in Buf : blockno[b] = k /\ valid[b] => Content(k) = data[b]
                     /\ (\A b \in Buf : ~(blockno[b] = k /\ valid[b])) => Content(k) = disk[k]
                     /\ \A p \in Proc : Owns(p, k) => Owner(k) = p
                     /\ (\A p \in Proc : ~Owns(p, k)) => Owner(k) = None
  BY ZenonT(30) DEF Mapping
<1>1. ASSUME NEW b \in Buf, blockno[b] = k, valid[b] PROVE Content(k) = data[b]
  <2>1. \A a \in Buf : blockno[a] = k /\ valid[a] => a = b
    BY ZenonT(30), <1>1 DEF IInv, BufInv
  <2>2. b = CHOOSE a \in Buf : blockno[a] = k /\ valid[a]
    BY ZenonT(30), <1>1, <2>1
  <2>. QED
    BY ZenonT(30), <1>1, <2>2 DEF Content
<1>2. ASSUME NEW p \in Proc, Owns(p, k) PROVE Owner(k) = p
  <2>1. \A q \in Proc : pc[q] \in Owning /\ blockno[buf[q]] = k => q = p
    <3>. SUFFICES ASSUME NEW q \in Proc, pc[q] \in Owning, blockno[buf[q]] = k PROVE q = p
      BY ZenonT(30)
    <3>1. buf[p] \in Buf /\ buf[q] \in Buf /\ pc[p] \in Owning /\ blockno[buf[p]] = k
      BY ZenonT(30), <1>2 DEF IInv, BufInv, Owns, Owning
    <3>2. buf[p] = buf[q]
      BY ZenonT(30), <3>1 DEF IInv, BufInv
    <3>. QED
      BY ZenonT(30), <3>1, <3>2, OneHolder DEF Owning, Locking
  <2>2. p = CHOOSE q \in Proc : pc[q] \in {"held", "dirty", "written"} /\ blockno[buf[q]] = k
    BY ZenonT(30), <1>2, <2>1 DEF Owns, Owning
  <2>. QED
    BY ZenonT(30), <1>2, <2>2 DEF Owner, Owns, Owning
<1>. QED
  BY ZenonT(30), <1>1, <1>2 DEF Content, Owner, Owns, Owning

(* A step that changes no block's contents and no block's owner.              *)
LEMMA Stutters ==
  ASSUME IInv, IInv', \A k \in Block : Content(k)' = Content(k),
         \A k \in Block, p \in Proc : Owns(p, k)' <=> Owns(p, k)
  PROVE  UNCHANGED Store!cvars
<1>1. Mapping /\ Mapping'
  BY MappingRight, PTL
<1>2. \A k \in Block : Owner(k)' = Owner(k)
  BY ZenonT(30), <1>1 DEF Mapping
<1>. QED
  BY ZenonT(30), <1>2 DEF Store!cvars

(* bget() of a block that is not cached: the buffer it takes was clean.       *)
LEMMA BgetMissStutters ==
  ASSUME IInv, IInv', NEW p \in Proc, NEW k \in Block, BgetMiss(p, k)
  PROVE  UNCHANGED Store!cvars
<1>0. PICK b \in Buf : /\ Unused(b)
                       /\ blockno' = [blockno EXCEPT ![b] = k] /\ valid' = [valid EXCEPT ![b] = FALSE]
                       /\ buf' = [buf EXCEPT ![p] = b]
  BY ZenonT(30) DEF BgetMiss, Victim, IInv, BioTypeOK
<1>a. /\ Users(b) = {} /\ b \notin pinned
      /\ pc[p] = "idle" /\ pc' = [pc EXCEPT ![p] = "acquire"] /\ data' = data /\ disk' = disk
      /\ \A a \in Buf : blockno[a] # k
  BY ZenonT(30), <1>0, UnusedIsFree DEF BgetMiss, Goto, Cached
<1>b. Mapping /\ Mapping'
  BY MappingRight, PTL
<1>c. valid[b] => data[b] = disk[blockno[b]]
  BY ZenonT(30), <1>a DEF IInv, CleanInv, Users
<1>1. ASSUME NEW j \in Block PROVE Content(j)' = Content(j)
  <2>1. CASE \E a \in Buf \ {b} : blockno[a] = j /\ valid[a]
    <3>1. PICK a \in Buf \ {b} : blockno[a] = j /\ valid[a]
      BY ZenonT(30), <2>1
    <3>2. blockno'[a] = j /\ valid'[a] /\ data'[a] = data[a]
      BY ZenonT(30), <1>0, <1>a, <3>1 DEF IInv, BioTypeOK
    <3>. QED
      BY <1>b, <3>1, <3>2 DEF Mapping
  <2>2. CASE \A a \in Buf \ {b} : ~(blockno[a] = j /\ valid[a])
    <3>1. \A a \in Buf : ~(blockno'[a] = j /\ valid'[a])
      BY ZenonT(30), <1>0, <2>2 DEF IInv, BioTypeOK
    <3>2. Content(j)' = disk[j]
      BY ZenonT(30), <1>a, <1>b, <3>1 DEF Mapping
    <3>3. Content(j) = disk[j]
      BY ZenonT(60), <1>b, <1>c, <2>2 DEF Mapping
    <3>. QED
      BY ZenonT(30), <3>2, <3>3
  <2>. QED
    BY ZenonT(30), <2>1, <2>2
<1>2. \A j \in Block, q \in Proc : Owns(q, j)' <=> Owns(q, j)
  <2>. SUFFICES ASSUME NEW j \in Block, NEW q \in Proc PROVE Owns(q, j)' <=> Owns(q, j)
    BY ZenonT(30)
  <2>1. CASE q = p
    BY ZenonT(30), <1>a, <2>1 DEF Owns, Owning, IInv, BioTypeOK
  <2>2. CASE q # p
    <3>1. pc'[q] = pc[q] /\ buf'[q] = buf[q]
      BY <1>0, <1>a, <2>2 DEF IInv, BioTypeOK
    <3>2. pc[q] # "idle" => buf[q] \in Buf /\ buf[q] # b
      BY ZenonT(30), <1>a DEF Users, IInv, BufInv
    <3>. QED
      BY ZenonT(30), <1>0, <3>1, <3>2 DEF Owns, Owning, IInv, BioTypeOK
  <2>. QED
    BY ZenonT(30), <2>1, <2>2
<1>. QED
  BY ZenonT(30), <1>1, <1>2, Stutters

(* bread() gives the block to its caller: it reads the disk if it must.       *)
LEMMA BreadDoneTakes ==
  ASSUME IInv, IInv', NEW p \in Proc, BreadDone(p)
  PROVE  Store!Take(p, blockno[buf[p]])
<1>. DEFINE k == blockno[buf[p]]
<1>0. buf[p] \in Buf /\ k \in Block /\ pc[p] = "locked"
  BY ZenonT(30) DEF BreadDone, IInv, BufInv
<1>a. Mapping /\ Mapping'
  BY MappingRight, PTL
<1>b. \A q \in Proc : ~Owns(q, k)
  <2>. SUFFICES ASSUME NEW q \in Proc, Owns(q, k) PROVE FALSE
    BY ZenonT(30)
  <2>1. buf[q] = buf[p]
    BY ZenonT(30), <1>0 DEF Owns, Owning, IInv, BufInv
  <2>. QED
    BY ZenonT(30), <1>0, <2>1, OneHolder DEF Owns, Owning, Locking
<1>1. Owner(k) = None
  BY ZenonT(30), <1>0, <1>a, <1>b DEF Mapping
<1>2. ASSUME NEW j \in Block PROVE Content(j)' = Content(j)
  <2>1. CASE j = k
    <3>1. blockno'[buf[p]] = j /\ valid'[buf[p]]
      BY ZenonT(30), <1>0, <2>1 DEF BreadDone, IInv, BioTypeOK
    <3>2. Content(j)' = data'[buf[p]]
      BY ZenonT(30), <1>0, <1>a, <2>1, <3>1 DEF Mapping
    <3>3. CASE valid[buf[p]]
      <4>1. Content(j) = data[buf[p]]
        BY ZenonT(30), <1>0, <1>a, <2>1, <3>3 DEF Mapping
      <4>. QED
        BY ZenonT(30), <3>2, <3>3, <4>1 DEF BreadDone, Fill
    <3>4. CASE ~valid[buf[p]]
      <4>1. data'[buf[p]] = disk[k]
        BY ZenonT(30), <1>0, <3>4 DEF BreadDone, Fill, IInv, BioTypeOK
      <4>2. \A b \in Buf : ~(blockno[b] = k /\ valid[b])
        BY ZenonT(30), <1>0, <3>4 DEF IInv, BufInv
      <4>. QED
        BY ZenonT(30), <1>0, <1>a, <2>1, <3>2, <4>1, <4>2 DEF Mapping
    <3>. QED
      BY ZenonT(30), <3>3, <3>4
  <2>2. CASE j # k
    <3>1. \A b \in Buf : blockno[b] = j => blockno'[b] = j /\ valid'[b] = valid[b] /\ data'[b] = data[b]
      BY ZenonT(30), <1>0, <2>2 DEF BreadDone, Fill, IInv, BioTypeOK
    <3>2. blockno' = blockno /\ disk' = disk
      BY ZenonT(30) DEF BreadDone
    <3>. QED
      BY SMTT(30), <1>a, <3>1, <3>2 DEF Mapping
  <2>. QED
    BY ZenonT(30), <2>1, <2>2
<1>3. ASSUME NEW j \in Block PROVE Owner(j)' = IF j = k THEN p ELSE Owner(j)
  <2>1. pc' = [pc EXCEPT ![p] = "held"] /\ buf' = buf /\ blockno' = blockno
    BY ZenonT(30) DEF BreadDone, Goto
  <2>2. Owns(p, k)'
    BY ZenonT(30), <2>1 DEF Owns, Owning, IInv, BioTypeOK
  <2>3. j # k => \A q \in Proc : Owns(q, j)' <=> Owns(q, j)
    BY ZenonT(30), <1>0, <2>1 DEF Owns, Owning, IInv, BioTypeOK
  <2>4. k' = k
    BY ZenonT(30), <2>1
  <2>. QED
    BY ZenonT(30), <1>0, <1>a, <2>2, <2>3, <2>4 DEF Mapping
<1>. QED
  BY ZenonT(30), <1>0, <1>1, <1>2, <1>3 DEF Store!Take

LEMMA ModifyChanges ==
  ASSUME IInv, IInv', NEW p \in Proc, NEW v \in Value, Modify(p, v)
  PROVE  Store!Change(p, blockno[buf[p]])
<1>. DEFINE k == blockno[buf[p]]
<1>0. buf[p] \in Buf /\ k \in Block /\ pc[p] = "held" /\ valid[buf[p]]
  BY ZenonT(30) DEF Modify, IInv, BufInv, CleanInv, Owning
<1>a. Mapping /\ Mapping'
  BY MappingRight, PTL
<1>b. /\ data' = [data EXCEPT ![buf[p]] = v] /\ pc' = [pc EXCEPT ![p] = "dirty"]
      /\ UNCHANGED <<blockno, valid, buf, disk>>
  BY ZenonT(30) DEF Modify, Goto
<1>1. Owner(k) = p
  BY ZenonT(30), <1>0, <1>a DEF Mapping, Owns, Owning
<1>2. ASSUME NEW j \in Block PROVE Content(j)' = IF j = k THEN v ELSE Content(j)
  <2>1. CASE j = k
    BY SMTT(30), <1>0, <1>a, <1>b, <2>1 DEF Mapping, IInv, BioTypeOK
  <2>2. CASE j # k
    <3>. SUFFICES Content(j)' = Content(j)
      BY ZenonT(30), <2>2
    <3>1. \A b \in Buf : blockno[b] = j => data'[b] = data[b]
      BY ZenonT(30), <1>0, <1>b, <2>2 DEF IInv, BioTypeOK
    <3>2. CASE \E b \in Buf : blockno[b] = j /\ valid[b]
      <4>1. PICK b \in Buf : blockno[b] = j /\ valid[b]
        BY ZenonT(30), <3>2
      <4>2. Content(j) = data[b]
        BY ZenonT(30), <1>a, <4>1 DEF Mapping
      <4>3. Content(j)' = data'[b]
        BY ZenonT(30), <1>a, <1>b, <4>1 DEF Mapping
      <4>. QED
        BY ZenonT(30), <3>1, <4>1, <4>2, <4>3
    <3>3. CASE ~\E b \in Buf : blockno[b] = j /\ valid[b]
      BY ZenonT(30), <1>a, <1>b, <3>3 DEF Mapping
    <3>. QED
      BY ZenonT(30), <3>2, <3>3
  <2>. QED
    BY ZenonT(30), <2>1, <2>2
<1>3. ASSUME NEW j \in Block PROVE Owner(j)' = Owner(j)
  <2>1. \A q \in Proc : Owns(q, j)' <=> Owns(q, j)
    BY ZenonT(30), <1>0, <1>b DEF Owns, Owning, IInv, BioTypeOK
  <2>. QED
    BY ZenonT(30), <1>a, <2>1 DEF Mapping
<1>. QED
  BY ZenonT(30), <1>0, <1>1, <1>2, <1>3 DEF Store!Change

LEMMA ReleasesleepGives ==
  ASSUME IInv, IInv', NEW p \in Proc, Releasesleep(p)
  PROVE  Store!Give(p, blockno[buf[p]])
<1>. DEFINE k == blockno[buf[p]]
<1>0. buf[p] \in Buf /\ k \in Block /\ pc[p] \in {"held", "written"}
  BY ZenonT(30) DEF Releasesleep, IInv, BufInv
<1>a. Mapping /\ Mapping'
  BY MappingRight, PTL
<1>b. /\ \A q \in Proc : pc'[q] = IF q = p THEN "unref"
                                ELSE IF pc[q] = "asleep" /\ buf[q] = buf[p] THEN "acquire" ELSE pc[q]
      /\ UNCHANGED <<blockno, valid, data, buf, disk>>
  BY ZenonT(30) DEF Releasesleep, Wakes
<1>1. Owner(k) = p
  BY ZenonT(30), <1>0, <1>a DEF Mapping, Owns, Owning
<1>2. ASSUME NEW j \in Block PROVE Content(j)' = Content(j)
  BY ZenonT(30), <1>b DEF Content
<1>3. ASSUME NEW j \in Block PROVE Owner(j)' = IF j = k THEN None ELSE Owner(j)
  <2>1. \A q \in Proc : Owns(q, j)' <=> Owns(q, j) /\ q # p
    BY ZenonT(30), <1>b DEF Owns, Owning
  <2>2. \A q \in Proc : Owns(q, k) => q = p
    BY ZenonT(30), <1>0, <1>1, <1>a DEF Mapping
  <2>3. Owns(p, j) <=> j = k
    BY ZenonT(30), <1>0 DEF Owns, Owning
  <2>. QED
    BY ZenonT(30), <1>0, <1>a, <2>1, <2>2, <2>3 DEF Mapping
<1>. QED
  BY ZenonT(30), <1>0, <1>1, <1>2, <1>3 DEF Store!Give

(* bwrite() changes the disk under a buffer that has the contents.            *)
LEMMA BwriteStutters ==
  ASSUME IInv, IInv', NEW p \in Proc, Bwrite(p)
  PROVE  UNCHANGED Store!cvars
<1>0. buf[p] \in Buf /\ blockno[buf[p]] \in Block /\ pc[p] \in {"held", "dirty"} /\ valid[buf[p]]
  BY ZenonT(30) DEF Bwrite, IInv, BufInv, CleanInv, Owning
<1>a. Mapping /\ Mapping'
  BY MappingRight, PTL
<1>b. /\ disk' = [disk EXCEPT ![blockno[buf[p]]] = data[buf[p]]] /\ pc' = [pc EXCEPT ![p] = "written"]
      /\ UNCHANGED <<blockno, valid, data, buf>>
  BY ZenonT(30) DEF Bwrite, Goto
<1>1. ASSUME NEW j \in Block PROVE Content(j)' = Content(j)
  <2>1. CASE j = blockno[buf[p]]
    BY ZenonT(30), <1>0, <1>a, <1>b, <2>1 DEF Mapping
  <2>2. CASE j # blockno[buf[p]]
    <3>1. disk'[j] = disk[j]
      BY ZenonT(30), <1>0, <1>b, <2>2 DEF IInv, BioTypeOK
    <3>. QED
      BY SMTT(30), <1>a, <1>b, <3>1 DEF Mapping
  <2>. QED
    BY ZenonT(30), <2>1, <2>2
<1>2. \A j \in Block, q \in Proc : Owns(q, j)' <=> Owns(q, j)
  BY ZenonT(30), <1>0, <1>b DEF Owns, Owning, IInv, BioTypeOK
<1>. QED
  BY ZenonT(30), <1>1, <1>2, Stutters

(* The steps that leave buffers' blocks and contents alone.                   *)
LEMMA OthersStutter ==
  ASSUME IInv, IInv', NEW p \in Proc,
         \/ \E k \in Block : BgetHit(p, k) \/ BgetPanic(p, k)
         \/ Acquiresleep(p) \/ AcquiresleepWaits(p) \/ LogWrite(p) \/ Bunpin(p) \/ Brelse(p)
  PROVE  UNCHANGED Store!cvars
<1>1. UNCHANGED <<blockno, valid, data, disk>>
  BY ZenonT(30) DEF BgetHit, BgetPanic, Acquiresleep, AcquiresleepWaits, LogWrite, Bunpin, Brelse
<1>2. \A j \in Block : Content(j)' = Content(j)
  BY ZenonT(30), <1>1 DEF Content
<1>3. \A q \in Proc \ {p} : pc'[q] = pc[q] /\ buf'[q] = buf[q]
  BY ZenonT(60) DEF BgetHit, BgetPanic, Acquiresleep, AcquiresleepWaits, LogWrite, Bunpin, Brelse, Goto, IInv, BioTypeOK
<1>4. (pc'[p] \in Owning <=> pc[p] \in Owning) /\ (pc[p] \in Owning => buf'[p] = buf[p])
  BY ZenonT(60) DEF BgetHit, BgetPanic, Acquiresleep, AcquiresleepWaits, LogWrite, Bunpin, Brelse, Goto, IInv, BioTypeOK, Owning
<1>5. \A j \in Block, q \in Proc : Owns(q, j)' <=> Owns(q, j)
  BY ZenonT(30), <1>1, <1>3, <1>4 DEF Owns
<1>. QED
  BY ZenonT(30), <1>2, <1>5, Stutters

LEMMA StepRefines == IInv /\ IInv' /\ [Next]_vars => [Store!CNext]_(Store!cvars)
<1>. SUFFICES ASSUME IInv, IInv', [Next]_vars PROVE [Store!CNext]_(Store!cvars)
  BY ZenonT(30)
<1>1. CASE UNCHANGED vars
  BY ZenonT(30), <1>1 DEF vars, Store!cvars, Content, Owner
<1>2. \A p \in Proc : pc[p] # "idle" => blockno[buf[p]] \in Block
  BY ZenonT(30) DEF IInv, BufInv
<1>3. ASSUME NEW p \in Proc, BreadDone(p) PROVE Store!CNext
  BY ZenonT(30), <1>2, <1>3, BreadDoneTakes DEF BreadDone, Store!CNext
<1>4. ASSUME NEW p \in Proc, NEW v \in Value, Modify(p, v) PROVE Store!CNext
  BY ZenonT(30), <1>2, <1>4, ModifyChanges DEF Modify, Store!CNext
<1>5. ASSUME NEW p \in Proc, Releasesleep(p) PROVE Store!CNext
  BY ZenonT(30), <1>2, <1>5, ReleasesleepGives DEF Releasesleep, Store!CNext
<1>. QED
  BY ZenonT(30), <1>1, <1>3, <1>4, <1>5, BgetMissStutters, BwriteStutters, OthersStutter DEF Next

(* The buffer cache is transparent: each block has one value, which changes   *)
(* only at the hands of the one process that has it locked, and recycling,    *)
(* pinning and writing buffers never shows.                                   *)
THEOREM CacheIsStore == Spec => RefinesBlockStore
<1>1. Init => Store!CInit
  <2>. SUFFICES ASSUME Init PROVE Store!CInit
    BY ZenonT(30)
  <2>1. Mapping
    BY ZenonT(30), InitInv, MappingRight
  <2>2. \A k \in Block : Content(k) = disk[k] /\ Owner(k) = None
    BY ZenonT(30), <2>1 DEF Init, Mapping, Owns, Owning
  <2>. QED
    BY ZenonT(30), <2>2 DEF Store!CInit, Init
<1>2. IInv /\ IInv' /\ [Next]_vars => [Store!CNext]_(Store!cvars)
  BY ZenonT(30), StepRefines
<1>. QED
  BY <1>1, <1>2, Invariance, PTL DEF Spec, RefinesBlockStore, Store!CSpec
=============================================================================
