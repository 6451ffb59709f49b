----------------------------- MODULE PipeProofs -----------------------------
(* Proofs about Pipe: its page is freed only when it is unused, and it        *)
(* implements ByteQueue, for any processes, ring size and counter width.      *)
EXTENDS Pipe, SequenceTheorems, TLAPS

-----------------------------------------------------------------------------
(* Arithmetic of the ring. *)

(* Quotient and remainder, as the provers need them. *)
LEMMA DivMod ==
  ASSUME NEW x \in Int, NEW m \in Nat \ {0}
  PROVE  /\ x \div m \in Int /\ x % m \in 0..(m - 1)
         /\ x = m * (x \div m) + (x % m)
  OBVIOUS

LEMMA ModUnique ==
  ASSUME NEW m \in Nat \ {0}, NEW q \in Int, NEW r \in 0..(m - 1)
  PROVE  (m * q + r) % m = r
<1>1. ASSUME NEW a \in Int, NEW b \in Int, NEW s \in 0..(m - 1), m * a + r = m * b + s
      PROVE  r = s
  <2>1. m * (a - b) = s - r
    BY <1>1
  <2>2. a - b > 0 => m * (a - b) >= m
    OBVIOUS
  <2>3. a - b < 0 => m * (a - b) <= -m
    OBVIOUS
  <2>. QED
    BY <2>1, <2>2, <2>3
<1>. DEFINE x == m * q + r
<1>2. x \in Int
  OBVIOUS
<1>. HIDE DEF x
<1>3. x \div m \in Int /\ x % m \in 0..(m - 1) /\ x = m * (x \div m) + (x % m)
  BY <1>2, DivMod, Zenon
<1>4. m * q + r = m * (x \div m) + (x % m)
  BY ZenonT(30), <1>3 DEF x
<1>5. r = x % m
  BY ZenonT(30), <1>1, <1>3, <1>4
<1>. QED
  BY ZenonT(30), <1>5 DEF x

(* UINT is a multiple of PIPESIZE: a counter that wraps stays in its place.   *)
LEMMA RingWrap ==
  ASSUME NEW x \in Int
  PROVE  (x + UINT) % PIPESIZE = x % PIPESIZE
<1>1. PICK k \in 2..UINT : UINT = k * PIPESIZE
  BY ZenonT(30), SizeAssumption
<1>. DEFINE q == x \div PIPESIZE
            r == x % PIPESIZE
<1>2. q \in Int /\ r \in 0..(PIPESIZE - 1) /\ x = PIPESIZE * q + r
  BY ZenonT(30), DivMod, SizeAssumption
<1>. HIDE DEF q, r
<1>3. k \in Int /\ PIPESIZE \in Nat \ {0} /\ q + k \in Int
  BY <1>1, <1>2, SizeAssumption
<1>4. x + UINT = PIPESIZE * (q + k) + r
  BY <1>1, <1>2, <1>3
<1>5. (PIPESIZE * (q + k) + r) % PIPESIZE = r
  BY ZenonT(30), <1>2, <1>3, ModUnique
<1>. QED
  BY ZenonT(30), <1>4, <1>5 DEF r

(* Fewer than PIPESIZE apart, two counts have different places.               *)
LEMMA RingApart ==
  ASSUME NEW x \in Int, NEW j \in 1..(PIPESIZE - 1)
  PROVE  (x + j) % PIPESIZE # x % PIPESIZE
<1>. DEFINE m == PIPESIZE
<1>1. m \in Nat \ {0} /\ x + j \in Int
  BY SizeAssumption
<1>. HIDE DEF m
<1>2. x \div m \in Int /\ x % m \in 0..(m - 1) /\ x = m * (x \div m) + (x % m)
  BY <1>1, DivMod, Zenon
<1>3. /\ (x + j) \div m \in Int /\ (x + j) % m \in 0..(m - 1)
      /\ x + j = m * ((x + j) \div m) + ((x + j) % m)
  BY <1>1, DivMod, Zenon
<1>4. x % m \in Int
  BY <1>1, <1>2
<1>5. ASSUME NEW a \in Int, NEW b \in Int, NEW r \in Int, x = m * a + r, x + j = m * b + r
      PROVE  FALSE
  <2>1. j = m * (b - a)
    BY <1>1, <1>5
  <2>2. b - a > 0 => m * (b - a) >= m
    BY <1>1
  <2>3. b - a <= 0 => m * (b - a) <= 0
    BY <1>1
  <2>. QED
    BY <2>1, <2>2, <2>3, <1>1 DEF m
<1>. QED
  BY ZenonT(30), <1>1, <1>2, <1>3, <1>4, <1>5 DEF m

(* The remainder modulo UINT, as far as the counters go. *)
LEMMA UintMod ==
  ASSUME NEW x \in Int, -UINT <= x, x < 2 * UINT
  PROVE  x % UINT = IF x < 0 THEN x + UINT ELSE IF x < UINT THEN x ELSE x - UINT
<1>1. UINT \in Nat \ {0}
  <2>1. PICK k \in 2..UINT : UINT = k * PIPESIZE
    BY ZenonT(30), SizeAssumption
  <2>. QED
    BY <2>1, SizeAssumption
<1>2. CASE x < 0
  <2>1. x + UINT \in 0..(UINT - 1) /\ x = UINT * (-1) + (x + UINT)
    BY <1>1, <1>2
  <2>. QED
    BY <2>1, <1>1, <1>2, ModUnique
<1>3. CASE x >= 0 /\ x < UINT
  <2>1. x \in 0..(UINT - 1) /\ x = UINT * 0 + x
    BY <1>1, <1>3
  <2>. QED
    BY <2>1, <1>1, <1>3, ModUnique
<1>4. CASE x >= UINT
  <2>1. x - UINT \in 0..(UINT - 1) /\ x = UINT * 1 + (x - UINT)
    BY <1>1, <1>4
  <2>. QED
    BY <2>1, <1>1, <1>4, ModUnique
<1>. QED
  BY <1>1, <1>2, <1>3, <1>4

-----------------------------------------------------------------------------
(* The inductive invariant. *)

Reading == {"rlock", "read", "copy", "rwait", "rsleep"}
Writing == {"wlock", "write", "wwait", "wsleep"}
Holding == {"read", "copy", "rwait", "write", "wwait"}

PipeTypeOK ==
  /\ data \in [0..(PIPESIZE - 1) -> Byte]
  /\ nread \in 0..(UINT - 1) /\ nwrite \in 0..(UINT - 1)
  /\ readopen \in BOOLEAN /\ writeopen \in BOOLEAN /\ freed \in BOOLEAN
  /\ pc \in [Proc -> {"idle", "wclose", "rclose"} \cup Reading \cup Writing]
  /\ rends \subseteq Proc /\ wends \subseteq Proc

(* Whoever reads or writes has a descriptor; an end is open until the one     *)
(* process that gave up its last descriptor has been through pipeclose().     *)
EndsInv ==
  /\ \A p \in Proc : (pc[p] \in Reading => p \in rends) /\ (pc[p] \in Writing => p \in wends)
  /\ rends # {} => readopen
  /\ wends # {} => writeopen
  /\ \A p \in Proc : pc[p] = "rclose" =>
       readopen /\ rends = {} /\ \A q \in Proc : pc[q] = "rclose" => q = p
  /\ \A p \in Proc : pc[p] = "wclose" =>
       writeopen /\ wends = {} /\ \A q \in Proc : pc[q] = "wclose" => q = p
  /\ freed <=> ~readopen /\ ~writeopen

LockInv ==
  /\ \A p \in Proc : pc[p] \in Holding => lock = p
  /\ lock # None => lock \in Proc /\ pc[lock] \in Holding

(* The ring never holds more than it has room for. *)
RingInv == (nwrite - nread) % UINT <= PIPESIZE

IInv == PipeTypeOK /\ EndsInv /\ LockInv /\ RingInv

LEMMA UintType == UINT \in Nat /\ PIPESIZE \in Nat \ {0} /\ 2 * PIPESIZE <= UINT
<1>1. PICK k \in 2..UINT : UINT = k * PIPESIZE
  BY ZenonT(30), SizeAssumption
<1>2. UINT \in Int /\ k >= 2
  BY <1>1, SizeAssumption
<1>3. k * PIPESIZE >= 2 * PIPESIZE
  BY <1>2, SizeAssumption
<1>. QED
  BY <1>1, <1>2, <1>3, SizeAssumption

(* The number of bytes in the ring, without remainders. *)
Size == IF nwrite >= nread THEN nwrite - nread ELSE nwrite - nread + UINT

LEMMA Distance ==
  ASSUME NEW a \in 0..(UINT - 1), NEW b \in 0..(UINT - 1)
  PROVE  (a - b) % UINT = IF a >= b THEN a - b ELSE a - b + UINT
  BY UintMod, UintType

LEMMA SizeIs ==
  ASSUME PipeTypeOK
  PROVE  /\ (nwrite - nread) % UINT = Size /\ Size \in 0..(UINT - 1)
         /\ Empty <=> Size = 0
         /\ Full <=> Size = PIPESIZE
<1>. nread \in 0..(UINT - 1) /\ nwrite \in 0..(UINT - 1)
  BY ZenonT(30) DEF PipeTypeOK
<1>1. (nwrite - nread) % UINT = Size
  BY ZenonT(30), Distance DEF Size
<1>2. (nread + PIPESIZE) % UINT = IF nread + PIPESIZE < UINT THEN nread + PIPESIZE ELSE nread + PIPESIZE - UINT
  BY UintMod, UintType
<1>. QED
  BY <1>1, <1>2, UintType DEF Size, Empty, Full

LEMMA PlusOneIs ==
  ASSUME NEW x \in 0..(UINT - 1)
  PROVE  PlusOne(x) = (IF x + 1 = UINT THEN 0 ELSE x + 1) /\ PlusOne(x) \in 0..(UINT - 1)
<1>1. (x + 1) % UINT = IF x + 1 < UINT THEN x + 1 ELSE x + 1 - UINT
  BY UintMod, UintType
<1>. QED
  BY <1>1, UintType DEF PlusOne

LEMMA InitInv == Init => IInv
<1>. SUFFICES ASSUME Init PROVE IInv
  BY ZenonT(30)
<1>1. nread = 0 /\ nwrite = 0
  BY ZenonT(30) DEF Init
<1>2. PipeTypeOK
  <2>1. readopen \in BOOLEAN /\ writeopen \in BOOLEAN /\ freed \in BOOLEAN
    BY Zenon DEF Init
  <2>2. pc \in [Proc -> {"idle", "wclose", "rclose"} \cup Reading \cup Writing]
    BY ZenonT(30) DEF Init
  <2>. QED
    BY <2>1, <2>2, <1>1, UintType DEF Init, PipeTypeOK
<1>3. EndsInv
  BY ZenonT(30) DEF Init, EndsInv, Reading, Writing
<1>4. LockInv
  BY ZenonT(30) DEF Init, LockInv, Holding
<1>5. RingInv
  BY <1>1, <1>2, SizeIs, UintType DEF RingInv, Size
<1>. QED
  BY ZenonT(30), <1>2, <1>3, <1>4, <1>5 DEF IInv

(* The steps that leave the ring, the ends and the page alone.                *)
Inside(p) ==
  \/ WriteLock(p) \/ ReadLock(p) \/ WriteFails(p) \/ WriteSleeps(p) \/ WriteBreaks(p) \/ WriteDone(p)
  \/ Sleeps(p) \/ ReadFails(p) \/ ReadSleeps(p) \/ ReadReady(p) \/ ReadDone(p) \/ Kill(p)
  \/ \E n \in 0..MaxN : WriteCall(p, n) \/ ReadCall(p, n)

LEMMA InsideKeeps ==
  ASSUME IInv, NEW p \in Proc, Inside(p)
  PROVE  IInv' /\ UNCHANGED <<ring, ends>>
<1>. USE NoneAssumption DEF IInv
<1>. DEFINE Keeps == PipeTypeOK' /\ EndsInv' /\ LockInv' /\ UNCHANGED <<ring, ends>>
<1>1. ASSUME WriteLock(p) PROVE Keeps
  BY <1>1 DEF WriteLock, Goto, PipeTypeOK, EndsInv, LockInv, ring, ends, Reading, Writing, Holding
<1>2. ASSUME ReadLock(p) PROVE Keeps
  BY <1>2 DEF ReadLock, Goto, PipeTypeOK, EndsInv, LockInv, ring, ends, Reading, Writing, Holding
<1>3. ASSUME WriteFails(p) PROVE Keeps
  BY <1>3 DEF WriteFails, Goto, PipeTypeOK, EndsInv, LockInv, ring, ends, Reading, Writing, Holding
<1>4. ASSUME WriteSleeps(p) PROVE Keeps
  BY ZenonT(30), <1>4 DEF WriteSleeps, WakeReaders, Woken, PipeTypeOK, EndsInv, LockInv, ring, ends, Reading, Writing, Holding
<1>5. ASSUME WriteBreaks(p) PROVE Keeps
  BY ZenonT(30), <1>5 DEF WriteBreaks, PipeTypeOK, EndsInv, LockInv, ring, ends, Reading, Writing, Holding
<1>6. ASSUME WriteDone(p) PROVE Keeps
  BY ZenonT(30), <1>6 DEF WriteDone, WakeReaders, Woken, PipeTypeOK, EndsInv, LockInv, ring, ends, Reading, Writing, Holding
<1>7. ASSUME Sleeps(p) PROVE Keeps
  BY <1>7 DEF Sleeps, Goto, PipeTypeOK, EndsInv, LockInv, ring, ends, Reading, Writing, Holding
<1>8. ASSUME ReadFails(p) PROVE Keeps
  BY <1>8 DEF ReadFails, Goto, PipeTypeOK, EndsInv, LockInv, ring, ends, Reading, Writing, Holding
<1>9. ASSUME ReadSleeps(p) PROVE Keeps
  BY <1>9 DEF ReadSleeps, Goto, PipeTypeOK, EndsInv, LockInv, ring, ends, Reading, Writing, Holding
<1>10. ASSUME ReadReady(p) PROVE Keeps
  BY <1>10 DEF ReadReady, Goto, PipeTypeOK, EndsInv, LockInv, ring, ends, Reading, Writing, Holding
<1>11. ASSUME ReadDone(p) PROVE Keeps
  BY ZenonT(30), <1>11 DEF ReadDone, WakeWriters, Woken, PipeTypeOK, EndsInv, LockInv, ring, ends, Reading, Writing, Holding
<1>12. ASSUME Kill(p) PROVE Keeps
  BY <1>12 DEF Kill, Goto, PipeTypeOK, EndsInv, LockInv, ring, ends, Reading, Writing, Holding
<1>13. ASSUME NEW n \in 0..MaxN, WriteCall(p, n) \/ ReadCall(p, n) PROVE Keeps
  BY <1>13 DEF WriteCall, ReadCall, Goto, PipeTypeOK, EndsInv, LockInv, ring, ends, Reading, Writing, Holding
<1>14. Keeps
  BY ZenonT(30), <1>1, <1>2, <1>3, <1>4, <1>5, <1>6, <1>7, <1>8, <1>9, <1>10, <1>11, <1>12, <1>13 DEF Inside
<1>. QED
  BY ZenonT(30), <1>14 DEF RingInv, ring

(* Steps on the ring: what they leave of the invariant, and the new size.     *)
LEMMA WriteByteKeeps ==
  ASSUME IInv, NEW p \in Proc, NEW ch \in Byte, WriteByte(p, ch)
  PROVE  IInv' /\ ~freed /\ ~freed' /\ Size < PIPESIZE /\ Size' = Size + 1
<1>. USE DEF IInv
<1>1. PlusOne(nwrite) \in 0..(UINT - 1) /\ PlusOne(nwrite) = IF nwrite + 1 = UINT THEN 0 ELSE nwrite + 1
  BY ZenonT(30), PlusOneIs DEF PipeTypeOK
<1>2. nwrite % PIPESIZE \in 0..(PIPESIZE - 1)
  BY DivMod, UintType DEF PipeTypeOK
<1>3. PipeTypeOK'
  BY ZenonT(30), <1>1, <1>2 DEF WriteByte, PipeTypeOK, ends
<1>4. EndsInv' /\ LockInv'
  BY ZenonT(30) DEF WriteByte, EndsInv, LockInv, ends
<1>5. ~freed /\ ~freed'
  BY ZenonT(30) DEF WriteByte, EndsInv, ends
<1>6. Size <= PIPESIZE /\ Size # PIPESIZE /\ Size \in Nat
  BY SizeIs DEF WriteByte, RingInv
<1>7. Size' = Size + 1
  BY <1>1, <1>6, UintType DEF WriteByte, Size, PipeTypeOK
<1>8. RingInv'
  <2>1. (nwrite' - nread') % UINT = Size'
    BY ZenonT(30), <1>3, Distance DEF Size, PipeTypeOK
  <2>. QED
    BY <2>1, <1>6, <1>7, UintType DEF RingInv
<1>. QED
  BY <1>3, <1>4, <1>5, <1>6, <1>7, <1>8, UintType

LEMMA ReadByteKeeps ==
  ASSUME IInv, NEW p \in Proc, ReadByte(p) \/ ReadBreaks(p)
  PROVE  IInv' /\ ~freed /\ ~freed' /\ Size > 0 /\ Size' = Size - 1
<1>. USE DEF IInv
<1>1. PlusOne(nread) \in 0..(UINT - 1) /\ PlusOne(nread) = IF nread + 1 = UINT THEN 0 ELSE nread + 1
  BY ZenonT(30), PlusOneIs DEF PipeTypeOK
<1>2. PipeTypeOK'
  BY ZenonT(30), <1>1 DEF ReadByte, ReadBreaks, PipeTypeOK, ends
<1>3. EndsInv' /\ LockInv'
  BY DEF ReadByte, ReadBreaks, EndsInv, LockInv, ends
<1>4. ~freed /\ ~freed'
  BY DEF ReadByte, ReadBreaks, EndsInv, ends, Reading
<1>5. Size <= PIPESIZE /\ Size # 0 /\ Size \in Nat
  BY SizeIs DEF ReadByte, ReadBreaks, RingInv
<1>6. Size' = Size - 1
  BY <1>1, <1>5, UintType DEF ReadByte, ReadBreaks, Size, PipeTypeOK
<1>7. RingInv'
  <2>1. (nwrite' - nread') % UINT = Size'
    BY ZenonT(30), <1>2, Distance DEF Size, PipeTypeOK
  <2>. QED
    BY <2>1, <1>5, <1>6, UintType DEF RingInv
<1>. QED
  BY <1>2, <1>3, <1>4, <1>5, <1>6, <1>7

(* fileclose() and pipeclose(). *)
LEMMA CloseKeeps ==
  ASSUME IInv, NEW p \in Proc,
         CloseWrite(p) \/ CloseRead(p) \/ PipecloseWrite(p) \/ PipecloseRead(p)
  PROVE  IInv' /\ UNCHANGED ring /\ (freed => freed')
<1>. USE NoneAssumption DEF IInv
<1>. DEFINE Keeps == PipeTypeOK' /\ EndsInv' /\ LockInv' /\ UNCHANGED ring /\ (freed => freed')
<1>1. ASSUME CloseWrite(p) PROVE Keeps
  BY <1>1 DEF CloseWrite, Goto, PipeTypeOK, EndsInv, LockInv, ring, Reading, Writing, Holding
<1>2. ASSUME CloseRead(p) PROVE Keeps
  BY <1>2 DEF CloseRead, Goto, PipeTypeOK, EndsInv, LockInv, ring, Reading, Writing, Holding
<1>3. ASSUME PipecloseWrite(p) PROVE Keeps
  BY ZenonT(30), <1>3 DEF PipecloseWrite, Frees, WakeReaders, Woken, PipeTypeOK, EndsInv, LockInv, ring, Reading, Writing, Holding
<1>4. ASSUME PipecloseRead(p) PROVE Keeps
  BY ZenonT(30), <1>4 DEF PipecloseRead, Frees, WakeWriters, Woken, PipeTypeOK, EndsInv, LockInv, ring, Reading, Writing, Holding
<1>5. Keeps
  BY ZenonT(30), <1>1, <1>2, <1>3, <1>4
<1>. QED
  BY ZenonT(30), <1>5 DEF RingInv, ring

LEMMA StepInv == IInv /\ [Next]_vars => IInv'
<1>. SUFFICES ASSUME IInv, [Next]_vars PROVE IInv'
  BY ZenonT(30)
<1>1. CASE UNCHANGED vars
  BY ZenonT(30), <1>1 DEF vars, IInv, PipeTypeOK, EndsInv, LockInv, RingInv
<1>2. ASSUME Gone PROVE UNCHANGED vars
  BY ZenonT(30), <1>2 DEF Gone
<1>. QED
  BY ZenonT(30), <1>1, <1>2, InsideKeeps, WriteByteKeeps, ReadByteKeeps, CloseKeeps DEF Next, Locks, Works, Inside

LEMMA Invariance == Spec => []IInv
  BY InitInv, StepInv, PTL DEF Spec

(* pipeclose() frees the page only when nobody can use it any more: whoever   *)
(* is in pipewrite() or piperead(), or about to take pi->lock, keeps it.      *)
THEOREM FreedIsUnused == Spec => []FreedUnused
<1>1. IInv => FreedUnused
  BY ZenonT(30) DEF IInv, EndsInv, LockInv, PipeTypeOK, FreedUnused, Reading, Writing, Holding
<1>. QED
  BY <1>1, Invariance, PTL

-----------------------------------------------------------------------------
(* The ring is the queue. *)

LEMMA ContentsIs ==
  ASSUME PipeTypeOK, ~freed
  PROVE  /\ Contents = [i \in 1..Size |-> data[(nread + i - 1) % PIPESIZE]]
         /\ Contents \in Seq(Byte) /\ Len(Contents) = Size
<1>1. Contents = [i \in 1..Size |-> data[(nread + i - 1) % PIPESIZE]]
  BY ZenonT(30), SizeIs DEF Contents
<1>2. Size \in Nat
  BY SizeIs
<1>3. ASSUME NEW i \in 1..Size PROVE data[(nread + i - 1) % PIPESIZE] \in Byte
  <2>1. nread + i - 1 \in Int
    BY <1>2 DEF PipeTypeOK
  <2>2. (nread + i - 1) % PIPESIZE \in 0..(PIPESIZE - 1)
    BY ZenonT(30), <2>1, DivMod, UintType
  <2>. QED
    BY ZenonT(30), <2>2 DEF PipeTypeOK
<1>. DEFINE at(i) == data[(nread + i - 1) % PIPESIZE]
<1>4. \A i \in 1..Size : at(i) \in Byte
  BY ZenonT(30), <1>3
<1>5. Contents = [i \in 1..Size |-> at(i)]
  BY ZenonT(30), <1>1
<1>. HIDE DEF at
<1>6. Contents \in Seq(Byte) /\ Len(Contents) = Size
  BY <1>2, <1>4, <1>5
<1>. QED
  BY ZenonT(30), <1>1, <1>6

(* The place of the next byte is the one after the last byte. *)
LEMMA NextPlace ==
  ASSUME PipeTypeOK
  PROVE  nwrite % PIPESIZE = (nread + Size) % PIPESIZE
<1>. nread \in 0..(UINT - 1) /\ nwrite \in 0..(UINT - 1)
  BY ZenonT(30) DEF PipeTypeOK
<1>1. CASE nwrite >= nread
  <2>1. nread + Size = nwrite
    BY <1>1, UintType DEF Size
  <2>. QED
    BY ZenonT(30), <2>1
<1>2. CASE nwrite < nread
  <2>1. nread + Size = nwrite + UINT
    BY <1>2, UintType DEF Size
  <2>2. (nwrite + UINT) % PIPESIZE = nwrite % PIPESIZE
    BY RingWrap
  <2>. QED
    BY ZenonT(30), <2>1, <2>2
<1>. QED
  BY <1>1, <1>2, UintType

LEMMA WriteBytePuts ==
  ASSUME IInv, NEW p \in Proc, NEW ch \in Byte, WriteByte(p, ch)
  PROVE  Queue!Put
<1>1. IInv' /\ ~freed /\ ~freed' /\ Size < PIPESIZE /\ Size' = Size + 1
  BY ZenonT(30), WriteByteKeeps
<1>2. PipeTypeOK /\ PipeTypeOK' /\ Size \in Nat
  BY <1>1, SizeIs DEF IInv
<1>3. Contents = [i \in 1..Size |-> data[(nread + i - 1) % PIPESIZE]] /\ Contents \in Seq(Byte) /\ Len(Contents) = Size
  BY ZenonT(30), <1>1, <1>2, ContentsIs
<1>4. Contents' = [i \in 1..(Size + 1) |-> data'[(nread + i - 1) % PIPESIZE]]
  <2>1. (nwrite' - nread') % UINT = Size'
    BY ZenonT(30), <1>2, Distance DEF Size, PipeTypeOK
  <2>. QED
    BY <2>1, <1>1 DEF Contents, WriteByte
<1>5. data' = [data EXCEPT ![(nread + Size) % PIPESIZE] = ch]
  BY ZenonT(30), <1>2, NextPlace DEF WriteByte
<1>6. \A i \in 1..(Size + 1) : (nread + i - 1) % PIPESIZE \in 0..(PIPESIZE - 1)
  BY SMTT(30), <1>2, DivMod, UintType DEF PipeTypeOK
<1>7. ASSUME NEW i \in 1..Size PROVE data'[(nread + i - 1) % PIPESIZE] = data[(nread + i - 1) % PIPESIZE]
  <2>1. nread + i - 1 \in Int /\ Size - i + 1 \in 1..(PIPESIZE - 1)
    BY <1>1, <1>2, UintType DEF PipeTypeOK
  <2>2. ((nread + i - 1) + (Size - i + 1)) % PIPESIZE # (nread + i - 1) % PIPESIZE
    BY ZenonT(30), <2>1, RingApart
  <2>3. (nread + i - 1) + (Size - i + 1) = nread + Size
    BY <1>2 DEF PipeTypeOK
  <2>. QED
    BY SMTT(30), <2>2, <2>3, <1>2, <1>5, <1>6 DEF PipeTypeOK
<1>8. data'[(nread + (Size + 1) - 1) % PIPESIZE] = ch
  <2>1. nread + (Size + 1) - 1 = nread + Size
    BY <1>2 DEF PipeTypeOK
  <2>2. (nread + Size) % PIPESIZE \in 0..(PIPESIZE - 1)
    BY <1>2, DivMod, UintType DEF PipeTypeOK
  <2>. QED
    BY ZenonT(30), <2>1, <2>2, <1>2, <1>5 DEF PipeTypeOK
<1>9. Contents' = Append(Contents, ch)
  BY <1>2, <1>3, <1>4, <1>7, <1>8
<1>. QED
  BY ZenonT(30), <1>1, <1>3, <1>9 DEF Queue!Put, WriteByte, ends

LEMMA TailIs ==
  ASSUME NEW S, NEW s \in Seq(S), Len(s) > 0
  PROVE  s # <<>> /\ Tail(s) = [i \in 1..(Len(s) - 1) |-> s[i + 1]]
<1>1. s # <<>>
  BY SMTT(30), EmptySeq
<1>2. /\ Tail(s) \in Seq(S) /\ Len(Tail(s)) = Len(s) - 1
      /\ \A i \in 1..Len(Tail(s)) : Tail(s)[i] = s[i + 1]
  BY ZenonT(30), <1>1, HeadTailProperties
<1>3. Tail(s) = [i \in 1..Len(Tail(s)) |-> Tail(s)[i]]
  BY ZenonT(30), <1>2, LenProperties
<1>. QED
  BY ZenonT(30), <1>1, <1>2, <1>3

LEMMA ReadByteGets ==
  ASSUME IInv, NEW p \in Proc, ReadByte(p) \/ ReadBreaks(p)
  PROVE  Queue!Get
<1>1. IInv' /\ ~freed /\ ~freed' /\ Size > 0 /\ Size' = Size - 1
  BY ZenonT(30), ReadByteKeeps
<1>2. PipeTypeOK /\ PipeTypeOK' /\ Size \in Nat
  BY <1>1, SizeIs DEF IInv
<1>3. Contents = [i \in 1..Size |-> data[(nread + i - 1) % PIPESIZE]] /\ Contents \in Seq(Byte) /\ Len(Contents) = Size
  BY ZenonT(30), <1>1, <1>2, ContentsIs
<1>4. Contents' = [i \in 1..(Size - 1) |-> data[(nread' + i - 1) % PIPESIZE]]
  <2>1. (nwrite' - nread') % UINT = Size'
    BY ZenonT(30), <1>2, Distance DEF Size, PipeTypeOK
  <2>. QED
    BY ZenonT(30), <2>1, <1>1 DEF Contents, ReadByte, ReadBreaks
<1>5. nread' = IF nread + 1 = UINT THEN 0 ELSE nread + 1
  BY ZenonT(30), <1>2, PlusOneIs DEF ReadByte, ReadBreaks, PipeTypeOK
<1>6. ASSUME NEW i \in 1..(Size - 1) PROVE (nread' + i - 1) % PIPESIZE = (nread + (i + 1) - 1) % PIPESIZE
  <2>1. CASE nread + 1 = UINT
    <3>1. nread + (i + 1) - 1 = (nread' + i - 1) + UINT /\ nread' + i - 1 \in Int
      BY <2>1, <1>2, <1>5, UintType DEF PipeTypeOK
    <3>. QED
      BY ZenonT(30), <3>1, RingWrap
  <2>2. CASE nread + 1 # UINT
    <3>1. nread' + i - 1 = nread + (i + 1) - 1
      BY <2>2, <1>2, <1>5, UintType DEF PipeTypeOK
    <3>. QED
      BY ZenonT(30), <3>1
  <2>. QED
    BY ZenonT(30), <2>1, <2>2
<1>7. Contents # <<>> /\ Contents' = Tail(Contents)
  <2>1. Contents # <<>> /\ Tail(Contents) = [i \in 1..(Len(Contents) - 1) |-> Contents[i + 1]]
    <3>1. Contents \in Seq(Byte) /\ Len(Contents) > 0
      BY ZenonT(30), <1>1, <1>3
    <3>. QED
      BY ZenonT(30), <3>1, TailIs
  <2>2. Len(Contents) = Size
    BY ZenonT(30), <1>3
  <2>3. ASSUME NEW i \in 1..(Size - 1) PROVE Contents[i + 1] = data[(nread' + i - 1) % PIPESIZE]
    <3>1. i + 1 \in 1..Size
      BY <1>2, SMTT(30)
    <3>. QED
      BY ZenonT(30), <1>3, <1>6, <3>1
  <2>. QED
    BY ZenonT(30), <1>4, <2>1, <2>2, <2>3
<1>. QED
  BY ZenonT(30), <1>1, <1>7 DEF Queue!Get, ReadByte, ReadBreaks, ends

LEMMA StepRefines == IInv /\ [Next]_vars => [Queue!QNext]_(Queue!qvars)
<1>. SUFFICES ASSUME IInv, [Next]_vars PROVE [Queue!QNext]_(Queue!qvars)
  BY ZenonT(30)
<1>1. ASSUME UNCHANGED <<ring, freed>> PROVE UNCHANGED Queue!qvars
  BY ZenonT(30), <1>1 DEF ring, Contents, Queue!qvars
<1>2. ASSUME NEW p \in Proc, Inside(p) PROVE UNCHANGED Queue!qvars
  BY ZenonT(30), <1>1, <1>2, InsideKeeps DEF ends
<1>3. ASSUME NEW p \in Proc,
             CloseWrite(p) \/ CloseRead(p) \/ PipecloseWrite(p) \/ PipecloseRead(p)
      PROVE  [Queue!Drop]_(Queue!qvars)
  <2>1. IInv' /\ UNCHANGED ring /\ (freed => freed')
    BY ZenonT(30), <1>3, CloseKeeps
  <2>2. CASE freed' = freed
    BY ZenonT(30), <1>1, <2>1, <2>2
  <2>3. CASE freed' # freed
    <3>1. ~freed /\ freed' = TRUE
      BY <2>1, <2>3, Zenon DEF IInv, PipeTypeOK
    <3>2. Contents' = <<>>
      BY ZenonT(30), <3>1 DEF Contents
    <3>. QED
      BY ZenonT(30), <3>1, <3>2 DEF Queue!Drop
  <2>. QED
    BY ZenonT(30), <2>2, <2>3
<1>4. ASSUME UNCHANGED vars PROVE UNCHANGED Queue!qvars
  BY ZenonT(30), <1>1, <1>4 DEF vars, ring
<1>. QED
  BY ZenonT(30), <1>2, <1>3, <1>4, WriteBytePuts, ReadByteGets
     DEF Next, Gone, Locks, Works, Inside, Queue!QNext

(* The ring and its wrapping counters are a bounded first-in first-out queue: *)
(* whatever number of readers, writers and closers, no byte is lost, doubled  *)
(* or overtaken, at the counters' overflow too.                               *)
THEOREM PipeIsQueue == Spec => RefinesByteQueue
<1>1. Init => Queue!QInit
  <2>. SUFFICES ASSUME Init PROVE Queue!QInit
    BY ZenonT(30)
  <2>1. IInv /\ ~freed /\ Size = 0
    BY InitInv DEF Init, Size
  <2>2. Contents = <<>>
    BY <2>1, ContentsIs DEF IInv
  <2>. QED
    BY ZenonT(30), <2>1, <2>2 DEF Queue!QInit, Init
<1>2. IInv /\ [Next]_vars => [Queue!QNext]_(Queue!qvars)
  BY ZenonT(30), StepRefines
<1>. QED
  BY <1>1, <1>2, Invariance, PTL DEF Spec, RefinesByteQueue, Queue!QSpec
=============================================================================
