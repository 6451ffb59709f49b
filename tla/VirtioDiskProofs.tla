-------------------------- MODULE VirtioDiskProofs --------------------------
(* The driver keeps its invariant and implements BlockDevice, for any         *)
(* buffers, ring size and counter width.                                      *)
EXTENDS VirtioDisk, FiniteSetTheorems, TLAPS

-----------------------------------------------------------------------------
(* The inductive invariant. *)

(* How far the counter lo is behind hi, and the places of a ring between them. *)
Count(lo, hi) == IF hi >= lo THEN hi - lo ELSE hi - lo + UINT16
Pending(lo, hi) == {(lo + j) % NUM : j \in 0..(Count(lo, hi) - 1)}
Offered == Pending(seen, availidx)
Posted == Pending(used_idx, usedidx)

PC == {"idle", "lock", "alloc", "fsleep", "publish", "wait", "bsleep", "relock"}
Uint16 == 0..(UINT16 - 1)

DiskTypeOK ==
  /\ free \in SUBSET Desc /\ inflight \in SUBSET Desc
  /\ addr = [i \in Desc |-> addr[i]] /\ next \in [Desc -> Desc \cup {None}]
  /\ ops = [i \in Desc |-> ops[i]] /\ infob = [i \in Desc |-> infob[i]]
  /\ status \in [Desc -> BOOLEAN] /\ avail \in [Desc -> Desc] /\ used \in [Desc -> Desc]
  /\ {availidx, usedidx, used_idx, seen} \subseteq Uint16
  /\ pc \in [Buf -> PC] /\ idx \in [Buf -> Desc]
  /\ bdisk \in [Buf -> BOOLEAN] /\ write \in [Buf -> BOOLEAN]
  /\ data \in [Buf -> Value] /\ disk \in [Buf -> Value]
  /\ isr \in BOOLEAN /\ intr \in {"off", "loop", "exit"}

(* vdisk_lock. *)
LockInv ==
  /\ \A b \in Buf : pc[b] \in {"alloc", "publish", "wait"} <=> lock = b
  /\ intr # "off" <=> lock = Intr

(* The descriptors of a request, which no other request uses. *)
HasChain(b) == pc[b] = "publish" \/ Submitted(b)
Data(b) == next[idx[b]]
Stat(b) == next[Data(b)]
Own(b) == {idx[b], Data(b), Stat(b)}
ChainInv ==
  \A b \in Buf : HasChain(b) =>
    /\ Data(b) \in Desc /\ Stat(b) \in Desc /\ Own(b) \cap free = {}
    /\ addr[Data(b)] = b /\ addr[Stat(b)] = idx[b] /\ infob[idx[b]] = b
    /\ ops[idx[b]] = [write |-> write[b], sector |-> b]
    /\ \A c \in Buf : HasChain(c) /\ b # c => Own(b) \cap Own(c) = {}

(* Where a request is: offered to the device, in flight, or posted. *)
AtDevice(b) == Submitted(b) /\ ~status[idx[b]]
Completed(b) == Submitted(b) /\ status[idx[b]] /\ bdisk[b]
OfferedInv ==
  /\ Count(seen, availidx) <= NUM
  /\ \A i \in Offered :
       avail[i] \notin inflight /\ (\E b \in Buf : AtDevice(b) /\ avail[i] = idx[b])
       /\ \A j \in Offered : avail[i] = avail[j] => i = j
  /\ \A id \in inflight : \E b \in Buf : AtDevice(b) /\ id = idx[b]
  /\ \A b \in Buf : pc[b] = "publish" =>
       avail[availidx % NUM] = idx[b] /\ Count(seen, availidx) < NUM
PostedInv ==
  /\ Count(used_idx, usedidx) <= NUM
  /\ \A i \in Posted :
       (\E b \in Buf : Completed(b) /\ used[i] = idx[b])
       /\ \A j \in Posted : used[i] = used[j] => i = j
  /\ \A b \in Buf : Completed(b) => \E i \in Posted : used[i] = idx[b]

(* What a caller knows of its request. *)
CallerInv ==
  \A b \in Buf :
    /\ pc[b] = "publish" => bdisk[b] /\ ~status[idx[b]]
    /\ pc[b] = "bsleep" => bdisk[b]
    /\ Submitted(b) /\ ~bdisk[b] => status[idx[b]]

(* The interrupt handler misses no entry of the used ring. *)
IntrInv == intr # "loop" /\ used_idx # usedidx => isr

IInv == DiskTypeOK /\ LockInv /\ ChainInv /\ OfferedInv /\ PostedInv /\ CallerInv /\ IntrInv

-----------------------------------------------------------------------------
(* Arithmetic of the rings. *)

(* Quotient and remainder, as the provers need them. *)
LEMMA DivMod ==
  ASSUME NEW x \in Int, NEW m \in Nat \ {0}
  PROVE  /\ x \div m \in Int /\ x % m \in 0..(m - 1)
         /\ x = m * (x \div m) + (x % m)
  OBVIOUS

LEMMA ModUnique ==
  ASSUME NEW m \in Nat \ {0}, NEW q \in Int, NEW r \in 0..(m - 1)
  PROVE  (m * q + r) % m = r
<1>1. ASSUME NEW a \in Int, NEW b \in Int, NEW s \in 0..(m - 1), m * a + r = m * b + s
      PROVE  r = s
  <2>1. m * (a - b) = s - r
    BY <1>1
  <2>2. a - b > 0 => m * (a - b) >= m
    OBVIOUS
  <2>3. a - b < 0 => m * (a - b) <= -m
    OBVIOUS
  <2>. QED
    BY <2>1, <2>2, <2>3
<1>. DEFINE x == m * q + r
<1>2. x \in Int
  OBVIOUS
<1>. HIDE DEF x
<1>3. x \div m \in Int /\ x % m \in 0..(m - 1) /\ x = m * (x \div m) + (x % m)
  BY <1>2, DivMod, Zenon
<1>4. m * q + r = m * (x \div m) + (x % m)
  BY ZenonT(30), <1>3 DEF x
<1>5. r = x % m
  BY ZenonT(30), <1>1, <1>3, <1>4
<1>. QED
  BY ZenonT(30), <1>5 DEF x

(* UINT16 is a multiple of NUM: a counter that wraps stays in its place.   *)
LEMMA RingWrap ==
  ASSUME NEW x \in Int
  PROVE  (x + UINT16) % NUM = x % NUM
<1>1. PICK k \in 2..UINT16 : UINT16 = k * NUM
  BY ZenonT(30), SizeAssumption
<1>. DEFINE q == x \div NUM
            r == x % NUM
<1>2. q \in Int /\ r \in 0..(NUM - 1) /\ x = NUM * q + r
  BY DivMod, SizeAssumption
<1>. HIDE DEF q, r
<1>3. k \in Int /\ NUM \in Nat \ {0} /\ q + k \in Int
  BY <1>1, <1>2, SizeAssumption
<1>4. x + UINT16 = NUM * (q + k) + r
  BY <1>1, <1>2, <1>3
<1>5. (NUM * (q + k) + r) % NUM = r
  BY ZenonT(30), <1>2, <1>3, ModUnique
<1>. QED
  BY ZenonT(30), <1>4, <1>5 DEF r

(* Fewer than NUM apart, two counts have different places.               *)
LEMMA RingApart ==
  ASSUME NEW x \in Int, NEW j \in 1..(NUM - 1)
  PROVE  (x + j) % NUM # x % NUM
<1>. DEFINE m == NUM
<1>1. m \in Nat \ {0} /\ x + j \in Int
  BY SizeAssumption
<1>. HIDE DEF m
<1>2. x \div m \in Int /\ x % m \in 0..(m - 1) /\ x = m * (x \div m) + (x % m)
  BY <1>1, DivMod, Zenon
<1>3. /\ (x + j) \div m \in Int /\ (x + j) % m \in 0..(m - 1)
      /\ x + j = m * ((x + j) \div m) + ((x + j) % m)
  BY <1>1, DivMod, Zenon
<1>4. x % m \in Int
  BY <1>1, <1>2
<1>5. ASSUME NEW a \in Int, NEW b \in Int, NEW r \in Int, x = m * a + r, x + j = m * b + r
      PROVE  FALSE
  <2>1. j = m * (b - a)
    BY <1>1, <1>5
  <2>2. b - a > 0 => m * (b - a) >= m
    BY <1>1
  <2>3. b - a <= 0 => m * (b - a) <= 0
    BY <1>1
  <2>. QED
    BY <2>1, <2>2, <2>3, <1>1 DEF m
<1>. QED
  BY ZenonT(30), <1>1, <1>2, <1>3, <1>4, <1>5 DEF m

LEMMA UintType == UINT16 \in Nat /\ NUM \in Nat \ {0} /\ 2 * NUM <= UINT16
<1>1. PICK k \in 2..UINT16 : UINT16 = k * NUM
  BY ZenonT(30), SizeAssumption
<1>2. UINT16 \in Int /\ k >= 2
  BY <1>1, SizeAssumption
<1>3. k * NUM >= 2 * NUM
  BY <1>2, SizeAssumption
<1>. QED
  BY <1>1, <1>2, <1>3, SizeAssumption

LEMMA IncIs ==
  ASSUME NEW x \in Uint16
  PROVE  Inc(x) = (IF x + 1 = UINT16 THEN 0 ELSE x + 1) /\ Inc(x) \in Uint16
<1>1. CASE x + 1 = UINT16
  <2>1. 0 \in 0..(UINT16 - 1) /\ x + 1 = UINT16 * 1 + 0
    BY <1>1, UintType
  <2>2. (UINT16 * 1 + 0) % UINT16 = 0
    BY <2>1, UintType, ModUnique
  <2>. QED
    BY ZenonT(30), <1>1, <2>1, <2>2 DEF Inc, Uint16
<1>2. CASE x + 1 # UINT16
  <2>1. x + 1 \in 0..(UINT16 - 1) /\ x + 1 = UINT16 * 0 + (x + 1)
    BY <1>2, UintType DEF Uint16
  <2>2. (UINT16 * 0 + (x + 1)) % UINT16 = x + 1
    BY <2>1, UintType, ModUnique
  <2>. QED
    BY ZenonT(30), <1>2, <2>1, <2>2 DEF Inc, Uint16
<1>. QED
  BY ZenonT(30), <1>1, <1>2

(* The places of a ring: different for different offsets, and in the ring. *)
LEMMA Place ==
  ASSUME NEW x \in Int, NEW i \in 0..(NUM - 1), NEW j \in 0..(NUM - 1)
  PROVE  (x + i) % NUM \in Desc /\ ((x + i) % NUM = (x + j) % NUM => i = j)
<1>1. (x + i) % NUM \in Desc
  BY DivMod, UintType DEF Desc
<1>2. CASE i < j
  <2>1. j - i \in 1..(NUM - 1) /\ x + i \in Int
    BY <1>2, UintType
  <2>2. ((x + i) + (j - i)) % NUM # (x + i) % NUM
    BY ZenonT(30), <2>1, RingApart
  <2>3. (x + i) + (j - i) = x + j
    BY UintType
  <2>. QED
    BY ZenonT(30), <1>1, <2>2, <2>3
<1>3. CASE j < i
  <2>1. i - j \in 1..(NUM - 1) /\ x + j \in Int
    BY <1>3, UintType
  <2>2. ((x + j) + (i - j)) % NUM # (x + j) % NUM
    BY ZenonT(30), <2>1, RingApart
  <2>3. (x + j) + (i - j) = x + i
    BY UintType
  <2>. QED
    BY ZenonT(30), <1>1, <2>2, <2>3
<1>. QED
  BY <1>1, <1>2, <1>3, UintType

(* Where the counter hi points. *)
LEMMA EndPlace ==
  ASSUME NEW lo \in Uint16, NEW hi \in Uint16
  PROVE  /\ Count(lo, hi) \in 0..(UINT16 - 1) /\ (Count(lo, hi) = 0 <=> lo = hi)
         /\ hi % NUM = (lo + Count(lo, hi)) % NUM
<1>1. Count(lo, hi) \in 0..(UINT16 - 1) /\ (Count(lo, hi) = 0 <=> lo = hi)
  BY UintType DEF Count, Uint16
<1>2. CASE hi >= lo
  <2>1. lo + Count(lo, hi) = hi
    BY <1>2, UintType DEF Count, Uint16
  <2>. QED
    BY ZenonT(30), <1>1, <2>1
<1>3. CASE ~(hi >= lo)
  <2>1. lo + Count(lo, hi) = hi + UINT16 /\ hi \in Int
    BY <1>3, UintType DEF Count, Uint16
  <2>2. (hi + UINT16) % NUM = hi % NUM
    BY ZenonT(30), <2>1, RingWrap
  <2>. QED
    BY ZenonT(30), <1>1, <2>1, <2>2
<1>. QED
  BY ZenonT(30), <1>2, <1>3

(* An entry is added at hi. *)
LEMMA EntryAdded ==
  ASSUME NEW lo \in Uint16, NEW hi \in Uint16, Count(lo, hi) < NUM
  PROVE  /\ Count(lo, Inc(hi)) = Count(lo, hi) + 1
         /\ hi % NUM \in Desc \ Pending(lo, hi)
         /\ Pending(lo, Inc(hi)) = Pending(lo, hi) \cup {hi % NUM}
<1>. DEFINE n == Count(lo, hi)
<1>0. n \in 0..(UINT16 - 1) /\ hi % NUM = (lo + n) % NUM
  BY ZenonT(30), EndPlace
<1>1. n \in 0..(NUM - 1) /\ hi % NUM = (lo + n) % NUM /\ lo \in Int
  <2>1. n < NUM
    BY ZenonT(30)
  <2>. HIDE DEF n
  <2>. QED
    BY <1>0, <2>1, UintType DEF Uint16
<1>2. Count(lo, Inc(hi)) = n + 1
  BY IncIs, UintType DEF Count, Uint16
<1>. HIDE DEF n
<1>3. 0..((n + 1) - 1) = (0..(n - 1)) \cup {n}
  BY <1>1
<1>4. Pending(lo, hi) = {(lo + j) % NUM : j \in 0..(n - 1)}
  BY ZenonT(30) DEF Pending, n
<1>5. Pending(lo, Inc(hi)) = {(lo + j) % NUM : j \in (0..(n - 1)) \cup {n}}
  BY ZenonT(30), <1>2, <1>3 DEF Pending
<1>6. \A j \in 0..(n - 1) : (lo + j) % NUM # (lo + n) % NUM
  <2>. TAKE j \in 0..(n - 1)
  <2>1. j \in 0..(NUM - 1) /\ j # n
    BY <1>1, UintType
  <2>. QED
    BY ZenonT(30), <1>1, <2>1, Place
<1>7. hi % NUM \in Desc
  BY ZenonT(30), <1>1, Place
<1>. QED
  BY ZenonT(30), <1>1, <1>2, <1>4, <1>5, <1>6, <1>7 DEF n

(* The entry at lo is taken. *)
LEMMA EntryTaken ==
  ASSUME NEW lo \in Uint16, NEW hi \in Uint16, lo # hi, Count(lo, hi) <= NUM
  PROVE  /\ Count(Inc(lo), hi) = Count(lo, hi) - 1
         /\ lo % NUM \in Pending(lo, hi) /\ lo % NUM \in Desc
         /\ Pending(Inc(lo), hi) = Pending(lo, hi) \ {lo % NUM}
<1>. DEFINE n == Count(lo, hi)
<1>1. n \in 1..NUM /\ lo \in Int /\ lo + 1 \in Int
  BY EndPlace, UintType DEF Uint16
<1>2. Count(Inc(lo), hi) = n - 1
  BY IncIs, UintType DEF Count, Uint16
<1>3. ASSUME NEW j \in Int
      PROVE  (Inc(lo) + j) % NUM = (lo + (j + 1)) % NUM
  <2>1. CASE lo + 1 = UINT16
    <3>1. Inc(lo) = 0 /\ lo + (j + 1) = j + UINT16
      BY <2>1, IncIs, UintType DEF Uint16
    <3>. QED
      BY <3>1, RingWrap
  <2>2. CASE lo + 1 # UINT16
    <3>1. Inc(lo) + j = lo + (j + 1)
      BY <1>1, <2>2, IncIs
    <3>. QED
      BY ZenonT(30), <3>1
  <2>. QED
    BY ZenonT(30), <2>1, <2>2
<1>. HIDE DEF n
<1>4. Pending(lo, hi) = {(lo + j) % NUM : j \in 0..(n - 1)}
  BY ZenonT(30) DEF Pending, n
<1>5. Pending(Inc(lo), hi) = {(Inc(lo) + j) % NUM : j \in 0..((n - 1) - 1)}
  BY ZenonT(30), <1>2 DEF Pending
<1>6. Pending(Inc(lo), hi) = {(lo + j) % NUM : j \in 1..(n - 1)}
  <2>1. \A j \in 0..((n - 1) - 1) : j + 1 \in 1..(n - 1) /\ (Inc(lo) + j) % NUM = (lo + (j + 1)) % NUM
    BY <1>1, <1>3
  <2>2. \A j \in 1..(n - 1) : /\ j - 1 \in 0..((n - 1) - 1)
                              /\ (Inc(lo) + (j - 1)) % NUM = (lo + j) % NUM
    <3>. TAKE j \in 1..(n - 1)
    <3>1. j - 1 \in 0..((n - 1) - 1) /\ j - 1 \in Int /\ lo + ((j - 1) + 1) = lo + j
      BY <1>1
    <3>2. (Inc(lo) + (j - 1)) % NUM = (lo + ((j - 1) + 1)) % NUM
      BY ZenonT(30), <1>3, <3>1
    <3>. QED
      BY ZenonT(30), <3>1, <3>2
  <2>. QED
    BY <1>5, <2>1, <2>2
<1>7. 0..(n - 1) = {0} \cup (1..(n - 1)) /\ lo + 0 = lo
  BY <1>1
<1>8. \A j \in 1..(n - 1) : (lo + j) % NUM # (lo + 0) % NUM
  <2>. TAKE j \in 1..(n - 1)
  <2>1. j \in 0..(NUM - 1) /\ j # 0 /\ 0 \in 0..(NUM - 1)
    BY <1>1, UintType
  <2>. QED
    BY ZenonT(30), <1>1, <2>1, Place
<1>9. lo % NUM \in Desc
  <2>1. 0 \in 0..(NUM - 1)
    BY UintType
  <2>2. (lo + 0) % NUM \in Desc
    BY ZenonT(30), <1>1, <2>1, Place
  <2>. QED
    BY ZenonT(30), <1>7, <2>2
<1>. QED
  BY <1>2, <1>4, <1>6, <1>7, <1>8, <1>9 DEF n

(* A ring has no more entries than there are descriptors to be in it. *)
LEMMA EntriesBound ==
  ASSUME NEW lo \in Uint16, NEW hi \in Uint16, Count(lo, hi) <= NUM,
         NEW f, NEW S, IsFiniteSet(S),
         \A i \in Pending(lo, hi) : f[i] \in S /\ \A j \in Pending(lo, hi) : f[i] = f[j] => i = j
  PROVE  Count(lo, hi) <= Cardinality(S)
<1>. DEFINE n == Count(lo, hi)
            g == [j \in 0..(n - 1) |-> f[(lo + j) % NUM]]
<1>1. n \in 0..NUM /\ lo \in Int
  BY EndPlace, UintType DEF Uint16
<1>2. \A j \in 0..(n - 1) : (lo + j) % NUM \in Pending(lo, hi)
  BY ZenonT(30) DEF Pending
<1>. HIDE DEF n
<1>3. \A j \in 0..(n - 1) : g[j] = f[(lo + j) % NUM] /\ g[j] \in S
  BY ZenonT(30), <1>2
<1>4. \A i, j \in 0..(n - 1) : g[i] = g[j] => i = j
  <2>. SUFFICES ASSUME NEW i \in 0..(n - 1), NEW j \in 0..(n - 1), g[i] = g[j] PROVE i = j
    BY ZenonT(30)
  <2>1. (lo + i) % NUM = (lo + j) % NUM
    BY ZenonT(30), <1>2, <1>3
  <2>2. i \in 0..(NUM - 1) /\ j \in 0..(NUM - 1)
    BY <1>1, UintType
  <2>. QED
    BY ZenonT(30), <1>1, <2>1, <2>2, Place
<1>5. g \in Injection(0..(n - 1), S)
  BY ZenonT(30), <1>3, <1>4 DEF Injection, IsInjective
<1>6. Cardinality(0..(n - 1)) <= Cardinality(S)
  <2>. HIDE DEF g
  <2>. QED
    BY ZenonT(30), <1>5, FS_Injection
<1>7. Cardinality(0..(n - 1)) = n
  BY <1>1, FS_Interval, UintType
<1>. QED
  BY ZenonT(30), <1>6, <1>7 DEF n

-----------------------------------------------------------------------------
(* The descriptors that alloc3_desc() takes. *)

LEMMA MinIs ==
  ASSUME NEW T \in SUBSET Nat, T # {}
  PROVE  Min(T) \in T
<1>. DEFINE R == OpToRel(<, Nat)
<1>1. IsWellFoundedOn(R, Nat)
  BY Zenon, NatLessThanWellFounded
<1>2. \A x, y \in Nat : y < x => <<y, x>> \in R
  BY ZenonT(30) DEF OpToRel
<1>. HIDE DEF R
<1>3. PICK x \in T : \A y \in T : ~(<<y, x>> \in R)
  BY ZenonT(30), <1>1, WFMin
<1>4. \A y \in T : ~(y < x)
  BY ZenonT(30), <1>2, <1>3
<1>5. \A y \in T : x <= y
  BY <1>4
<1>. QED
  BY ZenonT(30), <1>5 DEF Min

LEMMA Alloc3Is ==
  ASSUME DiskTypeOK, Cardinality(free) >= 3
  PROVE  /\ {Alloc3[1], Alloc3[2], Alloc3[3]} \subseteq free
         /\ Alloc3[1] # Alloc3[2] /\ Alloc3[1] # Alloc3[3] /\ Alloc3[2] # Alloc3[3]
<1>. DEFINE i0 == Min(free)
            i1 == Min(free \ {i0})
            i2 == Min(free \ {i0, i1})
<1>1. free \in SUBSET Nat /\ IsFiniteSet(free) /\ Cardinality(free) \in Nat
  <2>1. IsFiniteSet(Desc) /\ Desc \subseteq Nat
    BY FS_Interval, UintType DEF Desc
  <2>2. IsFiniteSet(free)
    BY ZenonT(30), <2>1, FS_Subset DEF DiskTypeOK
  <2>. QED
    BY ZenonT(30), <2>1, <2>2, FS_CardinalityType DEF DiskTypeOK
<1>2. i0 \in free
  BY <1>1, MinIs, FS_EmptySet
<1>. HIDE DEF i0
<1>3. IsFiniteSet(free \ {i0}) /\ Cardinality(free \ {i0}) = Cardinality(free) - 1
  BY ZenonT(30), <1>1, <1>2, FS_RemoveElement
<1>4. free \ {i0} # {}
  BY <1>1, <1>3, FS_EmptySet
<1>5. i1 \in free \ {i0}
  BY ZenonT(30), <1>1, <1>4, MinIs
<1>. HIDE DEF i1
<1>6. Cardinality((free \ {i0}) \ {i1}) = Cardinality(free \ {i0}) - 1
  BY ZenonT(30), <1>3, <1>5, FS_RemoveElement
<1>7. free \ {i0, i1} = (free \ {i0}) \ {i1}
  BY ZenonT(30)
<1>8. free \ {i0, i1} # {}
  BY <1>1, <1>3, <1>6, <1>7, FS_EmptySet
<1>9. i2 \in free \ {i0, i1}
  BY ZenonT(30), <1>1, <1>8, MinIs
<1>10. Alloc3[1] = i0 /\ Alloc3[2] = i1 /\ Alloc3[3] = i2
  BY ZenonT(30) DEF Alloc3, i0, i1
<1>. HIDE DEF i2
<1>. QED
  BY ZenonT(30), <1>2, <1>5, <1>9, <1>10

-----------------------------------------------------------------------------
(* Types. *)

LEMMA WakeType ==
  ASSUME DiskTypeOK, NEW b \in Buf, NEW l \in PC, WakeFree(b, l) \/ Goto(b, l)
  PROVE  pc' \in [Buf -> PC]
  BY ZenonT(30) DEF DiskTypeOK, WakeFree, Goto, PC

LEMMA CallTypes ==
  ASSUME DiskTypeOK, NEW b \in Buf
  PROVE  RwCall(b) \/ RwLock(b) \/ RwSleepFree(b) \/ RwPublish(b) \/ RwSleep(b) => DiskTypeOK'
<1>. USE DEF descs, rings, device
<1>1. ASSUME RwCall(b) PROVE DiskTypeOK'
  <2>1. pc' \in [Buf -> PC]
    BY ZenonT(30), <1>1, WakeType DEF RwCall, PC
  <2>2. write' \in [Buf -> BOOLEAN]
    BY ZenonT(30), <1>1 DEF RwCall, DiskTypeOK
  <2>3. data' \in [Buf -> Value]
    BY ZenonT(30), <1>1 DEF RwCall, DiskTypeOK
  <2>. QED
    BY ZenonT(30), <1>1, <2>1, <2>2, <2>3 DEF RwCall, DiskTypeOK
<1>2. ASSUME RwLock(b) PROVE DiskTypeOK'
  <2>1. pc' \in [Buf -> PC]
    BY ZenonT(30), <1>2, WakeType DEF RwLock, PC
  <2>. QED
    BY ZenonT(30), <1>2, <2>1 DEF RwLock, DiskTypeOK
<1>3. ASSUME RwSleepFree(b) PROVE DiskTypeOK'
  <2>1. pc' \in [Buf -> PC]
    BY ZenonT(30), <1>3, WakeType DEF RwSleepFree, PC
  <2>. QED
    BY ZenonT(30), <1>3, <2>1 DEF RwSleepFree, DiskTypeOK
<1>4. ASSUME RwPublish(b) PROVE DiskTypeOK'
  <2>1. pc' \in [Buf -> PC]
    BY ZenonT(30), <1>4, WakeType DEF RwPublish, PC
  <2>2. availidx' \in Uint16
    BY ZenonT(30), <1>4, IncIs DEF RwPublish, DiskTypeOK
  <2>. QED
    BY ZenonT(30), <1>4, <2>1, <2>2 DEF RwPublish, DiskTypeOK
<1>5. ASSUME RwSleep(b) PROVE DiskTypeOK'
  <2>1. pc' \in [Buf -> PC]
    BY ZenonT(30), <1>5, WakeType DEF RwSleep, PC
  <2>. QED
    BY ZenonT(30), <1>5, <2>1 DEF RwSleep, DiskTypeOK
<1>. QED
  BY ZenonT(30), <1>1, <1>2, <1>3, <1>4, <1>5

LEMMA FormatType ==
  ASSUME DiskTypeOK, NEW b \in Buf, RwFormat(b)
  PROVE  DiskTypeOK'
<1>. DEFINE i0 == Alloc3[1]
            i1 == Alloc3[2]
            i2 == Alloc3[3]
<1>1. i0 \in Desc /\ i1 \in Desc /\ i2 \in Desc
  BY ZenonT(30), Alloc3Is DEF RwFormat, DiskTypeOK
<1>2. /\ free' = free \ Taken(Alloc3)
      /\ ops' = [ops EXCEPT ![i0] = [write |-> write[b], sector |-> b]]
      /\ addr' = [addr EXCEPT ![i1] = b, ![i2] = i0]
      /\ next' = [next EXCEPT ![i0] = i1, ![i1] = i2, ![i2] = None]
      /\ status' = [status EXCEPT ![i0] = FALSE] /\ infob' = [infob EXCEPT ![i0] = b]
      /\ idx' = [idx EXCEPT ![b] = i0] /\ avail' = [avail EXCEPT ![availidx % NUM] = i0]
      /\ bdisk' = [bdisk EXCEPT ![b] = TRUE]
      /\ UNCHANGED <<availidx, used, usedidx, used_idx, seen, inflight, isr, disk, intr, write, data>>
  BY ZenonT(30) DEF RwFormat, device
<1>3. pc' \in [Buf -> PC]
  BY ZenonT(30), WakeType DEF RwFormat, PC
<1>. HIDE DEF i0, i1, i2
<1>4. next' \in [Desc -> Desc \cup {None}] /\ free' \in SUBSET Desc
  BY ZenonT(30), <1>1, <1>2 DEF DiskTypeOK
<1>5. status' \in [Desc -> BOOLEAN] /\ avail' \in [Desc -> Desc]
  BY ZenonT(30), <1>1, <1>2 DEF DiskTypeOK
<1>6. ops' = [i \in Desc |-> ops'[i]] /\ infob' = [i \in Desc |-> infob'[i]] /\ addr' = [i \in Desc |-> addr'[i]]
  BY ZenonT(30), <1>2 DEF DiskTypeOK
<1>7. idx' \in [Buf -> Desc] /\ bdisk' \in [Buf -> BOOLEAN]
  BY ZenonT(30), <1>1, <1>2 DEF DiskTypeOK
<1>. QED
  BY ZenonT(30), <1>2, <1>3, <1>4, <1>5, <1>6, <1>7 DEF DiskTypeOK

LEMMA DeviceTypes ==
  ASSUME DiskTypeOK
  PROVE  /\ DevFetch => DiskTypeOK'
         /\ IntrAck \/ IntrExit \/ IntrRelease => DiskTypeOK'
<1>. USE DEF descs, rings, device
<1>1. ASSUME DevFetch PROVE DiskTypeOK'
  <2>1. seen \in Uint16
    BY ZenonT(30) DEF DiskTypeOK
  <2>0. seen % NUM \in Desc /\ 0 \in Desc
    BY <2>1, UintType, DivMod DEF Desc, Uint16
  <2>2. seen' \in Uint16
    BY ZenonT(30), <1>1, <2>1, IncIs DEF DevFetch
  <2>3. avail' \in [Desc -> Desc] /\ inflight' \in SUBSET Desc
    BY ZenonT(30), <1>1, <2>0 DEF DevFetch, DiskTypeOK
  <2>. QED
    BY <1>1, <2>2, <2>3 DEF DevFetch, DiskTypeOK
<1>2. ASSUME IntrAck \/ IntrExit \/ IntrRelease PROVE DiskTypeOK'
  BY ZenonT(30), <1>2 DEF IntrAck, IntrExit, IntrRelease, DiskTypeOK
<1>. QED
  BY ZenonT(30), <1>1, <1>2

-----------------------------------------------------------------------------
(* What the device, the interrupt handler and the caller do to a request. *)

LEMMA Heads ==
  ASSUME IInv, NEW b \in Buf, NEW c \in Buf, HasChain(b), HasChain(c), idx[b] = idx[c]
  PROVE  b = c
  BY ZenonT(30) DEF IInv, ChainInv, Own

LEMMA RequestIs ==
  ASSUME IInv, NEW b \in Buf, HasChain(b)
  PROVE  /\ idx[b] \in Desc /\ infob[idx[b]] = b /\ addr[next[idx[b]]] = b
         /\ addr[next[next[idx[b]]]] = idx[b]
         /\ ops[idx[b]].sector = b /\ ops[idx[b]].write = write[b]
<1>1. ops[idx[b]] = [write |-> write[b], sector |-> b]
  BY ZenonT(30) DEF IInv, ChainInv
<1>2. idx[b] \in Desc
  BY ZenonT(30) DEF IInv, DiskTypeOK
<1>3. infob[idx[b]] = b /\ addr[next[idx[b]]] = b /\ addr[next[next[idx[b]]]] = idx[b]
  BY ZenonT(30) DEF IInv, ChainInv, Data, Stat
<1>. QED
  BY <1>1, <1>2, <1>3

LEMMA DoIs ==
  ASSUME IInv, NEW id \in Desc, DevDo(id)
  PROVE  \E b \in Buf :
           /\ AtDevice(b) /\ id = idx[b] /\ id \in inflight
           /\ disk' = IF write[b] THEN [disk EXCEPT ![b] = data[b]] ELSE disk
           /\ data' = IF write[b] THEN data ELSE [data EXCEPT ![b] = disk[b]]
           /\ status' = [status EXCEPT ![id] = TRUE]
<1>1. PICK b \in Buf : AtDevice(b) /\ id = idx[b]
  BY ZenonT(30) DEF DevDo, IInv, OfferedInv
<1>2. /\ addr[next[id]] = b /\ addr[next[next[id]]] = id
      /\ ops[id].sector = b /\ ops[id].write = write[b]
  BY ZenonT(30), <1>1, RequestIs DEF AtDevice, HasChain
<1>. QED
  BY ZenonT(30), <1>1, <1>2 DEF DevDo

LEMMA DoType ==
  ASSUME IInv, NEW id \in Desc, DevDo(id)
  PROVE  DiskTypeOK'
<1>1. PICK b \in Buf :
        /\ disk' = IF write[b] THEN [disk EXCEPT ![b] = data[b]] ELSE disk
        /\ data' = IF write[b] THEN data ELSE [data EXCEPT ![b] = disk[b]]
        /\ status' = [status EXCEPT ![id] = TRUE]
  BY ZenonT(30), DoIs
<1>2. disk' \in [Buf -> Value] /\ data' \in [Buf -> Value]
  BY ZenonT(30), <1>1 DEF IInv, DiskTypeOK
<1>3. status' \in [Desc -> BOOLEAN]
  BY ZenonT(30), <1>1 DEF IInv, DiskTypeOK
<1>4. used' \in [Desc -> Desc] /\ inflight' \in SUBSET Desc
  BY ZenonT(30) DEF DevDo, IInv, DiskTypeOK
<1>5. usedidx' \in Uint16
  BY ZenonT(30), IncIs DEF DevDo, IInv, DiskTypeOK
<1>6. isr' \in BOOLEAN /\ UNCHANGED <<descs, avail, availidx, used_idx, seen, lock, intr, pc, idx, bdisk, write>>
  BY ZenonT(30) DEF DevDo
<1>. QED
  BY ZenonT(30), <1>2, <1>3, <1>4, <1>5, <1>6 DEF IInv, DiskTypeOK, descs

LEMMA EntryIs ==
  ASSUME IInv, IntrEntry
  PROVE  \E b \in Buf :
           /\ Completed(b) /\ used[used_idx % NUM] = idx[b]
           /\ bdisk' = [bdisk EXCEPT ![b] = FALSE]
           /\ pc' = [pc EXCEPT ![b] = IF @ = "bsleep" THEN "relock" ELSE @]
<1>1. used_idx % NUM \in Posted
  BY ZenonT(30), EntryTaken DEF IntrEntry, IInv, PostedInv, DiskTypeOK, Posted
<1>2. PICK b \in Buf : Completed(b) /\ used[used_idx % NUM] = idx[b]
  BY ZenonT(30), <1>1 DEF IInv, PostedInv
<1>3. infob[idx[b]] = b
  BY ZenonT(30), <1>2, RequestIs DEF Completed, HasChain
<1>. QED
  BY ZenonT(30), <1>2, <1>3 DEF IntrEntry

LEMMA EntryType ==
  ASSUME IInv, IntrEntry
  PROVE  DiskTypeOK'
<1>1. PICK b \in Buf : /\ bdisk' = [bdisk EXCEPT ![b] = FALSE]
                       /\ pc' = [pc EXCEPT ![b] = IF @ = "bsleep" THEN "relock" ELSE @]
  BY ZenonT(30), EntryIs
<1>2. bdisk' \in [Buf -> BOOLEAN] /\ pc' \in [Buf -> PC]
  BY ZenonT(30), <1>1 DEF IInv, DiskTypeOK, PC
<1>3. used' \in [Desc -> Desc]
  <2>1. 0 \in Desc
    BY UintType DEF Desc
  <2>. QED
    BY ZenonT(30), <2>1 DEF IntrEntry, IInv, DiskTypeOK
<1>4. used_idx' \in Uint16
  BY ZenonT(30), IncIs DEF IntrEntry, IInv, DiskTypeOK
<1>5. UNCHANGED <<free, addr, next, ops, infob, status, avail, availidx, usedidx, seen, inflight, isr, disk,
                  intr, idx, write, data>>
  BY ZenonT(30) DEF IntrEntry, descs, device
<1>. QED
  BY ZenonT(30), <1>2, <1>3, <1>4, <1>5 DEF IInv, DiskTypeOK

LEMMA ChainIs ==
  ASSUME IInv, NEW b \in Buf, HasChain(b)
  PROVE  Chain(idx[b]) = Own(b) /\ Own(b) \subseteq Desc
<1>1. idx[b] \in Desc /\ Data(b) \in Desc /\ Stat(b) \in Desc
  BY ZenonT(30) DEF IInv, DiskTypeOK, ChainInv
<1>2. None \notin Desc
  BY ZenonT(30), NoneAssumption DEF Desc
<1>. QED
  BY ZenonT(30), <1>1, <1>2 DEF Chain, Own, Data, Stat

LEMMA DoneType ==
  ASSUME IInv, NEW b \in Buf, RwDone(b)
  PROVE  DiskTypeOK'
<1>1. Chain(idx[b]) \subseteq Desc
  BY ZenonT(30), ChainIs DEF RwDone, HasChain, Submitted
<1>2. pc' \in [Buf -> PC]
  BY ZenonT(30), WakeType DEF RwDone, PC, IInv
<1>3. free' \in SUBSET Desc /\ next' \in [Desc -> Desc \cup {None}] /\ addr' = [i \in Desc |-> addr'[i]]
  BY ZenonT(30), <1>1 DEF RwDone, IInv, DiskTypeOK
<1>4. infob' = [i \in Desc |-> infob'[i]] /\ ops' = [i \in Desc |-> ops'[i]]
  BY ZenonT(30) DEF RwDone, IInv, DiskTypeOK
<1>5. idx' \in [Buf -> Desc] /\ write' \in [Buf -> BOOLEAN]
  <2>1. 0 \in Desc
    BY UintType DEF Desc
  <2>. QED
    BY ZenonT(30), <2>1 DEF RwDone, IInv, DiskTypeOK
<1>. QED
  BY ZenonT(30), <1>2, <1>3, <1>4, <1>5 DEF RwDone, IInv, DiskTypeOK, rings, device

-----------------------------------------------------------------------------
(* The steps that leave a part of the invariant alone. *)

LEMMA ChainKept ==
  ASSUME IInv, UNCHANGED <<free, addr, next, ops, infob, idx>>,
         \A b \in Buf : HasChain(b)' => HasChain(b) /\ write'[b] = write[b]
  PROVE  ChainInv'
<1>1. \A b \in Buf : Data(b)' = Data(b) /\ Stat(b)' = Stat(b) /\ Own(b)' = Own(b)
  BY ZenonT(30) DEF Data, Stat, Own
<1>. QED
  BY <1>1 DEF IInv, ChainInv

LEMMA OfferedKept ==
  ASSUME IInv, UNCHANGED <<avail, availidx, seen, inflight>>,
         \A b \in Buf : AtDevice(b) => AtDevice(b)' /\ idx'[b] = idx[b],
         \A b \in Buf : pc'[b] = "publish" => pc[b] = "publish" /\ idx'[b] = idx[b]
  PROVE  OfferedInv'
<1>1. Offered' = Offered /\ Count(seen, availidx)' = Count(seen, availidx)
  BY ZenonT(30) DEF Offered, Pending, Count
<1>2. OfferedInv
  BY ZenonT(30) DEF IInv
<1>3. \A i \in Offered : \E b \in Buf : AtDevice(b)' /\ avail[i] = idx'[b]
  BY <1>2 DEF OfferedInv
<1>4. \A id \in inflight : \E b \in Buf : AtDevice(b)' /\ id = idx'[b]
  BY <1>2 DEF OfferedInv
<1>. QED
  BY <1>1, <1>2, <1>3, <1>4 DEF OfferedInv

LEMMA PostedKept ==
  ASSUME IInv, UNCHANGED <<used, usedidx, used_idx>>,
         \A b \in Buf : (Completed(b) <=> Completed(b)') /\ (Completed(b) => idx'[b] = idx[b])
  PROVE  PostedInv'
<1>1. Posted' = Posted /\ Count(used_idx, usedidx)' = Count(used_idx, usedidx)
  BY ZenonT(30) DEF Posted, Pending, Count
<1>2. PostedInv
  BY ZenonT(30) DEF IInv
<1>3. \A i \in Posted : \E b \in Buf : Completed(b)' /\ used[i] = idx'[b]
  BY <1>2 DEF PostedInv
<1>4. \A b \in Buf : Completed(b)' => \E i \in Posted : used[i] = idx'[b]
  BY ZenonT(30), <1>2 DEF PostedInv
<1>. QED
  BY <1>1, <1>2, <1>3, <1>4 DEF PostedInv

(* Steps that change nothing of a request but where its caller is. *)
LEMMA Calm ==
  ASSUME IInv, UNCHANGED <<free, addr, next, ops, infob, status, rings, seen, inflight, idx, bdisk>>,
         \A b \in Buf :
           /\ Submitted(b)' <=> Submitted(b)
           /\ pc'[b] = "publish" <=> pc[b] = "publish"
           /\ pc'[b] = "bsleep" => pc[b] = "bsleep" \/ bdisk[b]
           /\ HasChain(b) => write'[b] = write[b]
  PROVE  ChainInv' /\ OfferedInv' /\ PostedInv' /\ CallerInv'
<1>. USE DEF rings
<1>1. \A b \in Buf : (AtDevice(b)' <=> AtDevice(b)) /\ (Completed(b)' <=> Completed(b))
  BY ZenonT(30) DEF AtDevice, Completed
<1>2. \A b \in Buf : HasChain(b)' <=> HasChain(b)
  BY ZenonT(30) DEF HasChain
<1>3. CallerInv'
  BY ZenonT(30) DEF IInv, CallerInv
<1>. QED
  BY ZenonT(30), <1>1, <1>2, <1>3, ChainKept, OfferedKept, PostedKept

LEMMA GotoIs ==
  ASSUME IInv, NEW b \in Buf, NEW l
  PROVE  /\ Goto(b, l) => \A c \in Buf : pc'[c] = IF c = b THEN l ELSE pc[c]
         /\ WakeFree(b, l) =>
              \A c \in Buf : pc'[c] = IF c = b THEN l ELSE IF pc[c] = "fsleep" THEN "lock" ELSE pc[c]
  BY ZenonT(30) DEF Goto, WakeFree, IInv, DiskTypeOK

LEMMA CallKeeps ==
  ASSUME IInv, NEW b \in Buf
  PROVE  RwCall(b) \/ RwLock(b) \/ RwSleepFree(b) \/ RwSleep(b) => IInv'
<1>. USE DEF descs, device
<1>1. ASSUME RwCall(b) PROVE IInv'
  <2>1. \A c \in Buf : pc'[c] = IF c = b THEN "lock" ELSE pc[c]
    BY ZenonT(30), <1>1, GotoIs DEF RwCall
  <2>2. LockInv'
    BY ZenonT(30), <1>1, <2>1 DEF RwCall, IInv, LockInv
  <2>3. \A c \in Buf : c # b => write'[c] = write[c]
    BY ZenonT(30), <1>1 DEF RwCall, IInv, DiskTypeOK
  <2>4. ChainInv' /\ OfferedInv' /\ PostedInv' /\ CallerInv'
    BY ZenonT(30), <1>1, <2>1, <2>3, Calm DEF RwCall, Submitted, HasChain
  <2>. QED
    BY ZenonT(30), <1>1, <2>2, <2>4, CallTypes DEF RwCall, IInv, IntrInv, rings
<1>2. ASSUME RwLock(b) PROVE IInv'
  <2>1. \A c \in Buf : pc'[c] = IF c = b THEN (IF pc[b] = "lock" THEN "alloc" ELSE "wait") ELSE pc[c]
    BY ZenonT(30), <1>2, GotoIs DEF RwLock
  <2>2. LockInv'
    BY ZenonT(30), <1>2, <2>1, NoneAssumption DEF RwLock, IInv, LockInv
  <2>3. ChainInv' /\ OfferedInv' /\ PostedInv' /\ CallerInv'
    BY ZenonT(30), <1>2, <2>1, Calm DEF RwLock, Submitted
  <2>. QED
    BY ZenonT(30), <1>2, <2>2, <2>3, CallTypes DEF RwLock, IInv, IntrInv, rings
<1>3. ASSUME RwSleepFree(b) PROVE IInv'
  <2>1. \A c \in Buf : IF c = b THEN pc'[c] = "fsleep"
                       ELSE pc'[c] = pc[c] \/ (pc[c] = "fsleep" /\ pc'[c] = "lock")
    BY ZenonT(30), <1>3, GotoIs DEF RwSleepFree
  <2>2. LockInv'
    BY ZenonT(30), <1>3, <2>1, NoneAssumption DEF RwSleepFree, IInv, LockInv
  <2>3. ChainInv' /\ OfferedInv' /\ PostedInv' /\ CallerInv'
    BY ZenonT(30), <1>3, <2>1, Calm DEF RwSleepFree, Submitted
  <2>. QED
    BY ZenonT(30), <1>3, <2>2, <2>3, CallTypes DEF RwSleepFree, IInv, IntrInv, rings
<1>4. ASSUME RwSleep(b) PROVE IInv'
  <2>1. \A c \in Buf : pc'[c] = IF c = b THEN "bsleep" ELSE pc[c]
    BY ZenonT(30), <1>4, GotoIs DEF RwSleep
  <2>2. LockInv'
    BY ZenonT(30), <1>4, <2>1, NoneAssumption DEF RwSleep, IInv, LockInv
  <2>3. ChainInv' /\ OfferedInv' /\ PostedInv' /\ CallerInv'
    BY ZenonT(30), <1>4, <2>1, Calm DEF RwSleep, Submitted
  <2>. QED
    BY ZenonT(30), <1>4, <2>2, <2>3, CallTypes DEF RwSleep, IInv, IntrInv, rings
<1>. QED
  BY ZenonT(30), <1>1, <1>2, <1>3, <1>4

LEMMA HandlerKeeps ==
  ASSUME IInv, IntrAck \/ IntrExit \/ IntrRelease
  PROVE  IInv'
<1>. USE DEF descs, device, rings, IntrAck, IntrExit, IntrRelease
<1>1. UNCHANGED <<free, addr, next, ops, infob, status, rings, seen, inflight, idx, bdisk, pc, write>>
  BY ZenonT(30)
<1>2. ChainInv' /\ OfferedInv' /\ PostedInv' /\ CallerInv'
  BY ZenonT(30), <1>1, Calm DEF Submitted
<1>3. LockInv'
  BY ZenonT(30), <1>1, NoneAssumption DEF IInv, LockInv
<1>4. IntrInv'
  BY ZenonT(30), <1>1 DEF IInv, IntrInv
<1>. QED
  BY ZenonT(30), <1>2, <1>3, <1>4, DeviceTypes DEF IInv

LEMMA OfferedPlaces ==
  ASSUME IInv
  PROVE  Offered \subseteq Desc /\ Posted \subseteq Desc
<1>1. \A x \in Nat : x % NUM \in Desc
  BY UintType DEF Desc
<1>2. seen \in Nat /\ used_idx \in Nat
  BY UintType DEF IInv, DiskTypeOK, Uint16
<1>. QED
  BY <1>1, <1>2 DEF Offered, Posted, Pending

(* The request is offered to the device. *)
LEMMA PublishKeeps ==
  ASSUME IInv, NEW b \in Buf, RwPublish(b)
  PROVE  IInv'
<1>1. pc[b] = "publish" /\ lock = b
  BY ZenonT(30) DEF RwPublish, IInv, LockInv
<1>2. \A c \in Buf : pc'[c] = IF c = b THEN "wait" ELSE pc[c]
  BY ZenonT(30), GotoIs DEF RwPublish
<1>3. /\ availidx' = Inc(availidx)
      /\ UNCHANGED <<free, addr, next, ops, infob, status, avail, used, usedidx, used_idx, seen, inflight, isr,
                      lock, intr, idx, bdisk, write>>
  BY ZenonT(30) DEF RwPublish, descs, device
<1>4. bdisk[b] /\ ~status[idx[b]]
  BY ZenonT(30), <1>1 DEF IInv, CallerInv
<1>5. LockInv'
  BY ZenonT(30), <1>1, <1>2, <1>3 DEF IInv, LockInv
<1>6. \A c \in Buf : /\ Submitted(c)' <=> Submitted(c) \/ c = b
                     /\ HasChain(c)' <=> HasChain(c)
                     /\ Completed(c) <=> Completed(c)'
                     /\ AtDevice(c)' <=> AtDevice(c) \/ c = b
  BY ZenonT(30), <1>1, <1>2, <1>3, <1>4 DEF Submitted, HasChain, Completed, AtDevice
<1>7. ChainInv'
  BY ZenonT(30), <1>3, <1>6, ChainKept
<1>8. PostedInv'
  BY ZenonT(30), <1>3, <1>6, PostedKept
<1>9. CallerInv'
  BY ZenonT(30), <1>1, <1>2, <1>3, <1>4, <1>6 DEF IInv, CallerInv, Submitted
<1>10. OfferedInv'
  <2>1. avail[availidx % NUM] = idx[b] /\ Count(seen, availidx) < NUM
    BY ZenonT(30), <1>1 DEF IInv, OfferedInv
  <2>2. seen \in Uint16 /\ availidx \in Uint16
    BY ZenonT(30) DEF IInv, DiskTypeOK
  <2>3. /\ Count(seen, availidx)' = Count(seen, availidx) + 1
        /\ Offered' = Offered \cup {availidx % NUM}
    BY <1>3, <2>1, <2>2, EntryAdded DEF Offered, Count, Pending
  <2>4. Count(seen, availidx)' <= NUM
    BY <2>1, <2>2, <2>3, EndPlace, UintType
  <2>5. \A c \in Buf : pc'[c] # "publish"
    BY ZenonT(30), <1>1, <1>2 DEF IInv, LockInv
  <2>6. idx[b] \notin inflight /\ \A i \in Offered : avail[i] # idx[b]
    <3>1. \A c \in Buf : AtDevice(c) => idx[c] # idx[b]
      BY ZenonT(30), <1>1, Heads DEF AtDevice, HasChain, Submitted
    <3>. QED
      BY <3>1 DEF IInv, OfferedInv
  <2>7. \A i \in Offered' : \E c \in Buf : AtDevice(c)' /\ avail'[i] = idx'[c]
    <3>1. \A i \in Offered : \E c \in Buf : AtDevice(c) /\ avail[i] = idx[c]
      BY ZenonT(30) DEF IInv, OfferedInv
    <3>. QED
      BY ZenonT(30), <1>3, <1>6, <2>1, <2>3, <3>1
  <2>8. \A id \in inflight' : \E c \in Buf : AtDevice(c)' /\ id = idx'[c]
    <3>1. \A id \in inflight : \E c \in Buf : AtDevice(c) /\ id = idx[c]
      BY ZenonT(30) DEF IInv, OfferedInv
    <3>. QED
      BY ZenonT(30), <1>3, <1>6, <3>1
  <2>9. \A i \in Offered' : avail'[i] \notin inflight' /\ \A j \in Offered' : avail'[i] = avail'[j] => i = j
    <3>1. \A i \in Offered : avail[i] \notin inflight /\ \A j \in Offered : avail[i] = avail[j] => i = j
      BY ZenonT(30) DEF IInv, OfferedInv
    <3>. QED
      BY <1>3, <2>1, <2>3, <2>6, <3>1
  <2>. QED
    BY ZenonT(30), <2>4, <2>5, <2>7, <2>8, <2>9 DEF OfferedInv
<1>11. IntrInv'
  BY ZenonT(30), <1>3 DEF IInv, IntrInv
<1>. QED
  BY ZenonT(30), <1>5, <1>7, <1>8, <1>9, <1>10, <1>11, CallTypes DEF IInv

(* The interrupt handler takes an entry of the used ring and wakes its caller. *)
LEMMA EntryKeeps ==
  ASSUME IInv, IntrEntry
  PROVE  IInv'
<1>. DEFINE u == used_idx % NUM
<1>1. PICK b \in Buf : /\ Completed(b) /\ used[u] = idx[b] /\ bdisk' = [bdisk EXCEPT ![b] = FALSE]
                       /\ pc' = [pc EXCEPT ![b] = IF @ = "bsleep" THEN "relock" ELSE @]
  BY ZenonT(30), EntryIs
<1>2. /\ intr = "loop" /\ used_idx # usedidx /\ used' = [used EXCEPT ![u] = 0] /\ used_idx' = Inc(used_idx)
      /\ UNCHANGED <<free, addr, next, ops, infob, status, avail, availidx, usedidx, seen, inflight, isr, lock, intr,
                      idx, write>>
  BY ZenonT(30) DEF IntrEntry, descs, device
<1>3. \A c \in Buf : /\ pc'[c] = IF c = b /\ pc[c] = "bsleep" THEN "relock" ELSE pc[c]
                     /\ bdisk'[c] <=> bdisk[c] /\ c # b
  BY ZenonT(30), <1>1 DEF IInv, DiskTypeOK
<1>4. \A c \in Buf : (Submitted(c)' <=> Submitted(c)) /\ (HasChain(c)' <=> HasChain(c))
  BY ZenonT(30), <1>3 DEF Submitted, HasChain
<1>5. \A c \in Buf : (AtDevice(c)' <=> AtDevice(c)) /\ (Completed(c)' <=> Completed(c) /\ c # b)
  BY ZenonT(30), <1>2, <1>3, <1>4 DEF AtDevice, Completed
<1>6. ChainInv'
  BY ZenonT(30), <1>2, <1>4, ChainKept
<1>7. OfferedInv'
  BY ZenonT(30), <1>2, <1>3, <1>5, OfferedKept
<1>8. LockInv' /\ IntrInv'
  BY ZenonT(30), <1>2, <1>3 DEF IInv, LockInv, IntrInv
<1>9. CallerInv'
  BY <1>1, <1>2, <1>3, <1>4 DEF IInv, CallerInv, Completed, Submitted
<1>10. PostedInv'
  <2>1. used_idx \in Uint16 /\ usedidx \in Uint16 /\ Count(used_idx, usedidx) <= NUM
    BY ZenonT(30) DEF IInv, DiskTypeOK, PostedInv
  <2>2. /\ Count(used_idx, usedidx)' = Count(used_idx, usedidx) - 1
        /\ u \in Posted /\ Posted' = Posted \ {u}
    BY <1>2, <2>1, EntryTaken DEF Posted, Count, Pending
  <2>3. Count(used_idx, usedidx)' <= NUM
    BY <2>1, <2>2, EndPlace, UintType
  <2>. HIDE DEF u
  <2>4. \A i \in Posted' : used'[i] = used[i]
    BY ZenonT(30), <1>2, <2>2, OfferedPlaces DEF IInv, DiskTypeOK
  <2>5. \A i \in Posted : /\ \E c \in Buf : Completed(c) /\ used[i] = idx[c]
                          /\ \A j \in Posted : used[i] = used[j] => i = j
    BY ZenonT(30) DEF IInv, PostedInv
  <2>6. \A i \in Posted' : /\ \E c \in Buf : Completed(c)' /\ used'[i] = idx'[c]
                           /\ \A j \in Posted' : used'[i] = used'[j] => i = j
    BY <1>1, <1>2, <1>5, <2>2, <2>4, <2>5
  <2>7. ASSUME NEW c \in Buf, Completed(c)' PROVE \E i \in Posted' : used'[i] = idx'[c]
    <3>1. Completed(c) /\ c # b
      BY ZenonT(30), <1>5, <2>7
    <3>2. PICK i \in Posted : used[i] = idx[c]
      BY ZenonT(30), <3>1 DEF IInv, PostedInv
    <3>3. idx[c] # idx[b]
      BY ZenonT(30), <1>1, <3>1, Heads DEF Completed, HasChain
    <3>. QED
      BY ZenonT(30), <1>1, <1>2, <2>2, <2>4, <3>2, <3>3
  <2>. QED
    BY ZenonT(30), <2>3, <2>6, <2>7 DEF PostedInv
<1>. QED
  BY ZenonT(30), <1>6, <1>7, <1>8, <1>9, <1>10, EntryType DEF IInv

-----------------------------------------------------------------------------
(* The steps that change requests. *)

(* A request is written into free descriptors, and named in the free place of *)
(* the avail ring. *)
LEMMA FormatKeeps ==
  ASSUME IInv, NEW b \in Buf, RwFormat(b)
  PROVE  IInv'
<1>. DEFINE i0 == Alloc3[1]
            i1 == Alloc3[2]
            i2 == Alloc3[3]
<1>1. i0 \in free /\ i1 \in free /\ i2 \in free /\ i0 # i1 /\ i0 # i2 /\ i1 # i2
  BY ZenonT(30), Alloc3Is DEF RwFormat, IInv
<1>2. /\ free' = free \ {i0, i1, i2}
      /\ ops' = [ops EXCEPT ![i0] = [write |-> write[b], sector |-> b]]
      /\ addr' = [addr EXCEPT ![i1] = b, ![i2] = i0]
      /\ next' = [next EXCEPT ![i0] = i1, ![i1] = i2, ![i2] = None]
      /\ status' = [status EXCEPT ![i0] = FALSE] /\ infob' = [infob EXCEPT ![i0] = b]
      /\ idx' = [idx EXCEPT ![b] = i0] /\ avail' = [avail EXCEPT ![availidx % NUM] = i0]
      /\ bdisk' = [bdisk EXCEPT ![b] = TRUE]
      /\ UNCHANGED <<availidx, used, usedidx, used_idx, seen, inflight, isr, disk, lock, intr, write, data>>
  BY ZenonT(30) DEF RwFormat, device, Taken
<1>3. \A c \in Buf : pc'[c] = IF c = b THEN "publish" ELSE pc[c]
  BY ZenonT(30), GotoIs DEF RwFormat
<1>4. pc[b] = "alloc" /\ lock = b /\ Cardinality(free) >= 3
  BY ZenonT(30) DEF RwFormat, IInv, LockInv
<1>. HIDE DEF i0, i1, i2
<1>5. LockInv'
  BY ZenonT(30), <1>2, <1>3, <1>4 DEF IInv, LockInv
<1>6. /\ idx'[b] = i0 /\ next'[i0] = i1 /\ next'[i1] = i2 /\ addr'[i1] = b /\ addr'[i2] = i0
      /\ infob'[i0] = b /\ ops'[i0] = [write |-> write[b], sector |-> b] /\ ~status'[i0] /\ bdisk'[b]
  BY ZenonT(30), <1>1, <1>2 DEF IInv, DiskTypeOK
<1>7. ASSUME NEW c \in Buf, HasChain(c)
      PROVE  /\ c # b /\ idx'[c] = idx[c] /\ bdisk'[c] = bdisk[c] /\ status'[idx[c]] = status[idx[c]]
             /\ Data(c)' = Data(c) /\ Stat(c)' = Stat(c) /\ Own(c) \cap {i0, i1, i2} = {}
  <2>1. c # b
    BY ZenonT(30), <1>4, <1>7 DEF HasChain, Submitted
  <2>2. {idx[c], Data(c), Stat(c)} \subseteq Desc \ {i0, i1, i2}
    <3>1. Data(c) \in Desc /\ Stat(c) \in Desc /\ Own(c) \cap free = {}
      BY ZenonT(30), <1>7 DEF IInv, ChainInv
    <3>2. idx[c] \in Desc
      BY ZenonT(30) DEF IInv, DiskTypeOK
    <3>. QED
      BY ZenonT(30), <1>1, <3>1, <3>2 DEF Own
  <2>3. idx'[c] = idx[c] /\ bdisk'[c] = bdisk[c] /\ status'[idx[c]] = status[idx[c]]
    BY ZenonT(30), <1>2, <2>1, <2>2 DEF IInv, DiskTypeOK
  <2>4. Data(c)' = Data(c)
    BY ZenonT(30), <1>2, <2>2, <2>3 DEF IInv, DiskTypeOK, Data
  <2>5. Stat(c)' = Stat(c)
    BY ZenonT(30), <1>2, <2>2, <2>4 DEF IInv, DiskTypeOK, Stat
  <2>. QED
    BY ZenonT(30), <2>1, <2>2, <2>3, <2>4, <2>5 DEF Own
<1>8. \A c \in Buf : (HasChain(c)' <=> HasChain(c) \/ c = b) /\ (Submitted(c)' <=> Submitted(c))
  BY ZenonT(30), <1>3, <1>4 DEF HasChain, Submitted
<1>9. ChainInv'
  <2>1. Data(b)' = i1 /\ Stat(b)' = i2 /\ Own(b)' = {i0, i1, i2}
    BY ZenonT(30), <1>6 DEF Data, Stat, Own
  <2>2. \A c \in Buf : HasChain(c) => Own(c)' = Own(c)
    BY ZenonT(30), <1>7 DEF Own
  <2>3. ASSUME NEW c \in Buf, HasChain(c)
        PROVE  /\ Data(c)' \in Desc /\ Stat(c)' \in Desc /\ Own(c)' \cap free' = {}
               /\ addr'[Data(c)'] = c /\ addr'[Stat(c)'] = idx'[c] /\ infob'[idx'[c]] = c
               /\ ops'[idx'[c]] = [write |-> write'[c], sector |-> c]
    <3>1. /\ Data(c) \in Desc /\ Stat(c) \in Desc /\ Own(c) \cap free = {} /\ idx[c] \in Desc
          /\ addr[Data(c)] = c /\ addr[Stat(c)] = idx[c] /\ infob[idx[c]] = c
          /\ ops[idx[c]] = [write |-> write[c], sector |-> c]
      BY ZenonT(30), <2>3 DEF IInv, ChainInv, DiskTypeOK
    <3>2. {idx[c], Data(c), Stat(c)} \cap {i0, i1, i2} = {}
      BY ZenonT(30), <1>7, <2>3 DEF Own
    <3>3. /\ addr'[Data(c)] = addr[Data(c)] /\ addr'[Stat(c)] = addr[Stat(c)]
          /\ infob'[idx[c]] = infob[idx[c]] /\ ops'[idx[c]] = ops[idx[c]]
      BY ZenonT(30), <1>2, <3>1, <3>2 DEF IInv, DiskTypeOK
    <3>. QED
      BY ZenonT(30), <1>2, <1>7, <2>2, <2>3, <3>1, <3>3
  <2>4. \A c, d \in Buf : HasChain(c)' /\ HasChain(d)' /\ c # d => Own(c)' \cap Own(d)' = {}
    <3>1. \A c \in Buf : HasChain(c) => c # b /\ Own(c)' \cap Own(b)' = {}
      BY ZenonT(30), <1>7, <2>1, <2>2
    <3>2. \A c, d \in Buf : HasChain(c) /\ HasChain(d) /\ c # d => Own(c)' \cap Own(d)' = {}
      <4>. SUFFICES ASSUME NEW c \in Buf, NEW d \in Buf, HasChain(c), HasChain(d), c # d
                    PROVE  Own(c)' \cap Own(d)' = {}
        BY Zenon
      <4>1. Own(c) \cap Own(d) = {}
        BY ZenonT(30) DEF IInv, ChainInv
      <4>2. Own(c)' = Own(c) /\ Own(d)' = Own(d)
        BY ZenonT(30), <2>2
      <4>. QED
        BY ZenonT(30), <4>1, <4>2
    <3>. QED
      BY ZenonT(30), <1>8, <3>1, <3>2
  <2>5. /\ i1 \in Desc /\ i2 \in Desc /\ {i0, i1, i2} \cap free' = {}
        /\ ops'[i0] = [write |-> write'[b], sector |-> b]
    BY ZenonT(30), <1>1, <1>2, <1>6 DEF IInv, DiskTypeOK
  <2>. QED
    BY <1>6, <1>8, <2>1, <2>3, <2>4, <2>5 DEF ChainInv
<1>10. \A c \in Buf : /\ AtDevice(c) => AtDevice(c)' /\ idx'[c] = idx[c]
                      /\ Completed(c) <=> Completed(c)'
                      /\ Completed(c) => idx'[c] = idx[c]
  BY ZenonT(30), <1>7, <1>8 DEF AtDevice, Completed, HasChain
<1>11. PostedInv'
  BY <1>2, <1>10, PostedKept, Zenon
<1>12. CallerInv'
  <2>1. \A c \in Buf : c # b /\ HasChain(c)' => HasChain(c) /\ pc'[c] = pc[c] /\ (Submitted(c)' <=> Submitted(c))
    BY ZenonT(30), <1>3, <1>8
  <2>2. \A c \in Buf : HasChain(c) => bdisk'[c] = bdisk[c] /\ status'[idx'[c]] = status[idx[c]]
    BY ZenonT(30), <1>7
  <2>3. ~Submitted(b)' /\ pc'[b] = "publish" /\ bdisk'[b] /\ ~status'[idx'[b]]
    BY ZenonT(30), <1>3, <1>6 DEF Submitted
  <2>4. \A c \in Buf : pc'[c] \in {"publish", "bsleep"} \/ Submitted(c)' => HasChain(c)'
    BY ZenonT(30) DEF HasChain, Submitted
  <2>. SUFFICES ASSUME NEW c \in Buf
                PROVE  /\ pc'[c] = "publish" => bdisk'[c] /\ ~status'[idx'[c]]
                       /\ pc'[c] = "bsleep" => bdisk'[c]
                       /\ Submitted(c)' /\ ~bdisk'[c] => status'[idx'[c]]
    BY ZenonT(30) DEF CallerInv
  <2>5. CASE c = b
    BY ZenonT(30), <2>3, <2>5
  <2>6. CASE c # b /\ HasChain(c)'
    <3>1. /\ pc[c] = "publish" => bdisk[c] /\ ~status[idx[c]]
          /\ pc[c] = "bsleep" => bdisk[c]
          /\ Submitted(c) /\ ~bdisk[c] => status[idx[c]]
      BY ZenonT(30) DEF IInv, CallerInv
    <3>. QED
      BY ZenonT(30), <2>1, <2>2, <2>6, <3>1
  <2>. QED
    BY ZenonT(30), <2>4, <2>5, <2>6
<1>13. OfferedInv'
  <2>1. Offered' = Offered /\ Count(seen, availidx)' = Count(seen, availidx)
    BY ZenonT(30), <1>2 DEF Offered, Pending, Count
  <2>2. Count(seen, availidx) < NUM
    <3>1. IsFiniteSet(Desc) /\ Cardinality(Desc) = NUM
      BY FS_Interval, UintType DEF Desc
    <3>2. IsFiniteSet(Desc \ {i0}) /\ Cardinality(Desc \ {i0}) = NUM - 1
      BY ZenonT(30), <1>1, <3>1, FS_RemoveElement DEF IInv, DiskTypeOK
    <3>3. \A i \in Offered : avail[i] \in Desc \ {i0} /\ \A j \in Offered : avail[i] = avail[j] => i = j
      <4>1. ASSUME NEW i \in Offered PROVE avail[i] \in Desc \ {i0}
        <5>1. PICK c \in Buf : AtDevice(c) /\ avail[i] = idx[c]
          BY ZenonT(30) DEF IInv, OfferedInv
        <5>. QED
          <6>1. HasChain(c)
            BY Zenon, <5>1 DEF AtDevice, HasChain
          <6>2. Own(c) \cap {i0, i1, i2} = {}
            BY Zenon, <1>7, <6>1
          <6>3. idx[c] \in Desc
            BY Zenon DEF IInv, DiskTypeOK
          <6>. QED
            BY ZenonT(30), <5>1, <6>2, <6>3 DEF Own
      <4>. QED
        BY ZenonT(30), <4>1 DEF IInv, OfferedInv
    <3>4. seen \in Uint16 /\ availidx \in Uint16 /\ Count(seen, availidx) <= NUM
      BY ZenonT(30) DEF IInv, DiskTypeOK, OfferedInv
    <3>5. Count(seen, availidx) <= Cardinality(Desc \ {i0})
      BY ZenonT(30), <3>2, <3>3, <3>4, EntriesBound DEF Offered
    <3>6. Count(seen, availidx) \in 0..(UINT16 - 1)
      BY ZenonT(30), <3>4, EndPlace
    <3>. QED
      BY <3>2, <3>5, <3>6, UintType
  <2>3. availidx % NUM \in Desc \ Offered
    BY ZenonT(30), <2>2, EntryAdded DEF Offered, IInv, DiskTypeOK
  <2>4. avail'[availidx % NUM] = i0 /\ \A i \in Offered : avail'[i] = avail[i]
    <3>1. Offered \subseteq Desc
      BY ZenonT(30), OfferedPlaces
    <3>. QED
      BY ZenonT(30), <1>2, <2>3, <3>1 DEF IInv, DiskTypeOK
  <2>5. \A c \in Buf : pc'[c] = "publish" => c = b
    BY ZenonT(30), <1>3, <1>4 DEF IInv, LockInv
  <2>6. \A i \in Offered : \E c \in Buf : AtDevice(c)' /\ avail'[i] = idx'[c]
    <3>. TAKE i \in Offered
    <3>1. PICK c \in Buf : AtDevice(c) /\ avail[i] = idx[c]
      BY ZenonT(30) DEF IInv, OfferedInv
    <3>. QED
      BY <1>10, <2>4, <3>1, Zenon
  <2>7. \A id \in inflight : \E c \in Buf : AtDevice(c)' /\ id = idx'[c]
    <3>. TAKE id \in inflight
    <3>1. PICK c \in Buf : AtDevice(c) /\ id = idx[c]
      BY ZenonT(30) DEF IInv, OfferedInv
    <3>. QED
      BY <1>10, <3>1, Zenon
  <2>8. \A i \in Offered : avail'[i] \notin inflight' /\ \A j \in Offered : avail'[i] = avail'[j] => i = j
    <3>1. \A i \in Offered : avail[i] \notin inflight /\ \A j \in Offered : avail[i] = avail[j] => i = j
      BY ZenonT(30) DEF IInv, OfferedInv
    <3>2. inflight' = inflight
      BY Zenon, <1>2
    <3>. QED
      BY SMT, ZenonT(60), <2>4, <3>1, <3>2
  <2>. QED
    <3>1. availidx' = availidx /\ inflight' = inflight /\ idx'[b] = i0
      BY ZenonT(30), <1>2, <1>6
    <3>2. \A c \in Buf : pc'[c] = "publish" =>
            avail'[availidx' % NUM] = idx'[c] /\ Count(seen, availidx)' < NUM
      BY ZenonT(30), <2>1, <2>2, <2>4, <2>5, <3>1
    <3>3. Count(seen, availidx)' <= NUM
      BY ZenonT(30), <2>1 DEF OfferedInv, IInv
    <3>. QED
      BY ZenonT(60), SMT, <2>1, <2>6, <2>7, <2>8, <3>1, <3>2, <3>3 DEF OfferedInv
<1>14. IntrInv'
  BY ZenonT(30), <1>2 DEF IInv, IntrInv
<1>. QED
  BY ZenonT(30), <1>5, <1>9, <1>11, <1>12, <1>13, <1>14, FormatType DEF IInv

(* The device takes a request. *)
LEMMA FetchKeeps ==
  ASSUME IInv, DevFetch
  PROVE  IInv'
<1>. DEFINE s == seen % NUM
<1>1. /\ seen # availidx /\ inflight' = inflight \cup {avail[s]} /\ avail' = [avail EXCEPT ![s] = 0]
      /\ seen' = Inc(seen)
      /\ UNCHANGED <<free, addr, next, ops, infob, status, availidx, used, usedidx, used_idx, isr, lock, intr,
                      pc, idx, bdisk, write>>
  BY ZenonT(30) DEF DevFetch, descs
<1>2. \A c \in Buf : /\ Submitted(c)' <=> Submitted(c)
                     /\ HasChain(c)' <=> HasChain(c)
                     /\ Completed(c) <=> Completed(c)'
                     /\ AtDevice(c)' <=> AtDevice(c)
  BY ZenonT(30), <1>1 DEF Submitted, HasChain, Completed, AtDevice
<1>3. ChainInv'
  BY ZenonT(30), <1>1, <1>2, ChainKept
<1>4. PostedInv'
  BY ZenonT(30), <1>1, <1>2, PostedKept
<1>5. LockInv' /\ CallerInv' /\ IntrInv'
  BY ZenonT(30), <1>1 DEF IInv, LockInv, CallerInv, IntrInv, Submitted
<1>6. OfferedInv'
  <2>1. seen \in Uint16 /\ availidx \in Uint16 /\ Count(seen, availidx) <= NUM
    BY ZenonT(30) DEF IInv, DiskTypeOK, OfferedInv
  <2>2. /\ Count(seen, availidx)' = Count(seen, availidx) - 1
        /\ s \in Offered /\ s \in Desc /\ Offered' = Offered \ {s}
    BY <1>1, <2>1, EntryTaken DEF Offered, Count, Pending
  <2>3. Count(seen, availidx) \in 1..NUM
    BY <1>1, <2>1, EndPlace, UintType
  <2>. HIDE DEF s
  <2>4. \A i \in Desc : i # s => avail'[i] = avail[i]
    BY ZenonT(30), <1>1 DEF IInv, DiskTypeOK
  <2>5. Offered \subseteq Desc
    BY ZenonT(30), OfferedPlaces
  <2>6. \A i \in Offered : /\ avail[i] \notin inflight /\ \E b \in Buf : AtDevice(b) /\ avail[i] = idx[b]
                           /\ \A j \in Offered : avail[i] = avail[j] => i = j
    BY ZenonT(30) DEF IInv, OfferedInv
  <2>7. \A i \in Offered' : /\ avail'[i] \notin inflight' /\ \E b \in Buf : AtDevice(b)' /\ avail'[i] = idx'[b]
                            /\ \A j \in Offered' : avail'[i] = avail'[j] => i = j
    BY <1>1, <1>2, <2>2, <2>4, <2>5, <2>6
  <2>8. \A id \in inflight' : \E b \in Buf : AtDevice(b)' /\ id = idx'[b]
    <3>1. \A id \in inflight : \E b \in Buf : AtDevice(b) /\ id = idx[b]
      BY ZenonT(30) DEF IInv, OfferedInv
    <3>. QED
      BY ZenonT(30), <1>1, <1>2, <2>2, <2>6, <3>1
  <2>9. Count(seen, availidx)' < NUM /\ Count(seen, availidx)' <= NUM
    BY <2>2, <2>3, UintType
  <2>10. ASSUME NEW b \in Buf, pc'[b] = "publish"
        PROVE  avail'[availidx' % NUM] = idx'[b] /\ Count(seen, availidx)' < NUM
    <3>1. pc[b] = "publish" /\ avail[availidx % NUM] = idx[b] /\ Count(seen, availidx) < NUM
      BY ZenonT(30), <1>1, <2>10 DEF IInv, OfferedInv
    <3>2. availidx % NUM \in Desc \ Offered
      BY ZenonT(30), <2>1, <3>1, EntryAdded DEF Offered
    <3>3. avail'[availidx' % NUM] = idx'[b]
      BY ZenonT(30), <1>1, <2>2, <2>4, <3>1, <3>2
    <3>. QED
      BY ZenonT(30), <2>9, <3>3
  <2>. QED
    BY ZenonT(30), <2>7, <2>8, <2>9, <2>10 DEF OfferedInv
<1>. QED
  BY ZenonT(30), <1>3, <1>4, <1>5, <1>6, DeviceTypes DEF IInv

(* The device carries a request out and posts it. *)
LEMMA DoKeeps ==
  ASSUME IInv, NEW id \in Desc, DevDo(id)
  PROVE  IInv'
<1>. DEFINE u == usedidx % NUM
<1>1. PICK b \in Buf : AtDevice(b) /\ id = idx[b] /\ id \in inflight /\ status' = [status EXCEPT ![id] = TRUE]
  BY ZenonT(30), DoIs
<1>2. /\ used' = [used EXCEPT ![u] = id] /\ usedidx' = Inc(usedidx) /\ isr'
      /\ inflight' = inflight \ {id}
      /\ UNCHANGED <<free, addr, next, ops, infob, avail, availidx, used_idx, seen, lock, intr, pc, idx, bdisk, write>>
  BY ZenonT(30) DEF DevDo, descs
<1>3. \A c \in Buf : (Submitted(c)' <=> Submitted(c)) /\ (HasChain(c)' <=> HasChain(c))
  BY ZenonT(30), <1>2 DEF Submitted, HasChain
<1>4. \A c \in Buf : HasChain(c) => status'[idx[c]] = IF c = b THEN TRUE ELSE status[idx[c]]
  <2>1. \A c \in Buf : HasChain(c) /\ c # b => idx[c] # id
    BY ZenonT(30), <1>1, Heads DEF AtDevice, HasChain
  <2>. QED
    BY ZenonT(30), <1>1, <2>1 DEF IInv, DiskTypeOK
<1>5. bdisk[b] /\ Submitted(b) /\ pc[b] # "publish"
  BY ZenonT(30), <1>1 DEF IInv, CallerInv, AtDevice, Submitted
<1>6. \A c \in Buf : /\ AtDevice(c)' <=> AtDevice(c) /\ c # b
                     /\ Completed(c)' <=> Completed(c) \/ c = b
  BY ZenonT(30), <1>2, <1>3, <1>4, <1>5 DEF AtDevice, Completed, HasChain
<1>7. ChainInv'
  BY ZenonT(30), <1>2, <1>3, ChainKept
<1>8. LockInv' /\ IntrInv'
  BY ZenonT(30), <1>2 DEF IInv, LockInv, IntrInv
<1>9. CallerInv'
  BY ZenonT(30), <1>2, <1>3, <1>4, <1>5 DEF IInv, CallerInv, HasChain
<1>10. OfferedInv'
  <2>1. Offered' = Offered /\ Count(seen, availidx)' = Count(seen, availidx)
    BY ZenonT(30), <1>2 DEF Offered, Pending, Count
  <2>2. \A i \in Offered : /\ avail[i] \notin inflight /\ \E c \in Buf : AtDevice(c) /\ avail[i] = idx[c]
                           /\ \A j \in Offered : avail[i] = avail[j] => i = j
    BY ZenonT(30) DEF IInv, OfferedInv
  <2>3. \A i \in Offered : \E c \in Buf : AtDevice(c)' /\ avail'[i] = idx'[c]
    BY ZenonT(30), <1>1, <1>2, <1>6, <2>2
  <2>4. \A x \in inflight' : \E c \in Buf : AtDevice(c)' /\ x = idx'[c]
    <3>1. \A x \in inflight : \E c \in Buf : AtDevice(c) /\ x = idx[c]
      BY ZenonT(30) DEF IInv, OfferedInv
    <3>. QED
      BY ZenonT(30), <1>1, <1>2, <1>6, <3>1
  <2>5. \A i \in Offered : avail'[i] \notin inflight' /\ \A j \in Offered : avail'[i] = avail'[j] => i = j
    BY ZenonT(30), <1>2, <2>2
  <2>6. Count(seen, availidx) <= NUM /\ \A c \in Buf : pc'[c] = "publish" =>
          avail'[availidx' % NUM] = idx'[c] /\ Count(seen, availidx) < NUM
    BY ZenonT(30), <1>2 DEF IInv, OfferedInv
  <2>. QED
    BY ZenonT(30), <2>1, <2>3, <2>4, <2>5, <2>6 DEF OfferedInv
<1>11. PostedInv'
  <2>1. used_idx \in Uint16 /\ usedidx \in Uint16 /\ Count(used_idx, usedidx) <= NUM
    BY ZenonT(30) DEF IInv, DiskTypeOK, PostedInv
  <2>2. \A i \in Posted : /\ \E c \in Buf : Completed(c) /\ used[i] = idx[c]
                          /\ \A j \in Posted : used[i] = used[j] => i = j
    BY ZenonT(30) DEF IInv, PostedInv
  <2>3. \A i \in Posted : used[i] \in Desc \ {id}
    <3>1. \A c \in Buf : Completed(c) => idx[c] \in Desc \ {id}
      BY ZenonT(30), <1>1 DEF Completed, AtDevice, IInv, DiskTypeOK
    <3>. QED
      BY ZenonT(30), <2>2, <3>1
  <2>4. Count(used_idx, usedidx) < NUM
    <3>1. IsFiniteSet(Desc) /\ Cardinality(Desc) = NUM
      BY FS_Interval, UintType DEF Desc
    <3>2. IsFiniteSet(Desc \ {id}) /\ Cardinality(Desc \ {id}) = NUM - 1
      BY ZenonT(30), <3>1, FS_RemoveElement
    <3>3. Count(used_idx, usedidx) <= Cardinality(Desc \ {id})
      BY ZenonT(30), <2>1, <2>2, <2>3, <3>2, EntriesBound DEF Posted
    <3>4. Count(used_idx, usedidx) \in 0..(UINT16 - 1)
      BY ZenonT(30), <2>1, EndPlace
    <3>. QED
      BY <3>2, <3>3, <3>4, UintType
  <2>5. /\ Count(used_idx, usedidx)' = Count(used_idx, usedidx) + 1
        /\ u \in Desc \ Posted /\ Posted' = Posted \cup {u}
    <3>1. Count(used_idx, usedidx)' = Count(used_idx, Inc(usedidx)) /\ Posted' = Pending(used_idx, Inc(usedidx))
      BY ZenonT(30), <1>2 DEF Posted, Count, Pending
    <3>. QED
      BY ZenonT(30), <1>2, <2>1, <2>4, <3>1, EntryAdded DEF Posted
  <2>6. Count(used_idx, usedidx)' <= NUM
    BY <2>1, <2>4, <2>5, EndPlace, UintType
  <2>. HIDE DEF u
  <2>7. used'[u] = id /\ \A i \in Posted : used'[i] = used[i]
    BY ZenonT(30), <1>2, <2>5, OfferedPlaces DEF IInv, DiskTypeOK
  <2>8. \A i \in Posted' : /\ \E c \in Buf : Completed(c)' /\ used'[i] = idx'[c]
                           /\ \A j \in Posted' : used'[i] = used'[j] => i = j
    BY <1>1, <1>2, <1>6, <2>2, <2>3, <2>5, <2>7
  <2>9. \A c \in Buf : Completed(c)' => \E i \in Posted' : used'[i] = idx'[c]
    <3>1. \A c \in Buf : Completed(c) => \E i \in Posted : used[i] = idx[c]
      BY ZenonT(30) DEF IInv, PostedInv
    <3>. QED
      BY <1>1, <1>2, <1>6, <2>5, <2>7, <3>1
  <2>. QED
    BY ZenonT(30), <2>6, <2>8, <2>9 DEF PostedInv
<1>. QED
  BY ZenonT(30), <1>7, <1>8, <1>9, <1>10, <1>11, DoType DEF IInv

(* The caller gives the descriptors back. *)
LEMMA DoneKeeps ==
  ASSUME IInv, NEW b \in Buf, RwDone(b)
  PROVE  IInv'
<1>1. pc[b] = "wait" /\ ~bdisk[b] /\ lock = b /\ lock' = None /\ HasChain(b) /\ status[idx[b]]
  BY ZenonT(30) DEF RwDone, IInv, LockInv, CallerInv, HasChain, Submitted
<1>2. /\ infob' = [infob EXCEPT ![idx[b]] = None] /\ free' = free \cup Own(b)
      /\ addr' = [i \in Desc |-> IF i \in Own(b) THEN None ELSE addr[i]]
      /\ next' = [i \in Desc |-> IF i \in Own(b) THEN None ELSE next[i]]
      /\ idx' = [idx EXCEPT ![b] = 0] /\ write' = [write EXCEPT ![b] = FALSE]
      /\ ops' = [ops EXCEPT ![idx[b]] = NoOp]
      /\ UNCHANGED <<status, avail, availidx, used, usedidx, used_idx, seen, inflight, isr, intr, bdisk>>
  BY ZenonT(30), <1>1, ChainIs DEF RwDone, rings, device
<1>3. \A c \in Buf : pc'[c] = IF c = b THEN "idle" ELSE IF pc[c] = "fsleep" THEN "lock" ELSE pc[c]
  BY ZenonT(30), GotoIs DEF RwDone
<1>4. \A c \in Buf : /\ Submitted(c)' <=> Submitted(c) /\ c # b
                     /\ HasChain(c)' <=> HasChain(c) /\ c # b
                     /\ c # b => idx'[c] = idx[c] /\ write'[c] = write[c]
                     /\ pc'[c] = "publish" => pc[c] = "publish" /\ c # b
  BY ZenonT(30), <1>2, <1>3 DEF Submitted, HasChain, IInv, DiskTypeOK
<1>5. \A c \in Buf : /\ AtDevice(c) => AtDevice(c)' /\ idx'[c] = idx[c]
                     /\ Completed(c) <=> Completed(c)'
                     /\ Completed(c) => idx'[c] = idx[c]
  BY ZenonT(30), <1>1, <1>2, <1>4 DEF AtDevice, Completed
<1>6. OfferedInv'
  BY ZenonT(30), <1>2, <1>4, <1>5, OfferedKept
<1>7. PostedInv'
  BY ZenonT(30), <1>2, <1>5, PostedKept
<1>8. LockInv'
  BY <1>1, <1>2, <1>3, NoneAssumption DEF IInv, LockInv
<1>9. CallerInv' /\ IntrInv'
  BY ZenonT(30), <1>2, <1>3, <1>4 DEF IInv, CallerInv, IntrInv
<1>10. ASSUME NEW c \in Buf, HasChain(c)'
       PROVE  /\ Data(c)' = Data(c) /\ Stat(c)' = Stat(c) /\ Own(c)' = Own(c) /\ Own(c) \cap Own(b) = {}
              /\ Data(c) \in Desc /\ Stat(c) \in Desc /\ Own(c) \cap free' = {} /\ idx'[c] = idx[c]
              /\ addr'[Data(c)] = c /\ addr'[Stat(c)] = idx[c] /\ infob'[idx[c]] = c
              /\ ops'[idx[c]] = [write |-> write'[c], sector |-> c]
  <2>1. HasChain(c) /\ c # b /\ idx'[c] = idx[c] /\ write'[c] = write[c]
    BY ZenonT(30), <1>4, <1>10
  <2>2. /\ Data(c) \in Desc /\ Stat(c) \in Desc /\ Own(c) \cap free = {} /\ Own(c) \cap Own(b) = {}
        /\ addr[Data(c)] = c /\ addr[Stat(c)] = idx[c] /\ infob[idx[c]] = c
        /\ ops[idx[c]] = [write |-> write[c], sector |-> c]
    BY ZenonT(30), <1>1, <2>1 DEF IInv, ChainInv
  <2>3. idx[c] \in Desc /\ idx[c] \notin Own(b) /\ Data(c) \notin Own(b) /\ Stat(c) \notin Own(b) /\ idx[b] \in Own(b)
    BY ZenonT(30), <2>2 DEF Own, IInv, DiskTypeOK
  <2>4. Data(c)' = Data(c)
    BY ZenonT(30), <1>2, <2>1, <2>3 DEF Data
  <2>5. Stat(c)' = Stat(c)
    BY ZenonT(30), <1>2, <2>2, <2>3, <2>4 DEF Stat
  <2>6. Own(c)' = Own(c) /\ Own(c) \cap free' = {}
    BY ZenonT(30), <1>2, <2>1, <2>2, <2>4, <2>5 DEF Own
  <2>7. addr'[Data(c)] = c /\ addr'[Stat(c)] = idx[c]
    BY ZenonT(30), <1>2, <2>2, <2>3
  <2>8. infob'[idx[c]] = c /\ ops'[idx[c]] = [write |-> write'[c], sector |-> c]
    BY ZenonT(30), <1>2, <2>1, <2>2, <2>3 DEF IInv, DiskTypeOK
  <2>. QED
    BY ZenonT(30), <2>1, <2>2, <2>4, <2>5, <2>6, <2>7, <2>8
<1>11. ChainInv'
  <2>1. ASSUME NEW c \in Buf, NEW d \in Buf, HasChain(c)', HasChain(d)', c # d
        PROVE  Own(c)' \cap Own(d)' = {}
    <3>1. HasChain(c) /\ HasChain(d)
      BY ZenonT(30), <1>4, <2>1
    <3>2. Own(c) \cap Own(d) = {}
      BY ZenonT(30), <2>1, <3>1 DEF IInv, ChainInv
    <3>. QED
      BY ZenonT(30), <1>10, <2>1, <3>2
  <2>. QED
    BY ZenonT(30), <1>10, <2>1 DEF ChainInv
<1>. QED
  BY ZenonT(30), <1>6, <1>7, <1>8, <1>9, <1>11, DoneType DEF IInv

-----------------------------------------------------------------------------
LEMMA DiskInit == Init => IInv
<1>. SUFFICES ASSUME Init PROVE IInv
  BY ZenonT(30)
<1>1. 0 \in Desc /\ 0 \in Uint16
  BY UintType DEF Desc, Uint16
<1>2. DiskTypeOK
  <2>1. /\ free = Desc /\ inflight = {} /\ availidx = 0 /\ usedidx = 0 /\ used_idx = 0 /\ seen = 0
        /\ avail = [i \in Desc |-> 0] /\ used = [i \in Desc |-> 0] /\ idx = [b \in Buf |-> 0]
        /\ data \in [Buf -> Value] /\ disk \in [Buf -> Value] /\ intr = "off" /\ isr = FALSE
    BY ZenonT(30) DEF Init
  <2>2. /\ addr = [i \in Desc |-> addr[i]] /\ ops = [i \in Desc |-> ops[i]] /\ infob = [i \in Desc |-> infob[i]]
        /\ next \in [Desc -> Desc \cup {None}] /\ status \in [Desc -> BOOLEAN]
    BY ZenonT(30) DEF Init
  <2>3. pc \in [Buf -> PC] /\ bdisk \in [Buf -> BOOLEAN] /\ write \in [Buf -> BOOLEAN]
    BY ZenonT(30) DEF Init, PC
  <2>. QED
    BY ZenonT(30), <1>1, <2>1, <2>2, <2>3 DEF DiskTypeOK
<1>3. \A b \in Buf : pc[b] = "idle" /\ ~HasChain(b) /\ ~Submitted(b)
  BY ZenonT(30) DEF Init, HasChain, Submitted
<1>4. LockInv /\ ChainInv /\ CallerInv /\ IntrInv
  BY ZenonT(30), <1>3, NoneAssumption DEF Init, LockInv, ChainInv, CallerInv, IntrInv
<1>5. Count(0, 0) = 0 /\ Offered = {} /\ Posted = {}
  BY DEF Init, Count, Offered, Posted, Pending
<1>6. seen = 0 /\ availidx = 0 /\ used_idx = 0 /\ usedidx = 0 /\ inflight = {}
  BY ZenonT(30) DEF Init
<1>7. OfferedInv /\ PostedInv
  BY <1>3, <1>5, <1>6, UintType DEF OfferedInv, PostedInv, Completed
<1>. QED
  BY ZenonT(30), <1>2, <1>4, <1>7 DEF IInv

LEMMA DiskStep == IInv /\ [Next]_vars => IInv'
<1>. SUFFICES ASSUME IInv, [Next]_vars PROVE IInv'
  BY ZenonT(30)
<1>1. CASE UNCHANGED vars
  <2>. USE <1>1 DEF vars, descs, rings, device
  <2>1. ChainInv' /\ OfferedInv' /\ PostedInv' /\ CallerInv'
    BY ZenonT(30), Calm DEF Submitted
  <2>2. DiskTypeOK'
    BY ZenonT(30) DEF IInv, DiskTypeOK
  <2>3. LockInv' /\ IntrInv'
    BY ZenonT(30) DEF IInv, LockInv, IntrInv
  <2>. QED
    BY ZenonT(30), <2>1, <2>2, <2>3 DEF IInv
<1>2. CASE Next
  BY ZenonT(30), <1>2, CallKeeps, FormatKeeps, PublishKeeps, DoneKeeps, FetchKeeps, DoKeeps, HandlerKeeps, EntryKeeps DEF Next
<1>. QED
  BY ZenonT(30), <1>1, <1>2

LEMMA DiskInvariance == Spec => []IInv
  BY DiskInit, DiskStep, PTL DEF Spec

(* A caller of virtio_disk_rw() that sleeps will be woken: its request is at  *)
(* the device, or is done and virtio_disk_intr() has yet to run.  Nothing     *)
(* that the device does while the handler is on its way out is missed.        *)
THEOREM SleepersServed == Spec => []SleeperHasRequest
<1>1. IInv => SleeperHasRequest
  <2>. SUFFICES ASSUME IInv, NEW b \in Buf, pc[b] = "bsleep", intr = "off", status[idx[b]] PROVE bdisk[b] /\ isr
    BY ZenonT(30) DEF SleeperHasRequest, IInv, CallerInv
  <2>1. Completed(b)
    BY ZenonT(30) DEF Completed, Submitted, IInv, CallerInv
  <2>2. Posted # {} /\ used_idx \in Uint16 /\ usedidx \in Uint16
    BY ZenonT(30), <2>1 DEF IInv, PostedInv, DiskTypeOK
  <2>3. used_idx # usedidx
    <3>1. Count(used_idx, used_idx) = 0
      BY ZenonT(30), <2>2, EndPlace
    <3>2. Pending(used_idx, used_idx) = {}
      BY <3>1 DEF Pending
    <3>. QED
      BY ZenonT(30), <2>2, <3>2 DEF Posted
  <2>. QED
    BY ZenonT(30), <2>1, <2>3 DEF Completed, IInv, IntrInv
<1>. QED
  BY <1>1, DiskInvariance, PTL

-----------------------------------------------------------------------------
(* The driver implements BlockDevice. *)

LEMMA RequestCases ==
  ASSUME NEW b \in Buf
  PROVE  /\ Request(b) = IF pc[b] = "idle" THEN "idle"
                         ELSE IF Submitted(b) /\ status[idx[b]] THEN "done"
                         ELSE IF write[b] THEN "write" ELSE "read"
         /\ Request(b)' = IF pc'[b] = "idle" THEN "idle"
                          ELSE IF Submitted(b)' /\ status'[idx'[b]] THEN "done"
                          ELSE IF write'[b] THEN "write" ELSE "read"
  BY ZenonT(30) DEF Request, Submitted

LEMMA Stutters ==
  ASSUME UNCHANGED <<data, disk>>, \A b \in Buf : Request(b)' = Request(b)
  PROVE  UNCHANGED Device!bvars
<1>1. [b \in Buf |-> Request(b)]' = [b \in Buf |-> Request(b)]
  BY ZenonT(30)
<1>. QED
  BY ZenonT(30), <1>1 DEF Device!bvars

LEMMA FormatStutters ==
  ASSUME IInv, NEW b \in Buf, RwFormat(b)
  PROVE  UNCHANGED Device!bvars
<1>1. Alloc3[1] \in free
  BY ZenonT(30), Alloc3Is DEF RwFormat, IInv
<1>2. /\ status' = [status EXCEPT ![Alloc3[1]] = FALSE] /\ idx' = [idx EXCEPT ![b] = Alloc3[1]] /\ pc[b] = "alloc"
      /\ UNCHANGED <<data, disk, write>>
  BY ZenonT(30) DEF RwFormat, device
<1>3. \A c \in Buf : pc'[c] = IF c = b THEN "publish" ELSE pc[c]
  BY ZenonT(30), GotoIs DEF RwFormat
<1>4. \A c \in Buf : Submitted(c) => c # b /\ idx'[c] = idx[c] /\ status'[idx[c]] = status[idx[c]]
  <2>1. \A c \in Buf : Submitted(c) => c # b /\ idx[c] # Alloc3[1]
    BY ZenonT(30), <1>1, <1>2 DEF IInv, ChainInv, HasChain, Own, Submitted
  <2>. QED
    BY ZenonT(30), <1>1, <1>2, <2>1 DEF IInv, DiskTypeOK
<1>5. \A c \in Buf : Submitted(c)' <=> Submitted(c)
  BY ZenonT(30), <1>2, <1>3 DEF Submitted
<1>6. \A c \in Buf : Request(c)' = Request(c)
  <2>. TAKE c \in Buf
  <2>1. (pc'[c] = "idle" <=> pc[c] = "idle") /\ write'[c] = write[c]
    BY ZenonT(30), <1>2, <1>3
  <2>2. Submitted(c)' /\ status'[idx'[c]] <=> Submitted(c) /\ status[idx[c]]
    BY ZenonT(30), <1>4, <1>5
  <2>. QED
    BY ZenonT(30), <2>1, <2>2, RequestCases
<1>. QED
  BY ZenonT(30), <1>2, <1>6, Stutters

LEMMA OthersStutter ==
  ASSUME IInv, \/ \E b \in Buf : RwLock(b) \/ RwSleepFree(b) \/ RwPublish(b) \/ RwSleep(b)
               \/ DevFetch \/ IntrAck \/ IntrEntry \/ IntrExit \/ IntrRelease
  PROVE  UNCHANGED Device!bvars
<1>1. UNCHANGED <<data, disk, status, idx, write>>
  BY ZenonT(30) DEF RwLock, RwSleepFree, RwPublish, RwSleep, DevFetch, IntrAck, IntrEntry, IntrExit, IntrRelease, device
<1>2. \A c \in Buf : /\ pc'[c] = "idle" <=> pc[c] = "idle"
                     /\ Submitted(c)' /\ status[idx[c]] <=> Submitted(c) /\ status[idx[c]]
  <2>1. ASSUME NEW b \in Buf, RwLock(b) \/ RwSleepFree(b) \/ RwPublish(b) \/ RwSleep(b)
        PROVE  \A c \in Buf : /\ pc'[c] = "idle" <=> pc[c] = "idle"
                              /\ Submitted(c)' /\ status[idx[c]] <=> Submitted(c) /\ status[idx[c]]
    <3>1. pc[b] = "publish" => ~status[idx[b]]
      BY ZenonT(30) DEF IInv, CallerInv
    <3>2. CASE RwLock(b)
      <4>1. \A c \in Buf : pc'[c] = IF c = b THEN IF pc[b] = "lock" THEN "alloc" ELSE "wait" ELSE pc[c]
        BY ZenonT(30), <3>2, GotoIs DEF RwLock
      <4>. QED
        BY ZenonT(30), <3>2, <4>1 DEF RwLock, Submitted
    <3>3. CASE RwSleepFree(b)
      <4>1. \A c \in Buf : pc'[c] = pc[c] \/ {pc[c], pc'[c]} \subseteq {"alloc", "fsleep", "lock"}
        BY ZenonT(30), <3>3, GotoIs DEF RwSleepFree
      <4>. QED
        BY ZenonT(30), <4>1 DEF Submitted
    <3>4. CASE RwPublish(b)
      <4>1. \A c \in Buf : pc'[c] = IF c = b THEN "wait" ELSE pc[c]
        BY ZenonT(30), <3>4, GotoIs DEF RwPublish
      <4>. QED
        BY ZenonT(30), <3>1, <3>4, <4>1 DEF RwPublish, Submitted
    <3>5. CASE RwSleep(b)
      <4>1. \A c \in Buf : pc'[c] = IF c = b THEN "bsleep" ELSE pc[c]
        BY ZenonT(30), <3>5, GotoIs DEF RwSleep
      <4>. QED
        BY ZenonT(30), <3>5, <4>1 DEF RwSleep, Submitted
    <3>. QED
      BY ZenonT(30), <2>1, <3>2, <3>3, <3>4, <3>5
  <2>2. CASE IntrEntry
    <3>1. PICK b \in Buf : pc' = [pc EXCEPT ![b] = IF @ = "bsleep" THEN "relock" ELSE @]
      BY ZenonT(30), <2>2, EntryIs
    <3>. QED
      BY ZenonT(30), <3>1 DEF Submitted, IInv, DiskTypeOK
  <2>3. CASE DevFetch \/ IntrAck \/ IntrExit \/ IntrRelease
    BY ZenonT(30), <2>3 DEF DevFetch, IntrAck, IntrExit, IntrRelease, Submitted
  <2>. QED
    BY ZenonT(30), <2>1, <2>2, <2>3
<1>3. \A c \in Buf : Request(c)' = Request(c)
  BY ZenonT(30), <1>1, <1>2, RequestCases
<1>. QED
  BY ZenonT(30), <1>1, <1>3, Stutters

LEMMA CallIsCall ==
  ASSUME IInv, NEW b \in Buf, RwCall(b)
  PROVE  Device!Call(b)
<1>1. /\ pc[b] = "idle" /\ UNCHANGED <<status, disk, idx>>
      /\ \A c \in Buf : pc'[c] = IF c = b THEN "lock" ELSE pc[c]
  BY ZenonT(30), GotoIs DEF RwCall, device
<1>2. Request(b) = "idle" /\ Request(b)' = IF write'[b] THEN "write" ELSE "read"
  BY ZenonT(30), <1>1, RequestCases DEF Submitted
<1>3. \A c \in Buf \ {b} : write'[c] = write[c] => Request(c)' = Request(c)
  BY ZenonT(30), <1>1, RequestCases DEF Submitted
<1>4. ASSUME NEW w \in BOOLEAN, write' = [write EXCEPT ![b] = w]
      PROVE  [c \in Buf |-> Request(c)]' = [[c \in Buf |-> Request(c)] EXCEPT ![b] = IF w THEN "write" ELSE "read"]
  <2>1. write'[b] = w /\ \A c \in Buf \ {b} : write'[c] = write[c]
    BY ZenonT(30), <1>4 DEF IInv, DiskTypeOK
  <2>. QED
    BY ZenonT(30), <1>2, <1>3, <2>1
<1>5. CASE write' = [write EXCEPT ![b] = FALSE] /\ UNCHANGED data
  BY ZenonT(30), <1>1, <1>2, <1>4, <1>5 DEF Device!Call
<1>6. CASE write' = [write EXCEPT ![b] = TRUE] /\ \E v \in Value : data' = [data EXCEPT ![b] = v]
  BY ZenonT(30), <1>1, <1>2, <1>4, <1>6 DEF Device!Call
<1>. QED
  BY ZenonT(30), <1>5, <1>6 DEF RwCall

LEMMA DevDoIsDo ==
  ASSUME IInv, NEW id \in Desc, DevDo(id)
  PROVE  \E b \in Buf : Device!Do(b)
<1>1. PICK b \in Buf :
        /\ AtDevice(b) /\ id = idx[b]
        /\ disk' = IF write[b] THEN [disk EXCEPT ![b] = data[b]] ELSE disk
        /\ data' = IF write[b] THEN data ELSE [data EXCEPT ![b] = disk[b]]
        /\ status' = [status EXCEPT ![id] = TRUE]
  BY ZenonT(30), DoIs
<1>2. UNCHANGED <<pc, idx, write>>
  BY ZenonT(30) DEF DevDo
<1>3. Request(b) = IF write[b] THEN "write" ELSE "read"
  BY ZenonT(30), <1>1, RequestCases DEF AtDevice, Submitted
<1>4. Request(b)' = "done"
  <2>1. Submitted(b)' /\ status'[idx'[b]] /\ pc'[b] # "idle"
    BY ZenonT(30), <1>1, <1>2 DEF AtDevice, Submitted, IInv, DiskTypeOK
  <2>. QED
    BY ZenonT(30), <2>1, RequestCases
<1>5. \A c \in Buf \ {b} : Request(c)' = Request(c)
  <2>. TAKE c \in Buf \ {b}
  <2>1. Submitted(c) => idx[c] # id
    BY ZenonT(30), <1>1 DEF AtDevice, IInv, ChainInv, HasChain, Own
  <2>2. Submitted(c) => status'[idx[c]] = status[idx[c]]
    BY ZenonT(30), <1>1, <2>1 DEF IInv, DiskTypeOK
  <2>3. Submitted(c)' <=> Submitted(c)
    BY ZenonT(30), <1>2 DEF Submitted
  <2>. QED
    BY ZenonT(30), <1>2, <2>2, <2>3, RequestCases
<1>6. [c \in Buf |-> Request(c)]' = [[c \in Buf |-> Request(c)] EXCEPT ![b] = "done"]
  BY ZenonT(30), <1>4, <1>5
<1>7. CASE write[b]
  BY ZenonT(30), <1>1, <1>3, <1>6, <1>7 DEF Device!Do
<1>8. CASE ~write[b]
  BY ZenonT(30), <1>1, <1>3, <1>6, <1>8 DEF Device!Do
<1>. QED
  BY ZenonT(30), <1>7, <1>8

LEMMA DoneIsReturn ==
  ASSUME IInv, NEW b \in Buf, RwDone(b)
  PROVE  Device!Return(b)
<1>1. /\ pc[b] = "wait" /\ ~bdisk[b] /\ UNCHANGED <<status, disk, data>>
      /\ idx' = [idx EXCEPT ![b] = 0] /\ write' = [write EXCEPT ![b] = FALSE]
  BY ZenonT(30) DEF RwDone, device
<1>2. pc' = [c \in Buf |-> IF c = b THEN "idle" ELSE IF pc[c] = "fsleep" THEN "lock" ELSE pc[c]]
  BY ZenonT(30) DEF RwDone, WakeFree
<1>3. Request(b) = "done" /\ Request(b)' = "idle"
  BY ZenonT(30), <1>1, <1>2, RequestCases DEF Submitted, IInv, CallerInv
<1>4. \A c \in Buf \ {b} : Request(c)' = Request(c)
  <2>. TAKE c \in Buf \ {b}
  <2>1. idx'[c] = idx[c] /\ write'[c] = write[c]
    BY ZenonT(30), <1>1 DEF IInv, DiskTypeOK
  <2>2. (Submitted(c)' <=> Submitted(c)) /\ (pc'[c] = "idle" <=> pc[c] = "idle")
    BY ZenonT(30), <1>2 DEF Submitted
  <2>. QED
    BY ZenonT(30), <1>1, <2>1, <2>2, RequestCases
<1>5. [c \in Buf |-> Request(c)]' = [[c \in Buf |-> Request(c)] EXCEPT ![b] = "idle"]
  BY ZenonT(30), <1>3, <1>4
<1>. QED
  BY ZenonT(30), <1>1, <1>3, <1>5 DEF Device!Return

LEMMA DeviceStep == IInv /\ [Next]_vars => [Device!BNext]_(Device!bvars)
<1>. SUFFICES ASSUME IInv, [Next]_vars PROVE [Device!BNext]_(Device!bvars)
  BY ZenonT(30)
<1>1. CASE UNCHANGED vars
  <2>1. UNCHANGED <<pc, idx, status, write, data, disk>>
    BY ZenonT(30), <1>1 DEF vars, device
  <2>2. \A b \in Buf : Request(b)' = Request(b)
    BY ZenonT(30), <2>1, RequestCases DEF Submitted
  <2>. QED
    BY ZenonT(30), <2>1, <2>2, Stutters
<1>2. CASE Next
  BY ZenonT(30), <1>2, CallIsCall, DevDoIsDo, DoneIsReturn, FormatStutters, OthersStutter DEF Next, Device!BNext
<1>. QED
  BY ZenonT(30), <1>1, <1>2

(* virtio_disk_rw() implements BlockDevice: with the descriptors, the rings   *)
(* and the interrupt hidden, each call transfers its own buffer once, between *)
(* the call and the return.                                                   *)
THEOREM DriverIsBlockDevice == Spec => RefinesBlockDevice
<1>1. Init => Device!BInit
  <2>. SUFFICES ASSUME Init PROVE Device!BInit
    BY ZenonT(30)
  <2>1. \A b \in Buf : Request(b) = "idle"
    BY ZenonT(30), RequestCases DEF Init
  <2>. QED
    BY ZenonT(30), <2>1 DEF Init, Device!BInit
<1>. QED
  BY <1>1, DeviceStep, DiskInvariance, PTL DEF Spec, RefinesBlockDevice, Device!BSpec
=============================================================================
