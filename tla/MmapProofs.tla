----------------------------- MODULE MmapProofs -----------------------------
(* The invariant of Mmap and what it says of physical pages, of the file's    *)
(* references and of what is written back, for any processes, sizes, modes.   *)
EXTENDS Mmap, FiniteSetTheorems, TLAPS

Vma == [valid : BOOLEAN, addr : Nat, len : Nat, write : BOOLEAN, shared : BOOLEAN]
Pte == [frame : Frame \cup {None}, write : BOOLEAN]

MmapTypeOK ==
  /\ state \in [Proc -> {"none", "run", "exit", "zombie"}] /\ sz \in [Proc -> Nat]
  /\ vma \in [Proc -> [Slot -> Vma]] /\ pt \in [Proc -> [Page -> Pte]]
  /\ ofile \in [Proc -> BOOLEAN] /\ freelist \in SUBSET Frame /\ ref \in Int

(* f->off stays in the file, so a write leaves no hole. *)
IsFile(s, n) == s = [x \in 1..n |-> s[x]] /\ Len(s) = n
FileInv == \E n \in 0..MAXFILE : IsFile(file, n) /\ off \in 0..n

(* What exit() has given up. *)
ExitInv ==
  \A p \in Proc :
    /\ state[p] # "run" => ~ofile[p]
    /\ state[p] \in {"none", "zombie"} => \A i \in Slot : ~vma[p][i].valid

IInv == MmapTypeOK /\ FileInv /\ ExitInv /\ FramesSafe /\ FileStaysOpen

-----------------------------------------------------------------------------
LEMMA NatMin ==
  ASSUME NEW T \in SUBSET Nat, T # {}
  PROVE  \E x \in T : \A y \in T : x <= y
<1>. DEFINE R == OpToRel(<, Nat)
<1>1. IsWellFoundedOn(R, Nat)
  BY Zenon, NatLessThanWellFounded
<1>2. \A x, y \in Nat : y < x => <<y, x>> \in R
  BY ZenonT(30) DEF OpToRel
<1>. HIDE DEF R
<1>3. PICK x \in T : \A y \in T : ~(<<y, x>> \in R)
  BY ZenonT(30), <1>1, WFMin
<1>4. \A y \in T : ~(y < x)
  BY ZenonT(30), <1>2, <1>3
<1>. QED
  BY <1>4

(* copyin() stops at the first page that is missing. *)
LEMMA ReadableType ==
  ASSUME NEW p, NEW a, NEW n \in Nat
  PROVE  Readable(p, a, n) \in 0..n
<1>. DEFINE Stops(k) == k = n \/ ~Present(pt[p], (a + k) \div PGSIZE)
            T == {k \in 0..n : Stops(k)}
<1>1. n \in T /\ T \in SUBSET Nat
  OBVIOUS
<1>2. PICK k \in T : \A j \in T : k <= j
  BY ZenonT(30), <1>1, NatMin
<1>3. \A j \in 0..(k - 1) : j \in 0..n /\ ~(k <= j)
  BY <1>2
<1>4. \A j \in 0..(k - 1) : Present(pt[p], (a + j) \div PGSIZE)
  BY ZenonT(30), <1>2, <1>3
<1>5. k < n => ~Present(pt[p], (a + k) \div PGSIZE)
  BY <1>2
<1>. QED
  BY ZenonT(30), <1>4, <1>5 DEF Readable

LEMMA WrittenType ==
  ASSUME FileInv, NEW p, NEW a, NEW n \in Nat
  PROVE  /\ Written(p, a, n) \in 0..(MAXFILE - off) /\ off \in Nat
         /\ ~WRITABLE => Written(p, a, n) = 0
<1>1. off \in 0..MAXFILE
  BY SizeAssumption DEF FileInv
<1>2. Readable(p, a, n) \in Nat
  BY ReadableType
<1>3. \A x, y \in Nat : Min({x, y}) \in {x, y} /\ Min({x, y}) <= y
  BY DEF Min
<1>4. MAXFILE - off \in Nat /\ off \in Nat /\ 0 \in 0..(MAXFILE - off)
  BY <1>1, SizeAssumption
<1>5. \A x, y \in Nat : x <= y => x \in 0..y
  OBVIOUS
<1>6. Min({Readable(p, a, n), MAXFILE - off}) \in 0..(MAXFILE - off)
  BY ZenonT(60), SMT, <1>2, <1>3, <1>4, <1>5
<1>. QED
  BY ZenonT(60), SMT, <1>4, <1>6 DEF Written

LEMMA FilewriteIs ==
  ASSUME FileInv, NEW p, NEW a, NEW n \in Nat
  PROVE  /\ \E m \in 0..MAXFILE : IsFile(Filewrite(p, a, n), m) /\ off + Written(p, a, n) \in 0..m
         /\ ~WRITABLE => Filewrite(p, a, n) = file
<1>. DEFINE k == Written(p, a, n)
            f == Filewrite(p, a, n)
<1>1. PICK l \in 0..MAXFILE : IsFile(file, l) /\ off \in 0..l
  BY ZenonT(30) DEF FileInv
<1>2. k \in 0..(MAXFILE - off) /\ (~WRITABLE => k = 0)
  BY ZenonT(30), WrittenType
<1>. DEFINE m == IF off + k > l THEN off + k ELSE l
<1>3. m \in 0..MAXFILE /\ off + k \in 0..m /\ (~WRITABLE => m = l)
  BY <1>1, <1>2, SizeAssumption
<1>4. f = [x \in 1..m |-> IF off < x /\ x <= off + k THEN At(p, a + x - 1 - off) ELSE file[x]]
  BY ZenonT(30), <1>1 DEF Filewrite, IsFile
<1>. HIDE DEF k, f, m
<1>5. f = [x \in 1..m |-> f[x]]
  BY ZenonT(30), <1>4
<1>6. Len(f) = m
  BY <1>3, <1>5
<1>7. ~WRITABLE => f = file
  BY <1>1, <1>2, <1>3, <1>4 DEF IsFile
<1>. QED
  BY ZenonT(30), <1>3, <1>5, <1>6, <1>7 DEF IsFile, k, f

LEMMA FreeSlotIs ==
  ASSUME NEW p, \E i \in Slot : ~vma[p][i].valid
  PROVE  FreeSlot(p) \in Slot /\ ~vma[p][FreeSlot(p)].valid
<1>. DEFINE T == {i \in Slot : ~vma[p][i].valid}
<1>0. T \in SUBSET Nat /\ T # {}
  BY SizeAssumption DEF Slot
<1>. HIDE DEF T
<1>1. PICK i \in T : \A j \in T : i <= j
  BY ZenonT(30), <1>0, NatMin
<1>. USE DEF T
<1>2. \A j \in 1..(i - 1) : j \in Slot /\ ~(i <= j)
  BY <1>1, SizeAssumption DEF Slot
<1>3. \A j \in 1..(i - 1) : vma[p][j].valid
  BY ZenonT(30), <1>1, <1>2
<1>. QED
  BY ZenonT(30), <1>3 DEF FreeSlot

LEMMA PagesType == Pages \subseteq Nat \ {0} /\ \A g \in Page : g * PGSIZE \in Nat
<1>1. \A x, y \in Nat \ {0} : x * y \in Nat \ {0}
  OBVIOUS
<1>2. \A x \in Nat, y \in Nat : x * y \in Nat
  OBVIOUS
<1>. QED
  BY <1>1, <1>2, SizeAssumption DEF Pages, Page

-----------------------------------------------------------------------------
LEMMA KallocIs ==
  ASSUME freelist # {}
  PROVE  Kalloc \in freelist
  BY ZenonT(30) DEF Kalloc

(* Memory for the copies is there when fork() counts enough free pages. *)
LEMMA InjectionExists ==
  ASSUME NEW S, NEW T, IsFiniteSet(S), IsFiniteSet(T), Cardinality(S) <= Cardinality(T)
  PROVE  \E h \in [S -> T] : IsInjective(h)
<1>. DEFINE m == Cardinality(S)
            n == Cardinality(T)
<1>1. m \in Nat /\ n \in Nat
  BY ZenonT(30), FS_CardinalityType
<1>2. PICK f : f \in Bijection(1..m, S)
  BY ZenonT(30), FS_CardinalityType DEF ExistsBijection
<1>3. PICK g : g \in Bijection(1..n, T)
  BY ZenonT(30), FS_CardinalityType DEF ExistsBijection
<1>4. \A x \in S : \E k \in 1..m : f[k] = x
  BY ZenonT(30), <1>2 DEF Bijection, Surjection
<1>. DEFINE h == [x \in S |-> g[CHOOSE k \in 1..m : f[k] = x]]
<1>5. ASSUME NEW x \in S
      PROVE  \E k \in 1..n : f[k] = x /\ h[x] = g[k]
  <2>. DEFINE k == CHOOSE k \in 1..m : f[k] = x
  <2>1. k \in 1..m /\ f[k] = x
    BY ZenonT(30), <1>4
  <2>2. m <= n
    BY ZenonT(30)
  <2>3. h[x] = g[k]
    BY ZenonT(30)
  <2>. HIDE DEF m, n, k, h
  <2>4. k \in 1..n
    BY <1>1, <2>1, <2>2
  <2>. QED
    BY ZenonT(30), <2>1, <2>3, <2>4
<1>6. g \in [1..n -> T] /\ \A i, j \in 1..n : g[i] = g[j] => i = j
  BY ZenonT(30), <1>3 DEF Bijection, Injection, IsInjective
<1>. HIDE DEF m, n
<1>7. \A x \in S : h[x] \in T
  BY <1>5, <1>6
<1>8. \A x, y \in S : h[x] = h[y] => x = y
  BY <1>5, <1>6
<1>9. h \in [S -> T]
  BY ZenonT(30), <1>7
<1>. HIDE DEF h
<1>10. IsInjective(h)
  BY ZenonT(30), <1>8, <1>9 DEF IsInjective
<1>. QED
  BY ZenonT(30), <1>9, <1>10

LEMMA CopiesIs ==
  ASSUME MmapTypeOK, NEW p \in Proc, Cardinality(PagesOf(p)) <= Cardinality(freelist)
  PROVE  Copies(p) \in [PagesOf(p) -> freelist] /\ IsInjective(Copies(p))
<1>1. IsFiniteSet(Page) /\ IsFiniteSet(Frame)
  <2>1. 0 \in Int /\ NPAGES - 1 \in Int /\ 1 \in Int /\ NFRAME \in Int
    BY SizeAssumption
  <2>. QED
    BY ZenonT(30), <2>1, FS_Interval DEF Page, Frame
<1>2. IsFiniteSet(PagesOf(p))
  BY ZenonT(30), <1>1, FS_Subset DEF PagesOf
<1>3. IsFiniteSet(freelist)
  BY ZenonT(30), <1>1, FS_Subset DEF MmapTypeOK
<1>4. \E h \in [PagesOf(p) -> freelist] : IsInjective(h)
  BY ZenonT(30), <1>2, <1>3, InjectionExists
<1>. QED
  BY ZenonT(30), <1>4 DEF Copies

(* The kinds of change to a page table and to a mapping. *)
LEMMA PteTypes ==
  /\ NoVma \in Vma /\ NoPte \in Pte
  /\ \A f \in Frame, b \in BOOLEAN : [frame |-> f, write |-> b] \in Pte
  /\ \A t \in [Page -> Pte] : \A S : Uvmunmap(t, S) \in [Page -> Pte]
  /\ \A v \in Vma, a \in Nat, n \in Nat : v.addr <= a /\ a + n <= v.addr + v.len => UnmapAt(v, a, n) \in Vma
<1>1. NoVma \in Vma /\ NoPte \in Pte
  BY ZenonT(30) DEF NoVma, Vma, NoPte, Pte
<1>2. ASSUME NEW v \in Vma, NEW a \in Nat, NEW n \in Nat, v.addr <= a, a + n <= v.addr + v.len
      PROVE  UnmapAt(v, a, n) \in Vma
  <2>1. v = [valid |-> v.valid, addr |-> v.addr, len |-> v.len, write |-> v.write, shared |-> v.shared]
        /\ v.valid \in BOOLEAN /\ v.addr \in Nat /\ v.len \in Nat /\ v.write \in BOOLEAN /\ v.shared \in BOOLEAN
    BY ZenonT(30) DEF Vma
  <2>2. v.len - n \in Nat /\ (IF a = v.addr THEN a + n ELSE v.addr) \in Nat
    BY <1>2, <2>1
  <2>. QED
    BY ZenonT(30), <2>1, <2>2 DEF UnmapAt, Vma
<1>. QED
  BY ZenonT(30), <1>1, <1>2 DEF Pte, Uvmunmap

LEMMA SlotsFinite == IsFiniteSet(Slot) /\ IsFiniteSet(Proc \X Slot)
<1>1. IsFiniteSet(Slot)
  BY FS_Interval, SizeAssumption DEF Slot
<1>. QED
  BY ZenonT(30), <1>1, FS_Product, ModeAssumption

LEMMA TypeStep ==
  ASSUME IInv, NEW p \in Proc
  PROVE  /\ \A len \in Pages, m \in Mode : Mmap(p, len, m) => MmapTypeOK'
         /\ \A g \in Page, n \in Pages : Munmap(p, g * PGSIZE, n) => MmapTypeOK'
         /\ Close(p) \/ Sbrk(p) \/ Exit(p) \/ ExitDone(p) \/ Wait(p) => MmapTypeOK'
         /\ \A a \in Addr : Store(p, a) \/ Fault(p, a) \/ FaultPresent(p, a) => MmapTypeOK'
         /\ \A q \in Proc : Fork(p, q) \/ ForkPanics(p, q) => MmapTypeOK'
         /\ \A i \in Slot : ExitVma(p, i) => MmapTypeOK'
<1>. USE DEF IInv, MmapTypeOK
<1>1. ASSUME NEW len \in Pages, NEW m \in Mode, Mmap(p, len, m) PROVE MmapTypeOK'
  <2>. DEFINE v == [valid |-> TRUE, addr |-> sz[p], len |-> len, write |-> m.write, shared |-> m.shared]
  <2>1. v \in Vma
    BY ZenonT(30), PagesType, ModeAssumption DEF Vma
  <2>2. CASE \E i \in Slot : ~vma[p][i].valid
    <3>0. vma' = [vma EXCEPT ![p][FreeSlot(p)] = v]
      BY ZenonT(30), <1>1, <2>2 DEF Mmap
    <3>1. vma' \in [Proc -> [Slot -> Vma]]
      <4>. HIDE DEF v
      <4>. QED
        BY ZenonT(30), <2>1, <3>0
    <3>2. sz' \in [Proc -> Nat]
      BY <1>1, <2>2, PagesType DEF Mmap
    <3>. QED
      BY <1>1, <3>1, <3>2 DEF Mmap
  <2>3. CASE ~\E i \in Slot : ~vma[p][i].valid
    BY <1>1, <2>3 DEF Mmap
  <2>. QED
    BY ZenonT(30), <2>2, <2>3
<1>2. ASSUME NEW g \in Page, NEW n \in Pages, Munmap(p, g * PGSIZE, n) PROVE MmapTypeOK'
  <2>1. g * PGSIZE \in Nat /\ n \in Nat
    BY ZenonT(30), PagesType
  <2>2. pt' \in [Proc -> [Page -> Pte]]
    BY <1>2, PteTypes DEF Munmap
  <2>3. vma' \in [Proc -> [Slot -> Vma]]
    BY <1>2, <2>1, PteTypes DEF Munmap
  <2>. QED
    BY <1>2, <2>2, <2>3 DEF Munmap
<1>3. ASSUME Close(p) PROVE MmapTypeOK'
  BY <1>3 DEF Close
<1>4. ASSUME Exit(p) PROVE MmapTypeOK'
  BY <1>4 DEF Exit
<1>5. ASSUME ExitDone(p) PROVE MmapTypeOK'
  BY ZenonT(30), <1>5 DEF ExitDone
<1>6. ASSUME Sbrk(p) PROVE MmapTypeOK'
  <2>1. [frame |-> Kalloc, write |-> TRUE] \in Pte
    BY ZenonT(30), <1>6, KallocIs, PteTypes DEF Sbrk
  <2>2. pt' \in [Proc -> [Page -> Pte]]
    BY ZenonT(30), <1>6, <2>1 DEF Sbrk
  <2>. QED
    BY <1>6, <2>2, SizeAssumption DEF Sbrk
<1>7. ASSUME Wait(p) PROVE MmapTypeOK'
  <2>1. pt' \in [Proc -> [Page -> Pte]]
    BY <1>7, PteTypes DEF Wait
  <2>2. freelist' \in SUBSET Frame
    BY <1>7 DEF Wait, Frames, PagesOf, Present, Pte
  <2>3. CASE \A g \in PagesOf(p) : Present(pt[p], g)
    <3>1. state' \in [Proc -> {"none", "run", "exit", "zombie"}]
      BY ZenonT(30), <1>7, <2>3 DEF Wait
    <3>2. sz' \in [Proc -> Nat]
      <4>1. sz' = [sz EXCEPT ![p] = 0]
        BY ZenonT(30), <1>7, <2>3 DEF Wait
      <4>. QED
        BY ZenonT(30), <4>1
    <3>. QED
      BY ZenonT(30), <1>7, <2>1, <2>2, <3>1, <3>2 DEF Wait
  <2>4. CASE ~\A g \in PagesOf(p) : Present(pt[p], g)
    BY ZenonT(30), <1>7, <2>4 DEF Wait
  <2>. QED
    BY ZenonT(30), <2>3, <2>4
<1>8. ASSUME NEW a \in Addr, Store(p, a) \/ FaultPresent(p, a) PROVE MmapTypeOK'
  BY ZenonT(30), <1>8 DEF Store, FaultPresent
<1>9. ASSUME NEW a \in Addr, Fault(p, a) PROVE MmapTypeOK'
  <2>1. PICK i \in Slot :
          pt' = [pt EXCEPT ![p][a \div PGSIZE] = [frame |-> Kalloc, write |-> vma[p][i].write]]
    BY ZenonT(30), <1>9 DEF Fault
  <2>2. [frame |-> Kalloc, write |-> vma[p][i].write] \in Pte
    BY <1>9, KallocIs, PteTypes DEF Fault, Vma
  <2>3. pt' \in [Proc -> [Page -> Pte]]
    BY ZenonT(30), <2>1, <2>2
  <2>. QED
    BY ZenonT(30), <1>9, <2>3 DEF Fault
<1>10. ASSUME NEW q \in Proc, ForkPanics(p, q) PROVE MmapTypeOK'
  BY ZenonT(30), <1>10 DEF ForkPanics
<1>12. ASSUME NEW q \in Proc, Fork(p, q) PROVE MmapTypeOK'
  <2>1. Copies(p) \in [PagesOf(p) -> freelist]
    BY ZenonT(30), <1>12, CopiesIs DEF Fork
  <2>2. ASSUME NEW g \in PagesOf(p)
        PROVE  ChildPte(p, g, Copies(p)[g]) \in Pte
    <3>1. Copies(p)[g] \in Frame
      BY ZenonT(30), <2>1
    <3>2. pt[p][g] \in Pte
      BY ZenonT(30) DEF PagesOf
    <3>. QED
      BY ZenonT(30), <3>1, <3>2 DEF ChildPte, Pte
  <2>3. [g \in Page |-> IF g \in PagesOf(p) THEN ChildPte(p, g, Copies(p)[g]) ELSE NoPte] \in [Page -> Pte]
    BY ZenonT(30), <2>2, PteTypes
  <2>4. pt' \in [Proc -> [Page -> Pte]]
    BY ZenonT(30), <1>12, <2>3 DEF Fork
  <2>5. ref' \in Int
    <3>1. Cardinality({i \in Slot : vma[p][i].valid}) \in Nat
      BY ZenonT(30), SlotsFinite, FS_Subset, FS_CardinalityType
    <3>. QED
      BY <1>12, <3>1 DEF Fork, ForkRef
  <2>. QED
    BY ZenonT(30), <1>12, <2>4, <2>5 DEF Fork
<1>11. ASSUME NEW i \in Slot, ExitVma(p, i) PROVE MmapTypeOK'
  <2>1. pt' \in [Proc -> [Page -> Pte]]
    BY ZenonT(30), <1>11, PteTypes DEF ExitVma
  <2>. QED
    BY <1>11, <2>1, PteTypes DEF ExitVma
<1>. QED
  BY ZenonT(30), <1>1, <1>2, <1>3, <1>4, <1>5, <1>6, <1>7, <1>8, <1>9, <1>10, <1>11, <1>12

-----------------------------------------------------------------------------
(* The file, and what exit() has given up. *)
LEMMA FileStep ==
  ASSUME IInv, NEW p \in Proc, NEW a, NEW n \in Nat, NEW v,
         file' = IF WritesBack(v) THEN Filewrite(p, a, n) ELSE file,
         off' = IF WritesBack(v) THEN off + Written(p, a, n) ELSE off
  PROVE  FileInv' /\ (file' # file => WRITABLE /\ v.shared)
<1>1. CASE WritesBack(v)
  <2>1. file' = Filewrite(p, a, n) /\ off' = off + Written(p, a, n)
    BY ZenonT(30), <1>1
  <2>2. PICK m \in 0..MAXFILE : IsFile(file', m) /\ off' \in 0..m
    BY <2>1, FilewriteIs DEF IInv
  <2>3. file' # file => WRITABLE
    BY ZenonT(30), <2>1, FilewriteIs DEF IInv
  <2>. QED
    BY ZenonT(30), <1>1, <2>2, <2>3 DEF FileInv, WritesBack
<1>2. CASE ~WritesBack(v)
  BY ZenonT(30), <1>2 DEF IInv, FileInv
<1>. QED
  BY ZenonT(30), <1>1, <1>2

LEMMA ExitStep ==
  ASSUME IInv, NEW p \in Proc
  PROVE  /\ \A len \in Pages, m \in Mode : Mmap(p, len, m) => ExitInv'
         /\ \A g \in Page, n \in Pages : Munmap(p, g * PGSIZE, n) => ExitInv'
         /\ \A q \in Proc : Fork(p, q) => ExitInv'
         /\ Close(p) => ExitInv'
         /\ Exit(p) => ExitInv'
         /\ \A i \in Slot : ExitVma(p, i) => ExitInv'
         /\ ExitDone(p) => ExitInv'
         /\ Wait(p) => ExitInv'
<1>. USE DEF IInv, MmapTypeOK, ExitInv
<1>1. ASSUME NEW len \in Pages, NEW m \in Mode, Mmap(p, len, m) PROVE ExitInv'
  <2>1. \A r \in Proc : r # p => vma'[r] = vma[r]
    BY ZenonT(30), <1>1 DEF Mmap
  <2>. QED
    BY ZenonT(30), <1>1, <2>1 DEF Mmap, Runs
<1>2. ASSUME NEW g \in Page, NEW n \in Pages, Munmap(p, g * PGSIZE, n) PROVE ExitInv'
  <2>1. \A r \in Proc : r # p => vma'[r] = vma[r]
    BY ZenonT(30), <1>2 DEF Munmap
  <2>. QED
    BY ZenonT(30), <1>2, <2>1 DEF Munmap, Runs
<1>3. ASSUME NEW q \in Proc, Fork(p, q) PROVE ExitInv'
  BY ZenonT(30), <1>3 DEF Fork, Runs
<1>4. ASSUME Close(p) PROVE ExitInv'
  BY ZenonT(30), <1>4 DEF Close, Runs
<1>5. ASSUME Exit(p) PROVE ExitInv'
  BY ZenonT(30), <1>5 DEF Exit, Runs
<1>6. ASSUME NEW i \in Slot, ExitVma(p, i) PROVE ExitInv'
  <2>1. \A r \in Proc : r # p => vma'[r] = vma[r]
    BY ZenonT(30), <1>6 DEF ExitVma
  <2>. QED
    BY ZenonT(30), <1>6, <2>1 DEF ExitVma
<1>7. ASSUME ExitDone(p) PROVE ExitInv'
  BY ZenonT(30), <1>7 DEF ExitDone
<1>8. ASSUME Wait(p) PROVE ExitInv'
  <2>1. /\ UNCHANGED <<vma, ofile>>
        /\ state' = [state EXCEPT ![p] = "none"] \/ state' = state
        /\ state[p] = "zombie"
    BY ZenonT(30), <1>8 DEF Wait
  <2>2. \A r \in Proc : state'[r] = state[r] \/ (state'[r] = "none" /\ state[r] = "zombie")
    BY ZenonT(30), <2>1
  <2>. QED
    BY ZenonT(30), <2>1, <2>2
<1>. QED
  BY ZenonT(30), <1>1, <1>2, <1>3, <1>4, <1>5, <1>6, <1>7, <1>8

-----------------------------------------------------------------------------
(* The physical pages: a page that kalloc() gave is mapped, pages are given   *)
(* up, and fork() maps copies. *)
LEMMA FrameMapped ==
  ASSUME IInv, NEW p \in Proc, NEW k, NEW b, freelist # {},
         pt' = [pt EXCEPT ![p][k] = [frame |-> Kalloc, write |-> b]], freelist' = freelist \ {Kalloc}
  PROVE  FramesSafe'
<1>1. Kalloc \in freelist
  BY ZenonT(30), KallocIs
<1>2. \A r \in Proc, h \in Page :
        IF r = p /\ h = k THEN Mapped(r, h)' = Kalloc ELSE Mapped(r, h)' = Mapped(r, h)
  BY ZenonT(30) DEF IInv, MmapTypeOK, Mapped
<1>3. SUFFICES ASSUME NEW r \in Proc, NEW q \in Proc, NEW g \in Page, NEW h \in Page, Mapped(r, g)' # None
               PROVE  /\ Mapped(r, g)' \notin freelist'
                      /\ Mapped(r, g)' = Mapped(q, h)' => r = q /\ g = h
  BY ZenonT(30) DEF FramesSafe, Present, Mapped
<1>4. \A x, y \in Proc, u, w \in Page : Mapped(x, u) # None =>
        Mapped(x, u) \notin freelist /\ (Mapped(x, u) = Mapped(y, w) => x = y /\ u = w)
  BY ZenonT(30) DEF IInv, FramesSafe, Present, Mapped
<1>5. Kalloc # None
  BY ZenonT(30), <1>1, ModeAssumption DEF IInv, MmapTypeOK, Frame
<1>6. CASE r = p /\ g = k
  BY <1>1, <1>2, <1>4, <1>5, <1>6
<1>7. CASE ~(r = p /\ g = k)
  BY <1>1, <1>2, <1>3, <1>4, <1>7
<1>. QED
  BY ZenonT(30), <1>6, <1>7

LEMMA PagesUnmapped ==
  ASSUME IInv, NEW p \in Proc, NEW S \in SUBSET Page, pt' = [pt EXCEPT ![p] = Uvmunmap(@, S)],
         \/ freelist' = freelist
         \/ freelist' = freelist \cup Frames(p, S) /\ \A g \in S : Present(pt[p], g)
  PROVE  FramesSafe'
<1>1. \A r \in Proc, h \in Page :
        IF r = p /\ h \in S THEN Mapped(r, h)' = None ELSE Mapped(r, h)' = Mapped(r, h)
  BY ZenonT(30) DEF IInv, MmapTypeOK, Mapped, Uvmunmap, NoPte
<1>2. SUFFICES ASSUME NEW r \in Proc, NEW q \in Proc, NEW g \in Page, NEW h \in Page, Mapped(r, g)' # None
               PROVE  /\ Mapped(r, g)' \notin freelist'
                      /\ Mapped(r, g)' = Mapped(q, h)' => r = q /\ g = h
  BY ZenonT(30) DEF FramesSafe, Present, Mapped
<1>3. \A x, y \in Proc, u, w \in Page : Mapped(x, u) # None =>
        Mapped(x, u) \notin freelist /\ (Mapped(x, u) = Mapped(y, w) => x = y /\ u = w)
  BY ZenonT(30) DEF IInv, FramesSafe, Present, Mapped
<1>4. Mapped(r, g)' = Mapped(r, g) /\ ~(r = p /\ g \in S)
  BY ZenonT(30), <1>1, <1>2
<1>5. \A x \in Frames(p, S) : \E w \in S : x = Mapped(p, w)
  BY ZenonT(30) DEF Frames, Mapped
<1>6. Mapped(r, g) \notin Frames(p, S)
  BY <1>2, <1>3, <1>4, <1>5
<1>7. Mapped(r, g)' \notin freelist'
  BY <1>2, <1>3, <1>4, <1>6
<1>. QED
  BY <1>1, <1>2, <1>3, <1>4, <1>7

LEMMA PagesCopied ==
  ASSUME IInv, NEW p \in Proc, NEW q \in Proc, Fork(p, q)
  PROVE  FramesSafe'
<1>. DEFINE new == Copies(p)
<1>1. new \in [PagesOf(p) -> freelist] /\ IsInjective(new)
  BY ZenonT(30), CopiesIs DEF IInv, Fork
<1>2. \A g \in PagesOf(p), h \in PagesOf(p) : new[g] = new[h] => g = h
  BY ZenonT(30), <1>1 DEF IsInjective
<1>3. \A g \in PagesOf(p) : new[g] \in freelist /\ new[g] \notin freelist' /\ new[g] # None
  <2>1. freelist' = freelist \ Range(new)
    BY ZenonT(30) DEF Fork
  <2>. HIDE DEF new
  <2>2. \A g \in PagesOf(p) : new[g] \in Range(new)
    BY ZenonT(30), <1>1 DEF Range
  <2>. QED
    BY ZenonT(30), <1>1, <2>1, <2>2, ModeAssumption DEF IInv, MmapTypeOK, Frame
<1>4. freelist' \subseteq freelist
  BY ZenonT(30) DEF Fork
<1>5. \A r \in Proc, h \in Page :
        /\ r # q => Mapped(r, h)' = Mapped(r, h)
        /\ r = q /\ h \in PagesOf(p) => Mapped(r, h)' = new[h]
        /\ r = q /\ h \notin PagesOf(p) => Mapped(r, h)' = None
  <2>1. pt' = [pt EXCEPT ![q] = [g \in Page |-> IF g \in PagesOf(p) THEN ChildPte(p, g, new[g]) ELSE NoPte]]
    BY ZenonT(30) DEF Fork
  <2>. HIDE DEF new
  <2>2. \A g \in PagesOf(p) : ChildPte(p, g, new[g]).frame = new[g]
    BY DEF IInv, MmapTypeOK, ChildPte, Pte, PagesOf
  <2>. QED
    BY ZenonT(30), <2>1, <2>2 DEF IInv, MmapTypeOK, Mapped, NoPte
<1>. HIDE DEF new
<1>6. SUFFICES ASSUME NEW r \in Proc, NEW t \in Proc, NEW g \in Page, NEW h \in Page, Mapped(r, g)' # None
               PROVE  /\ Mapped(r, g)' \notin freelist'
                      /\ Mapped(r, g)' = Mapped(t, h)' => r = t /\ g = h
  BY ZenonT(30) DEF FramesSafe, Present, Mapped
<1>7. \A x, y \in Proc, u, w \in Page : Mapped(x, u) # None =>
        Mapped(x, u) \notin freelist /\ (Mapped(x, u) = Mapped(y, w) => x = y /\ u = w)
  BY ZenonT(30) DEF IInv, FramesSafe, Present, Mapped
<1>8. CASE r = q
  <2>1. g \in PagesOf(p) /\ Mapped(r, g)' = new[g]
    BY ZenonT(30), <1>5, <1>6, <1>8
  <2>2. Mapped(t, h)' = new[g] => t = q /\ h \in PagesOf(p)
    BY <1>3, <1>5, <1>7, <2>1
  <2>. QED
    BY ZenonT(30), <1>2, <1>3, <1>5, <1>8, <2>1, <2>2
<1>9. CASE r # q
  <2>1. Mapped(r, g)' = Mapped(r, g) /\ Mapped(r, g) \notin freelist
    BY <1>5, <1>6, <1>7, <1>9
  <2>2. Mapped(t, h)' = Mapped(r, g) => t # q
    BY <1>3, <1>5, <1>6, <2>1
  <2>. QED
    BY <1>4, <1>5, <1>6, <1>7, <2>1, <2>2
<1>. QED
  BY ZenonT(30), <1>8, <1>9

-----------------------------------------------------------------------------
(* The references to the file: the descriptors and the mappings that hold it. *)
Open == {p \in Proc : ofile[p]}
Held == {x \in Proc \X Slot : vma[x[1]][x[2]].valid}

LEMMA RefsCounted ==
  ASSUME IInv
  PROVE  /\ IsFiniteSet(Open) /\ Cardinality(Open) \in Nat
         /\ IsFiniteSet(Held) /\ Cardinality(Held) \in Nat
         /\ ref \in Int /\ ref >= Cardinality(Open) + Cardinality(Held)
<1>1. IsFiniteSet(Open)
  BY ZenonT(30), FS_Subset, ModeAssumption DEF Open
<1>2. IsFiniteSet(Held)
  BY ZenonT(30), FS_Subset, SlotsFinite DEF Held
<1>. QED
  BY ZenonT(30), <1>1, <1>2, FS_CardinalityType DEF IInv, MmapTypeOK, FileStaysOpen, Open, Held

(* A mapping is made, or one is given up. *)
LEMMA HeldChanges ==
  ASSUME IInv, NEW p \in Proc, NEW i \in Slot, NEW v \in Vma, vma' = [vma EXCEPT ![p][i] = v]
  PROVE  IF v.valid THEN Held' = Held \cup {<<p, i>>} ELSE Held' = Held \ {<<p, i>>}
<1>1. \A r \in Proc, j \in Slot : vma'[r][j] = IF r = p /\ j = i THEN v ELSE vma[r][j]
  BY ZenonT(30) DEF IInv, MmapTypeOK
<1>2. \A x \in Proc \X Slot : x = <<p, i>> <=> x[1] = p /\ x[2] = i
  OBVIOUS
<1>. QED
  BY <1>1, <1>2 DEF Held

LEMMA Closed ==
  ASSUME IInv, NEW p \in Proc, ofile[p], UNCHANGED vma,
         ofile' = [ofile EXCEPT ![p] = FALSE], ref' = ref - 1
  PROVE  FileStaysOpen'
<1>1. Open' = Open \ {p} /\ p \in Open /\ Held' = Held
  BY ZenonT(30) DEF IInv, MmapTypeOK, Open, Held
<1>2. Cardinality(Open') = Cardinality(Open) - 1
  BY ZenonT(30), <1>1, RefsCounted, FS_RemoveElement
<1>3. ref' >= Cardinality(Open') + Cardinality(Held')
  BY <1>1, <1>2, RefsCounted
<1>. QED
  BY ZenonT(30), <1>3 DEF FileStaysOpen, Open, Held

LEMMA VmaMade ==
  ASSUME IInv, NEW p \in Proc, NEW len \in Pages, NEW m \in Mode, Mmap(p, len, m)
  PROVE  FileStaysOpen'
<1>1. Open' = Open /\ ref' = ref + 1
  BY ZenonT(30) DEF Mmap, Open
<1>2. Cardinality(Held') <= Cardinality(Held) + 1 /\ Cardinality(Held') \in Nat
  <2>1. CASE \E i \in Slot : ~vma[p][i].valid
    <3>. DEFINE v == [valid |-> TRUE, addr |-> sz[p], len |-> len, write |-> m.write, shared |-> m.shared]
    <3>1. vma' = [vma EXCEPT ![p][FreeSlot(p)] = v]
      BY ZenonT(30), <2>1 DEF Mmap
    <3>2. v \in Vma /\ v.valid
      BY ZenonT(30), PagesType, ModeAssumption DEF IInv, MmapTypeOK, Vma
    <3>3. FreeSlot(p) \in Slot
      BY ZenonT(30), <2>1, FreeSlotIs
    <3>. HIDE DEF v
    <3>4. Held' = Held \cup {<<p, FreeSlot(p)>>}
      BY ZenonT(30), <3>1, <3>2, <3>3, HeldChanges
    <3>5. Cardinality(Held') = IF <<p, FreeSlot(p)>> \in Held THEN Cardinality(Held) ELSE Cardinality(Held) + 1
      BY ZenonT(30), <3>4, RefsCounted, FS_AddElement
    <3>. QED
      BY <3>5, RefsCounted
  <2>2. CASE ~\E i \in Slot : ~vma[p][i].valid
    <3>1. Held' = Held
      BY ZenonT(30), <2>2 DEF Mmap, Held
    <3>. QED
      BY <3>1, RefsCounted
  <2>. QED
    BY ZenonT(30), <2>1, <2>2
<1>3. ref' >= Cardinality(Open') + Cardinality(Held')
  BY <1>1, <1>2, RefsCounted
<1>. QED
  BY ZenonT(30), <1>3 DEF FileStaysOpen, Open, Held

(* munmap() and exit() close the file with the mapping. *)
LEMMA VmaGivenUp ==
  ASSUME IInv, NEW p \in Proc, NEW i \in Slot, vma[p][i].valid, NEW v \in Vma,
         vma' = [vma EXCEPT ![p][i] = v], UNCHANGED ofile,
         ref' = IF v.valid THEN ref ELSE ref - 1
  PROVE  FileStaysOpen'
<1>1. Open' = Open /\ <<p, i>> \in Held
  BY ZenonT(30) DEF Open, Held
<1>2. CASE v.valid
  <2>0. Held' = Held \cup {<<p, i>>}
    BY ZenonT(30), <1>2, HeldChanges
  <2>1. Held' = Held
    BY ZenonT(30), <1>1, <2>0
  <2>2. ref' >= Cardinality(Open') + Cardinality(Held')
    BY ZenonT(30), <1>1, <1>2, <2>1, RefsCounted
  <2>. QED
    BY ZenonT(30), <2>2 DEF FileStaysOpen, Open, Held
<1>3. CASE ~v.valid
  <2>1. Held' = Held \ {<<p, i>>}
    BY ZenonT(30), <1>3, HeldChanges
  <2>2. Cardinality(Held') = Cardinality(Held) - 1
    BY ZenonT(30), <1>1, <2>1, RefsCounted, FS_RemoveElement
  <2>3. ref' >= Cardinality(Open') + Cardinality(Held')
    BY <1>1, <1>3, <2>2, RefsCounted
  <2>. QED
    BY ZenonT(30), <2>3 DEF FileStaysOpen, Open, Held
<1>. QED
  BY ZenonT(30), <1>2, <1>3

(* fork() takes one for everything that the child gets. *)
LEMMA FilesDuped ==
  ASSUME IInv, NEW p \in Proc, NEW q \in Proc, Fork(p, q)
  PROVE  FileStaysOpen'
<1>. DEFINE V == {i \in Slot : vma[p][i].valid}
            C == {x \in {q} \X Slot : vma[p][x[2]].valid}
<1>1. state[q] = "none" /\ ~ofile[q] /\ \A i \in Slot : ~vma[q][i].valid
  BY ZenonT(30) DEF Fork, IInv, ExitInv
<1>2. Open' = (IF ofile[p] THEN Open \cup {q} ELSE Open) /\ q \notin Open
  BY ZenonT(30), <1>1 DEF Fork, Open, IInv, MmapTypeOK
<1>3. Cardinality(Open') = Cardinality(Open) + IF ofile[p] THEN 1 ELSE 0
  <2>1. CASE ofile[p]
    <3>1. Open' = Open \cup {q}
      BY ZenonT(30), <1>2, <2>1
    <3>2. Cardinality(Open') = Cardinality(Open) + 1
      BY ZenonT(30), <1>2, <3>1, RefsCounted, FS_AddElement
    <3>. QED
      BY ZenonT(30), <2>1, <3>2
  <2>2. CASE ~ofile[p]
    BY <1>2, <2>2, RefsCounted
  <2>. QED
    BY ZenonT(30), <2>1, <2>2
<1>4. Held' = Held \cup C /\ Held \cap C = {}
  <2>1. \A r \in Proc : vma'[r] = IF r = q THEN vma[p] ELSE vma[r]
    BY ZenonT(30) DEF Fork, IInv, MmapTypeOK
  <2>. QED
    BY <1>1, <2>1 DEF Held
<1>5. IsFiniteSet(V) /\ Cardinality(V) \in Nat
  BY ZenonT(30), SlotsFinite, FS_Subset, FS_CardinalityType
<1>6. IsFiniteSet(C) /\ Cardinality(C) = Cardinality(V)
  <2>. DEFINE b == [i \in V |-> <<q, i>>]
  <2>1. b \in Bijection(V, C)
    <3>1. b \in [V -> C]
      BY ZenonT(30)
    <3>2. \A i, j \in V : b[i] = b[j] => i = j
      BY ZenonT(30)
    <3>3. \A x \in C : x[2] \in V /\ b[x[2]] = x
      OBVIOUS
    <3>. HIDE DEF b, V, C
    <3>. QED
      BY ZenonT(30), <3>1, <3>2, <3>3 DEF Bijection, Injection, Surjection, IsInjective
  <2>2. ExistsBijection(V, C)
    BY ZenonT(30), <2>1 DEF ExistsBijection
  <2>. HIDE DEF b, V, C
  <2>. QED
    BY ZenonT(30), <1>5, <2>2, FS_Bijection
<1>7. Cardinality(Held') = Cardinality(Held) + Cardinality(C)
  <2>. HIDE DEF C
  <2>1. Cardinality(Held \cup C) = Cardinality(Held) + Cardinality(C) - Cardinality(Held \cap C)
    BY ZenonT(30), <1>6, RefsCounted, FS_Union
  <2>2. Cardinality(Held \cap C) = 0
    BY ZenonT(30), <1>4, FS_EmptySet
  <2>. QED
    BY <1>4, <1>5, <1>6, <2>1, <2>2, RefsCounted
<1>8. ref' = ref + Cardinality(V) + IF ofile[p] THEN 1 ELSE 0
  <2>1. ref' = ref + ForkRef(p)
    BY ZenonT(30) DEF Fork
  <2>. HIDE DEF C
  <2>. QED
    BY <1>5, <2>1, RefsCounted DEF ForkRef
<1>. HIDE DEF V, C
<1>9. ref' >= Cardinality(Open') + Cardinality(Held')
  BY <1>3, <1>5, <1>6, <1>7, <1>8, RefsCounted
<1>. QED
  BY ZenonT(30), <1>9 DEF FileStaysOpen, Open, Held

-----------------------------------------------------------------------------
(* The steps. *)
LEMMA Kept ==
  ASSUME IInv
  PROVE  /\ UNCHANGED <<file, off>> => FileInv'
         /\ UNCHANGED <<state, vma, ofile>> => ExitInv'
         /\ UNCHANGED <<pt, freelist>> => FramesSafe'
         /\ UNCHANGED <<vma, ofile, ref>> => FileStaysOpen'
<1>1. UNCHANGED <<file, off>> => FileInv'
  BY ZenonT(30) DEF IInv, FileInv, IsFile
<1>2. UNCHANGED <<state, vma, ofile>> => ExitInv'
  BY ZenonT(30) DEF IInv, ExitInv
<1>3. UNCHANGED <<pt, freelist>> => FramesSafe'
  BY DEF IInv, FramesSafe, Present, Mapped
<1>4. UNCHANGED <<vma, ofile, ref>> => FileStaysOpen'
  BY ZenonT(30) DEF IInv, FileStaysOpen
<1>. QED
  BY ZenonT(30), <1>1, <1>2, <1>3, <1>4

LEMMA MunmapKeeps ==
  ASSUME IInv, NEW p \in Proc, NEW g \in Page, NEW n \in Pages, Munmap(p, g * PGSIZE, n)
  PROVE  IInv' /\ WrittenBack
<1>. DEFINE a == g * PGSIZE
            S == PagesIn(a, n)
<1>1. a \in Nat /\ n \in Nat \ {0}
  BY ZenonT(30), PagesType
<1>2. PICK i \in Slot :
        /\ vma[p][i].valid /\ vma[p][i].addr <= a /\ a + n <= vma[p][i].addr + vma[p][i].len
        /\ file' = IF WritesBack(vma[p][i]) THEN Filewrite(p, a, n) ELSE file
        /\ off' = IF WritesBack(vma[p][i]) THEN off + Written(p, a, n) ELSE off
        /\ vma' = [vma EXCEPT ![p][i] = IF vma[p][i].len = n THEN NoVma ELSE UnmapAt(vma[p][i], a, n)]
        /\ ref' = IF vma[p][i].len = n THEN ref - 1 ELSE ref
        /\ pt' = [pt EXCEPT ![p] = Uvmunmap(@, S)]
  BY ZenonT(30) DEF Munmap
<1>. DEFINE v == IF vma[p][i].len = n THEN NoVma ELSE UnmapAt(vma[p][i], a, n)
<1>3. vma[p][i] \in Vma
  BY ZenonT(30) DEF IInv, MmapTypeOK
<1>4. v \in Vma /\ (v.valid <=> vma[p][i].len # n) /\ v # vma[p][i]
  <2>1. CASE vma[p][i].len = n
    BY <1>2, <2>1, PteTypes DEF NoVma
  <2>2. CASE vma[p][i].len # n
    <3>1. UnmapAt(vma[p][i], a, n) \in Vma
      BY ZenonT(30), <1>1, <1>2, <1>3, PteTypes
    <3>2. UnmapAt(vma[p][i], a, n).valid /\ UnmapAt(vma[p][i], a, n).len = vma[p][i].len - n
      BY ZenonT(30), <1>2, <1>3 DEF UnmapAt, Vma
    <3>3. vma[p][i].len - n # vma[p][i].len
      BY <1>1, <1>3 DEF Vma
    <3>. QED
      BY ZenonT(30), <2>2, <3>1, <3>2, <3>3
  <2>. QED
    BY ZenonT(30), <2>1, <2>2
<1>5. vma' = [vma EXCEPT ![p][i] = v] /\ UNCHANGED <<ofile, freelist>>
  BY ZenonT(30), <1>2 DEF Munmap
<1>6. MmapTypeOK' /\ ExitInv'
  BY ZenonT(30), TypeStep, ExitStep
<1>7. FileInv' /\ (file' # file => WRITABLE /\ vma[p][i].shared)
  <2>. HIDE DEF a
  <2>. QED
    BY ZenonT(30), <1>1, <1>2, FileStep
<1>8. FramesSafe'
  <2>1. S \in SUBSET Page
    BY ZenonT(30) DEF PagesIn
  <2>. HIDE DEF S
  <2>. QED
    BY ZenonT(30), <1>2, <1>5, <2>1, PagesUnmapped
<1>9. FileStaysOpen'
  <2>1. ref' = IF v.valid THEN ref ELSE ref - 1
    BY ZenonT(30), <1>2, <1>4
  <2>. HIDE DEF v
  <2>. QED
    BY ZenonT(30), <1>2, <1>4, <1>5, <2>1, VmaGivenUp
<1>10. vma'[p][i] # vma[p][i]
  <2>. HIDE DEF v
  <2>. QED
    BY ZenonT(30), <1>4, <1>5 DEF IInv, MmapTypeOK
<1>. QED
  BY ZenonT(30), <1>2, <1>6, <1>7, <1>8, <1>9, <1>10 DEF IInv, WrittenBack

LEMMA ExitVmaKeeps ==
  ASSUME IInv, NEW p \in Proc, NEW i \in Slot, ExitVma(p, i)
  PROVE  IInv' /\ WrittenBack
<1>. DEFINE v == vma[p][i]
            S == PagesIn(v.addr, v.len)
<1>1. v \in Vma /\ v.valid /\ v.len \in Nat
  BY ZenonT(30) DEF ExitVma, IInv, MmapTypeOK, Vma
<1>2. /\ file' = IF WritesBack(v) THEN Filewrite(p, v.addr, v.len) ELSE file
      /\ off' = IF WritesBack(v) THEN off + Written(p, v.addr, v.len) ELSE off
      /\ vma' = [vma EXCEPT ![p][i] = NoVma] /\ ref' = ref - 1
      /\ pt' = [pt EXCEPT ![p] = Uvmunmap(@, S)]
      /\ UNCHANGED <<ofile, freelist>>
  BY ZenonT(30) DEF ExitVma
<1>3. NoVma \in Vma /\ ~NoVma.valid
  BY ZenonT(30), PteTypes DEF NoVma
<1>4. MmapTypeOK' /\ ExitInv'
  BY ZenonT(30), TypeStep, ExitStep
<1>5. FramesSafe'
  <2>1. S \in SUBSET Page
    BY ZenonT(30) DEF PagesIn
  <2>. HIDE DEF S
  <2>. QED
    BY ZenonT(30), <1>2, <2>1, PagesUnmapped
<1>6. FileStaysOpen'
  BY ZenonT(30), <1>1, <1>2, <1>3, VmaGivenUp
<1>7. vma'[p][i] # v
  BY ZenonT(30), <1>1, <1>2, <1>3 DEF IInv, MmapTypeOK
<1>. HIDE DEF S
<1>8. FileInv' /\ (file' # file => WRITABLE /\ v.shared)
  <2>. DEFINE x == v.addr
  <2>. HIDE DEF x
  <2>. QED
    BY ZenonT(30), <1>1, <1>2, FileStep DEF x
<1>. QED
  BY ZenonT(30), <1>1, <1>4, <1>5, <1>6, <1>7, <1>8 DEF IInv, WrittenBack

LEMMA OthersKeep ==
  ASSUME IInv, NEW p \in Proc
  PROVE  /\ \A len \in Pages, m \in Mode : Mmap(p, len, m) => IInv' /\ WrittenBack
         /\ Close(p) \/ Sbrk(p) \/ Exit(p) \/ ExitDone(p) \/ Wait(p) => IInv' /\ WrittenBack
         /\ \A a \in Addr : Store(p, a) \/ Fault(p, a) \/ FaultPresent(p, a) => IInv' /\ WrittenBack
         /\ \A q \in Proc : Fork(p, q) \/ ForkPanics(p, q) => IInv' /\ WrittenBack
<1>0. ASSUME MmapTypeOK', ExitInv', FramesSafe', FileStaysOpen', UNCHANGED <<file, off>>
      PROVE  IInv' /\ WrittenBack
  BY ZenonT(30), <1>0, Kept DEF IInv, WrittenBack
<1>1. ASSUME NEW len \in Pages, NEW m \in Mode, Mmap(p, len, m) PROVE IInv' /\ WrittenBack
  <2>1. UNCHANGED <<pt, freelist, file, off>>
    BY ZenonT(30), <1>1 DEF Mmap
  <2>. QED
    BY ZenonT(30), <1>0, <1>1, <2>1, TypeStep, ExitStep, VmaMade, Kept
<1>2. ASSUME Close(p) PROVE IInv' /\ WrittenBack
  <2>1. UNCHANGED <<pt, freelist, file, off>> /\ FileStaysOpen'
    BY ZenonT(30), <1>2, Closed DEF Close
  <2>. QED
    BY ZenonT(30), <1>0, <1>2, <2>1, TypeStep, ExitStep, Kept
<1>3. ASSUME Sbrk(p) PROVE IInv' /\ WrittenBack
  <2>1. UNCHANGED <<state, vma, ofile, ref, file, off>>
    BY ZenonT(30), <1>3 DEF Sbrk
  <2>2. FramesSafe'
    BY ZenonT(30), <1>3, FrameMapped DEF Sbrk
  <2>. QED
    BY ZenonT(30), <1>0, <1>3, <2>1, <2>2, TypeStep, Kept
<1>4. ASSUME Exit(p) PROVE IInv' /\ WrittenBack
  <2>1. UNCHANGED <<vma, pt, freelist, file, off>>
    BY ZenonT(30), <1>4 DEF Exit
  <2>2. CASE ofile[p]
    <3>1. FileStaysOpen'
      BY ZenonT(30), <1>4, <2>2, Closed DEF Exit
    <3>. QED
      BY ZenonT(30), <1>0, <1>4, <2>1, <3>1, TypeStep, ExitStep, Kept
  <2>3. CASE ~ofile[p]
    <3>1. ofile' = ofile /\ ref' = ref
      BY ZenonT(30), <1>4, <2>3 DEF Exit, IInv, MmapTypeOK
    <3>. QED
      BY ZenonT(30), <1>0, <1>4, <2>1, <3>1, TypeStep, ExitStep, Kept
  <2>. QED
    BY ZenonT(30), <2>2, <2>3
<1>5. ASSUME ExitDone(p) PROVE IInv' /\ WrittenBack
  <2>1. UNCHANGED <<vma, ofile, ref, pt, freelist, file, off>>
    BY ZenonT(30), <1>5 DEF ExitDone
  <2>. QED
    BY ZenonT(30), <1>0, <1>5, <2>1, TypeStep, ExitStep, Kept
<1>6. ASSUME Wait(p) PROVE IInv' /\ WrittenBack
  <2>1. UNCHANGED <<vma, ofile, ref, file, off>>
    BY ZenonT(30), <1>6 DEF Wait
  <2>2. FramesSafe'
    <3>1. CASE \A g \in PagesOf(p) : Present(pt[p], g)
      BY ZenonT(30), <1>6, <3>1, PagesUnmapped DEF Wait, PagesOf
    <3>2. CASE ~\A g \in PagesOf(p) : Present(pt[p], g)
      BY ZenonT(30), <1>6, <3>2, Kept DEF Wait
    <3>. QED
      BY ZenonT(30), <3>1, <3>2
  <2>. QED
    BY ZenonT(30), <1>0, <1>6, <2>1, <2>2, TypeStep, ExitStep, Kept
<1>7. ASSUME NEW a \in Addr, Store(p, a) \/ FaultPresent(p, a) PROVE IInv' /\ WrittenBack
  <2>1. UNCHANGED <<state, vma, ofile, ref, pt, freelist, file, off>>
    BY ZenonT(30), <1>7 DEF Store, FaultPresent
  <2>. QED
    BY ZenonT(30), <1>0, <1>7, <2>1, TypeStep, Kept
<1>8. ASSUME NEW a \in Addr, Fault(p, a) PROVE IInv' /\ WrittenBack
  <2>1. UNCHANGED <<state, vma, ofile, ref, file, off>>
    BY ZenonT(30), <1>8 DEF Fault
  <2>2. PICK i \in Slot :
          pt' = [pt EXCEPT ![p][a \div PGSIZE] = [frame |-> Kalloc, write |-> vma[p][i].write]]
    BY ZenonT(30), <1>8 DEF Fault
  <2>3. freelist # {} /\ freelist' = freelist \ {Kalloc}
    BY ZenonT(30), <1>8 DEF Fault
  <2>4. FramesSafe'
    BY ZenonT(30), <2>2, <2>3, FrameMapped
  <2>. QED
    BY ZenonT(30), <1>0, <1>8, <2>1, <2>4, TypeStep, Kept
<1>9. ASSUME NEW q \in Proc, Fork(p, q) PROVE IInv' /\ WrittenBack
  <2>1. UNCHANGED <<file, off>>
    BY ZenonT(30), <1>9 DEF Fork
  <2>. QED
    BY ZenonT(30), <1>0, <1>9, <2>1, TypeStep, ExitStep, PagesCopied, FilesDuped
<1>10. ASSUME NEW q \in Proc, ForkPanics(p, q) PROVE IInv' /\ WrittenBack
  <2>1. UNCHANGED <<state, vma, ofile, ref, pt, freelist, file, off>>
    BY ZenonT(30), <1>10 DEF ForkPanics
  <2>. QED
    BY ZenonT(30), <1>0, <1>10, <2>1, TypeStep, Kept
<1>. QED
  BY ZenonT(30), <1>1, <1>2, <1>3, <1>4, <1>5, <1>6, <1>7, <1>8, <1>9, <1>10

LEMMA MmapInit == Init => IInv
<1>. SUFFICES ASSUME Init PROVE IInv
  BY ZenonT(30)
<1>1. MmapTypeOK
  <2>1. [frame |-> 1, write |-> TRUE] \in Pte
    BY SizeAssumption DEF Pte, Frame
  <2>2. pt \in [Proc -> [Page -> Pte]]
    BY ZenonT(30), <2>1, PteTypes DEF Init
  <2>3. vma \in [Proc -> [Slot -> Vma]]
    BY ZenonT(30), PteTypes DEF Init
  <2>. QED
    BY <2>2, <2>3, SizeAssumption DEF Init, MmapTypeOK
<1>2. FileInv
  <2>1. IsFile(file, FSIZE)
    BY SizeAssumption DEF Init, IsFile
  <2>2. FSIZE \in 0..MAXFILE /\ off \in 0..FSIZE
    BY SizeAssumption DEF Init
  <2>. QED
    BY ZenonT(30), <2>1, <2>2 DEF FileInv
<1>3. ExitInv
  BY ZenonT(30) DEF Init, ExitInv, NoVma
<1>4. FramesSafe
  <2>1. \A p \in Proc, g \in Page : Mapped(p, g) = IF p = First /\ g = 0 THEN 1 ELSE None
    BY ZenonT(30) DEF Init, Mapped, NoPte
  <2>2. 1 # None
    BY SizeAssumption, ModeAssumption
  <2>. QED
    BY ZenonT(30), <2>1, <2>2 DEF Init, FramesSafe, Present, Mapped
<1>5. FileStaysOpen
  <2>1. Open = {First}
    BY ZenonT(30), ModeAssumption DEF Init, Open
  <2>2. Held = {}
    BY ZenonT(30) DEF Init, Held, NoVma
  <2>3. Cardinality(Open) = 1 /\ Cardinality(Held) = 0
    BY ZenonT(30), <2>1, <2>2, FS_Singleton, FS_EmptySet
  <2>. QED
    BY <2>3 DEF Init, FileStaysOpen, Open, Held
<1>. QED
  BY ZenonT(30), <1>1, <1>2, <1>3, <1>4, <1>5 DEF IInv

LEMMA MmapStep == IInv /\ [Next]_vars => IInv' /\ WrittenBack
<1>. SUFFICES ASSUME IInv, [Next]_vars PROVE IInv' /\ WrittenBack
  BY ZenonT(30)
<1>1. CASE UNCHANGED vars
  <2>1. UNCHANGED <<state, vma, ofile, ref, pt, freelist, file, off, sz>>
    BY ZenonT(30), <1>1 DEF vars
  <2>2. MmapTypeOK'
    BY ZenonT(30), <2>1 DEF IInv, MmapTypeOK
  <2>. QED
    BY ZenonT(30), <2>1, <2>2, Kept DEF IInv, WrittenBack
<1>2. CASE Next
  BY ZenonT(30), <1>2, MunmapKeeps, ExitVmaKeeps, OthersKeep DEF Next
<1>. QED
  BY ZenonT(30), <1>1, <1>2

LEMMA MmapInvariance == Spec => []IInv
  BY MmapInit, MmapStep, PTL DEF Spec

(* fork() that copies pages, page faults that fill them, sbrk(), munmap()     *)
(* that keeps physical pages and wait() that frees them never leave one       *)
(* physical page in two places, nor a mapped one on the free list.            *)
THEOREM FramesStaySafe == Spec => []FramesSafe
  BY MmapInvariance, PTL DEF IInv

(* f->ref never falls below the descriptors and mappings of the file, however *)
(* fork(), close(), munmap() and exit() interleave.                           *)
THEOREM FileHeldOpen == Spec => []FileStaysOpen
  BY MmapInvariance, PTL DEF IInv

(* Only a process that gives up a shared mapping of a writable file, with     *)
(* munmap() or exit(), changes the file.                                      *)
THEOREM PrivateNotWritten == Spec => OnlySharedWritten
<1>1. IInv /\ [Next]_vars => [WrittenBack]_vars
  BY ZenonT(30), MmapStep
<1>. QED
  BY <1>1, MmapInvariance, PTL DEF Spec, OnlySharedWritten
=============================================================================
