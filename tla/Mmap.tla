-------------------------------- MODULE Mmap --------------------------------
(* Memory-mapped files: sys_mmap(), sys_munmap() (kernel/sysfile.c), the page *)
(* fault in usertrap() (kernel/trap.c), and what sbrk(), fork(), exit() and   *)
(* wait() do with the mappings and the pages (kernel/proc.c, kernel/vm.c).    *)
(* Processes share one open file.  Addresses count units, PGSIZE to a page.   *)
(* Callers map and unmap whole pages, as mmaptest.c does; sbrk() only grows,  *)
(* and what a shrinking one does to a mapping is left out.                    *)
EXTENDS Integers, FiniteSetsExt, Sequences

CONSTANTS
  Proc,
  First,      \* the process that has opened the file
  NFRAME,     \* physical pages of kalloc()
  None,
  NVMA,       \* vma[] slots of a process
  PGSIZE,     \* units in a page
  NPAGES,     \* bound on the pages of a process
  FSIZE,      \* units in the file
  MAXFILE,    \* bound on the file's size
  MAXREF,     \* bound on the references mmap() takes without a slot
  Mode,       \* records of PROT_WRITE and MAP_SHARED that callers pass
  WRITABLE    \* whether the file is open for writing

ASSUME SizeAssumption ==
  /\ {NVMA, PGSIZE, NPAGES, NFRAME} \subseteq Nat \ {0} /\ FSIZE \in 0..MAXFILE /\ {MAXFILE, MAXREF} \subseteq Nat
ASSUME ModeAssumption ==
  /\ Mode \subseteq [write : BOOLEAN, shared : BOOLEAN] /\ WRITABLE \in BOOLEAN
  /\ First \in Proc /\ IsFiniteSet(Proc) /\ None \notin 1..NFRAME

Frame == 1..NFRAME
Page == 0..(NPAGES - 1)
Slot == 1..NVMA
Z == FSIZE + 1          \* what user programs store; 0 is zeroed memory, k what unit k of the file held
NoVma == [valid |-> FALSE, addr |-> 0, len |-> 0, write |-> FALSE, shared |-> FALSE]

VARIABLES
  state,      \* "none", "run", "exit" (in exit()) or "zombie"
  sz, vma,    \* p->sz, p->vma[]
  pt,         \* page table: the frame and the write permission of each page
  ofile,      \* whether p has a descriptor for the file
  mem, freelist,
  file, off, ref,   \* the file's contents; f->off, f->ref
  panicked    \* the operation that has panicked, or "no"

vars == <<state, sz, vma, pt, ofile, mem, freelist, file, off, ref, panicked>>

NoPte == [frame |-> None, write |-> FALSE]

ZeroPage == [u \in 0..(PGSIZE - 1) |-> 0]

(* A process of one page that has opened the file. *)
Init ==
  /\ state = [p \in Proc |-> IF p = First THEN "run" ELSE "none"]
  /\ sz = [p \in Proc |-> IF p = First THEN PGSIZE ELSE 0]
  /\ vma = [p \in Proc |-> [i \in Slot |-> NoVma]]
  /\ pt = [p \in Proc |-> [g \in Page |->
             IF p = First /\ g = 0 THEN [frame |-> 1, write |-> TRUE] ELSE NoPte]]
  /\ freelist = Frame \ {1}
  /\ ofile = [p \in Proc |-> p = First]
  /\ mem = [f \in Frame |-> ZeroPage]
  /\ file = [k \in 1..FSIZE |-> k]
  /\ off = 0 /\ ref = 1 /\ panicked = "no"

-----------------------------------------------------------------------------
(* Pages and memory. *)

(* kalloc() gives a free page, whichever. *)
Kalloc == CHOOSE f \in freelist : TRUE

Present(t, g) == t[g].frame # None
Runs(p) == panicked = "no" /\ state[p] = "run"
PagesOf(p) == {g \in Page : g * PGSIZE < sz[p]}

(* The pages of n units at a, which are whole pages. *)
PagesIn(a, n) == {g \in Page : a <= g * PGSIZE /\ g * PGSIZE < a + n}

(* uvmunmap() of the pages S, which panics unless all are present. *)
Uvmunmap(t, S) == [g \in Page |-> IF g \in S THEN NoPte ELSE t[g]]

(* Their frames, whose contents nobody reads again. *)
Frames(p, S) == {pt[p][g].frame : g \in S}
Forget(F) == [f \in Frame |-> IF f \in F THEN ZeroPage ELSE mem[f]]

(* The bytes at address a, if the page is there: copyin(). *)
At(p, a) == mem[pt[p][a \div PGSIZE].frame][a % PGSIZE]

(* How many of the n units at a copyin() gets before a page is missing. *)
Readable(p, a, n) ==
  CHOOSE k \in 0..n :
    /\ \A j \in 0..(k - 1) : Present(pt[p], (a + j) \div PGSIZE)
    /\ k < n => ~Present(pt[p], (a + k) \div PGSIZE)

(* filewrite(f, a, n) with writei(): at f->off, as far as the pages and the   *)
(* largest file go. *)
Written(p, a, n) ==
  IF WRITABLE /\ off <= Len(file) THEN Min({Readable(p, a, n), MAXFILE - off}) ELSE 0
Filewrite(p, a, n) ==
  LET k == Written(p, a, n)
      longer == IF off + k > Len(file) THEN off + k ELSE Len(file)
  IN  [x \in 1..longer |-> IF off < x /\ x <= off + k THEN At(p, a + x - 1 - off) ELSE file[x]]

-----------------------------------------------------------------------------
(* sys_mmap(): the file is dup'ed before a slot is looked for.  Bounds: the    *)
(* address space, and MAXREF references when there is no slot.                *)
Room(p, len) ==
  IF \E i \in Slot : ~vma[p][i].valid THEN sz[p] + len <= NPAGES * PGSIZE ELSE ref < MAXREF
FreeSlot(p) == CHOOSE i \in Slot : ~vma[p][i].valid /\ \A j \in 1..(i - 1) : vma[p][j].valid

Mmap(p, len, m) ==
  /\ Runs(p) /\ ofile[p]
  /\ WRITABLE \/ ~m.write \/ ~m.shared
  /\ Room(p, len)
  /\ ref' = ref + 1
  /\ IF \E i \in Slot : ~vma[p][i].valid
     THEN /\ vma' = [vma EXCEPT ![p][FreeSlot(p)] =
                       [valid |-> TRUE, addr |-> sz[p], len |-> len, write |-> m.write, shared |-> m.shared]]
          /\ sz' = [sz EXCEPT ![p] = @ + len]
     ELSE UNCHANGED <<vma, sz>>
  /\ UNCHANGED <<state, pt, ofile, mem, freelist, file, off, panicked>>

(* sys_munmap() and exit() test MAP_SHARED. *)
AllWriteBack(v) == TRUE
WritesBack(v) == v.shared

(* sys_munmap(), which writes a shared mapping back before it unmaps it and   *)
(* keeps the physical pages. *)
UnmapAt(v, a, n) == [v EXCEPT !.addr = IF a = v.addr THEN a + n ELSE v.addr, !.len = @ - n]

Munmap(p, a, n) ==
  /\ Runs(p)
  /\ \E i \in Slot :
       LET v == vma[p][i]
           S == PagesIn(a, n)
       IN  /\ v.valid /\ v.addr <= a /\ a + n <= v.addr + v.len
           /\ file' = IF WritesBack(v) THEN Filewrite(p, a, n) ELSE file
           /\ off' = IF WritesBack(v) THEN off + Written(p, a, n) ELSE off
           /\ vma' = [vma EXCEPT ![p][i] = IF v.len = n THEN NoVma ELSE UnmapAt(v, a, n)]
           /\ ref' = IF v.len = n THEN ref - 1 ELSE ref
           /\ pt' = [pt EXCEPT ![p] = Uvmunmap(@, S)]
           /\ mem' = Forget(Frames(p, S))
           /\ panicked' = IF \A g \in S : Present(pt[p], g) THEN "no" ELSE "munmap"
  /\ UNCHANGED <<state, sz, ofile, freelist>>

(* close(fd) *)
Close(p) ==
  /\ Runs(p) /\ ofile[p]
  /\ ofile' = [ofile EXCEPT ![p] = FALSE]
  /\ ref' = ref - 1
  /\ UNCHANGED <<state, sz, vma, pt, mem, freelist, file, off, panicked>>

-----------------------------------------------------------------------------
(* A user program accesses address a of a mapping. *)

InVma(p, i, a) == vma[p][i].valid /\ vma[p][i].addr <= a /\ a < vma[p][i].addr + vma[p][i].len

Store(p, a) ==
  /\ Runs(p) /\ \E i \in Slot : InVma(p, i, a)
  /\ Present(pt[p], a \div PGSIZE) /\ pt[p][a \div PGSIZE].write
  /\ mem' = [mem EXCEPT ![pt[p][a \div PGSIZE].frame][a % PGSIZE] = Z]
  /\ UNCHANGED <<state, sz, vma, pt, ofile, freelist, file, off, ref, panicked>>

(* readi() of one page at offset o into zeroed memory. *)
FileAt(o) == IF o < Len(file) THEN file[o + 1] ELSE 0
Filled(o) == [u \in 0..(PGSIZE - 1) |-> FileAt(o + u)]

(* The page fault: read the file from the offset of the address itself, then  *)
(* map the page the address is in. *)
Fault(p, a) ==
  /\ Runs(p) /\ freelist # {}
  /\ ~Present(pt[p], a \div PGSIZE)
  /\ \E i \in Slot :
       /\ InVma(p, i, a)
       /\ mem' = [mem EXCEPT ![Kalloc] = Filled(a - vma[p][i].addr)]
       /\ pt' = [pt EXCEPT ![p][a \div PGSIZE] = [frame |-> Kalloc, write |-> vma[p][i].write]]
  /\ freelist' = freelist \ {Kalloc}
  /\ UNCHANGED <<state, sz, vma, ofile, file, off, ref, panicked>>

(* A store to a page that is there without write permission: mappages() finds *)
(* it mapped. *)
FaultPresent(p, a) ==
  /\ Runs(p) /\ freelist # {}
  /\ Present(pt[p], a \div PGSIZE) /\ ~pt[p][a \div PGSIZE].write
  /\ \E i \in Slot : InVma(p, i, a)
  /\ panicked' = "fault"
  /\ UNCHANGED <<state, sz, vma, pt, ofile, mem, freelist, file, off, ref>>

-----------------------------------------------------------------------------
(* sbrk() with growproc() and uvmalloc() of one page. *)
Sbrk(p) ==
  /\ Runs(p) /\ freelist # {}
  /\ sz[p] + PGSIZE <= NPAGES * PGSIZE
  /\ pt' = [pt EXCEPT ![p][sz[p] \div PGSIZE] = [frame |-> Kalloc, write |-> TRUE]]
  /\ mem' = [mem EXCEPT ![Kalloc] = ZeroPage]
  /\ freelist' = freelist \ {Kalloc}
  /\ sz' = [sz EXCEPT ![p] = @ + PGSIZE]
  /\ UNCHANGED <<state, vma, ofile, file, off, ref, panicked>>

(* fork(): uvmcopy() copies page after page and panics at one that is not     *)
(* there, unless memory runs out first; then it gives back what it took.      *)
FirstHole(p) == Min({g \in PagesOf(p) : ~Present(pt[p], g)})

ForkPanics(p, q) ==
  /\ Runs(p) /\ state[q] = "none"
  /\ \E g \in PagesOf(p) : ~Present(pt[p], g)
  /\ FirstHole(p) <= Cardinality(freelist)
  /\ panicked' = "fork"
  /\ UNCHANGED <<state, sz, vma, pt, ofile, mem, freelist, file, off, ref>>

ForkRefFilesOnly(p) == IF ofile[p] THEN 1 ELSE 0
(* filedup() for every mapping and for the descriptor. *)
ForkRef(p) == Cardinality({i \in Slot : vma[p][i].valid}) + IF ofile[p] THEN 1 ELSE 0

ChildPteShares(p, g, f) == pt[p][g]
ChildPte(p, g, f) == [pt[p][g] EXCEPT !.frame = f]

(* The free pages that kalloc() gives for the copies. *)
Copies(p) == CHOOSE new \in [PagesOf(p) -> freelist] : IsInjective(new)

Fork(p, q) ==
  LET new == Copies(p)
  IN  /\ Runs(p) /\ state[q] = "none"
      /\ \A g \in PagesOf(p) : Present(pt[p], g)
      /\ Cardinality(PagesOf(p)) <= Cardinality(freelist)
      /\ state' = [state EXCEPT ![q] = "run"]
      /\ sz' = [sz EXCEPT ![q] = sz[p]]
      /\ vma' = [vma EXCEPT ![q] = vma[p]]
      /\ pt' = [pt EXCEPT ![q] = [g \in Page |->
                  IF g \in PagesOf(p) THEN ChildPte(p, g, new[g]) ELSE NoPte]]
      /\ mem' = [f \in Frame |->
                  IF \E g \in PagesOf(p) : f = new[g]
                  THEN mem[pt[p][CHOOSE g \in PagesOf(p) : f = new[g]].frame] ELSE mem[f]]
      /\ freelist' = freelist \ Range(new)
      /\ ofile' = [ofile EXCEPT ![q] = ofile[p]]
      /\ ref' = ref + ForkRef(p)
      /\ UNCHANGED <<file, off, panicked>>

-----------------------------------------------------------------------------
(* exit(): called by the program, or by usertrap() for a page fault without   *)
(* memory.  It closes the descriptor, then ends the mappings in turn.         *)
Exit(p) ==
  /\ Runs(p)
  /\ state' = [state EXCEPT ![p] = "exit"]
  /\ ofile' = [ofile EXCEPT ![p] = FALSE]
  /\ ref' = IF ofile[p] THEN ref - 1 ELSE ref
  /\ UNCHANGED <<sz, vma, pt, mem, freelist, file, off, panicked>>

ExitVma(p, i) ==
  LET v == vma[p][i]
      S == PagesIn(v.addr, v.len)
  IN  /\ panicked = "no" /\ state[p] = "exit"
      /\ v.valid /\ \A j \in 1..(i - 1) : ~vma[p][j].valid
      /\ file' = IF WritesBack(v) THEN Filewrite(p, v.addr, v.len) ELSE file
      /\ off' = IF WritesBack(v) THEN off + Written(p, v.addr, v.len) ELSE off
      /\ ref' = ref - 1
      /\ vma' = [vma EXCEPT ![p][i] = NoVma]
      /\ pt' = [pt EXCEPT ![p] = Uvmunmap(@, S)]
      /\ mem' = Forget(Frames(p, S))
      /\ panicked' = IF \A g \in S : Present(pt[p], g) THEN "no" ELSE "exit"
      /\ UNCHANGED <<state, sz, ofile, freelist>>

ExitDone(p) ==
  /\ panicked = "no" /\ state[p] = "exit"
  /\ \A i \in Slot : ~vma[p][i].valid
  /\ state' = [state EXCEPT ![p] = "zombie"]
  /\ UNCHANGED <<sz, vma, pt, ofile, mem, freelist, file, off, ref, panicked>>

(* wait() by the parent or by init: freeproc() frees every page below sz.     *)
Wait(p) ==
  /\ panicked = "no" /\ state[p] = "zombie"
  /\ IF \A g \in PagesOf(p) : Present(pt[p], g)
     THEN /\ freelist' = freelist \cup Frames(p, PagesOf(p))
          /\ mem' = Forget(Frames(p, PagesOf(p)))
          /\ pt' = [pt EXCEPT ![p] = Uvmunmap(@, PagesOf(p))]
          /\ sz' = [sz EXCEPT ![p] = 0]
          /\ state' = [state EXCEPT ![p] = "none"]
          /\ UNCHANGED panicked
     ELSE /\ panicked' = "wait"
          /\ UNCHANGED <<freelist, mem, pt, sz, state>>
  /\ UNCHANGED <<vma, ofile, file, off, ref>>

-----------------------------------------------------------------------------
Pages == {k * PGSIZE : k \in 1..NPAGES}
Addr == 0..(NPAGES * PGSIZE - 1)

Next ==
  \E p \in Proc :
    \/ \E len \in Pages, m \in Mode : Mmap(p, len, m)
    \/ \E g \in Page, n \in Pages : Munmap(p, g * PGSIZE, n)
    \/ Close(p) \/ Sbrk(p)
    \/ \E a \in Addr : Store(p, a) \/ Fault(p, a) \/ FaultPresent(p, a)
    \/ \E q \in Proc : Fork(p, q) \/ ForkPanics(p, q)
    \/ Exit(p) \/ (\E i \in Slot : ExitVma(p, i)) \/ ExitDone(p) \/ Wait(p)

Spec == Init /\ [][Next]_vars

-----------------------------------------------------------------------------
(* Properties. *)

Mapped(p, g) == pt[p][g].frame

(* fork(), the page fault, sbrk() and wait(): no physical page is in two      *)
(* places, and none that is mapped is free.                                   *)
FramesSafe ==
  \A p, q \in Proc, g, h \in Page :
    Present(pt[p], g) =>
      /\ Mapped(p, g) \notin freelist
      /\ Mapped(p, g) = Mapped(q, h) => p = q /\ g = h

(* "check that the mapping still works after close(fd)": the file stays open  *)
(* while a process has a descriptor or a mapping, through fork and exit.      *)
FileStaysOpen ==
  ref >= Cardinality({p \in Proc : ofile[p]})
         + Cardinality({x \in Proc \X Slot : vma[x[1]][x[2]].valid})

(* "the modifications should not be written back to the file": a file changes *)
(* only when a process gives up a shared mapping of it.                       *)
WrittenBack ==
  file' # file => WRITABLE /\ \E p \in Proc, i \in Slot :
    vma[p][i].valid /\ vma[p][i].shared /\ vma'[p][i] # vma[p][i]
OnlySharedWritten == [][WrittenBack]_vars

(* "The mappings must exist" (uvmunmap), and "unmap the rest of the mapped    *)
(* memory" where a page of it was never touched (mmaptest): what programs do  *)
(* with mappings brings none of the calls that handle them to a panic.        *)
NoPanic == panicked = "no"
=============================================================================
