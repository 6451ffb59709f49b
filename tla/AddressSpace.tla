---------------------------- MODULE AddressSpace ----------------------------
(* The memory of processes: sbrk(), fork(), exec(), exit() and wait() over    *)
(* the page tables of PageTable, with too few frames for all (kernel/proc.c,  *)
(* kernel/exec.c).  A call is one step: processes share nothing but the free  *)
(* frames, of which there may be any number when it is made.  Mapped files    *)
(* are in Mmap.                                                               *)
EXTENDS PageTable, SequencesExt

CONSTANTS
  Proc, First,
  Program,      \* what exec() may load: sequences of segments [vaddr, memsz, loads]
  Change,       \* arguments of sbrk()
  UINT          \* 2^32: growproc()'s sizes are unsigned

ASSUME ProcAssumption == First \in Proc /\ UINT \in Nat /\ UINT > MAXPAGE * PGSIZE
ASSUME ProgramAssumption == \A g \in Program : \A i \in DOMAIN g : g[i].loads \in BOOLEAN

VARIABLES
  mem,
  state,            \* "unused", "run" or "zombie"
  sz, root, tf      \* p->sz, p->pagetable, p->trapframe

memoryvars == <<mem, state, sz, root, tf>>

(* allocproc(): a trapframe and a page table, or neither. *)
Framed(t, f) ==
  IF t.root = 0 THEN [m |-> Kfree(t.m, f), root |-> 0, tf |-> 0] ELSE [m |-> t.m, root |-> t.root, tf |-> f]
Allocproc(m) ==
  IF Kalloc(m) = 0 THEN [m |-> m, root |-> 0, tf |-> 0] ELSE Framed(ProcPagetable(Taken(m), Kalloc(m)), Kalloc(m))

Freeproc(m, p_root, p_sz, p_tf) == ProcFreepagetable(Kfree(m, p_tf), p_root, p_sz)

AllFree == [free |-> Frame, tbl |-> [f \in Frame |-> NoPtes], panic |-> "no"]

(* userinit(): one page. *)
MemoryInit ==
  /\ \E a \in {Allocproc(AllFree)} :
       /\ mem = Mappages(Taken(a.m), a.root, 0, Kalloc(a.m), TRUE).m
       /\ root = [p \in Proc |-> IF p = First THEN a.root ELSE 0]
       /\ tf = [p \in Proc |-> IF p = First THEN a.tf ELSE 0]
  /\ state = [p \in Proc |-> IF p = First THEN "run" ELSE "unused"]
  /\ sz = [p \in Proc |-> IF p = First THEN PGSIZE ELSE 0]

MemoryIdle ==
  /\ mem = AllFree /\ state = [p \in Proc |-> "unused"]
  /\ root = [p \in Proc |-> 0] /\ tf = root /\ sz = root

Running(p) == mem.panic = "no" /\ state[p] = "run"

-----------------------------------------------------------------------------
Resized(m, t, size, n) ==
  IF n > 0 THEN Uvmalloc(m, t, size, (size + n) % UINT) ELSE Uvmdealloc(m, t, size, (size + n) % UINT)

(* Memory ends before addresses do. *)
Growproc(p, n) ==
  /\ Running(p) /\ sz[p] + n <= TRAPFRAME * PGSIZE
  /\ \E g \in {Resized(mem, root[p], sz[p], n)} :
       /\ mem' = g.m
       /\ sz' = [sz EXCEPT ![p] = IF n > 0 /\ g.sz = 0 THEN @ ELSE g.sz]
  /\ UNCHANGED <<state, root, tf>>

ForkFails(p, c) ==
  /\ Running(p) /\ state[c] = "unused"
  /\ \E a \in {Allocproc(mem)} :
       \/ a.root = 0 /\ mem' = a.m
       \/ a.root # 0 /\ \E u \in {Uvmcopy(a.m, root[p], a.root, sz[p])} :
            ~u.ok /\ mem' = Freeproc(u.m, a.root, 0, a.tf)
  /\ UNCHANGED <<state, sz, root, tf>>

Fork(p, c) ==
  /\ Running(p) /\ state[c] = "unused"
  /\ \E a \in {Allocproc(mem)} : a.root # 0 /\ \E u \in {Uvmcopy(a.m, root[p], a.root, sz[p])} :
       /\ u.ok /\ mem' = u.m
       /\ root' = [root EXCEPT ![c] = a.root]
       /\ tf' = [tf EXCEPT ![c] = a.tf]
  /\ state' = [state EXCEPT ![c] = "run"]
  /\ sz' = [sz EXCEPT ![c] = sz[p]]

(* exec(): a page table with the first i segments of prog, and its size; ok   *)
(* says whether they fitted, were aligned and could be read.                  *)
Loads(l, t, ph) ==
  LET g == Uvmalloc(l.m, t, l.sz, ph.vaddr + ph.memsz)
  IN  IF ~l.ok THEN l
      ELSE IF g.sz = 0 THEN [l EXCEPT !.m = g.m, !.ok = FALSE]
      ELSE [m |-> g.m, sz |-> g.sz, ok |-> ph.vaddr % PGSIZE = 0 /\ ph.loads]
Loaded(m, t, prog) == FoldLeft(LAMBDA l, ph : Loads(l, t, ph), [m |-> m, sz |-> 0, ok |-> t # 0], prog)

(* Then a guard page and a stack. *)
Stacked(l, t) ==
  LET up == PageUp(l.sz)
      g == Uvmalloc(l.m, t, up * PGSIZE, (up + 2) * PGSIZE)
  IN  IF ~l.ok THEN l
      ELSE IF g.sz = 0 THEN [m |-> g.m, sz |-> up * PGSIZE, ok |-> FALSE]
      ELSE [m |-> Uvmclear(g.m, t, up), sz |-> g.sz, ok |-> TRUE]

(* fits: the arguments fit on the stack.  The image is all new or all old.    *)
Releases(m, t, size) == IF t = 0 THEN m ELSE ProcFreepagetable(m, t, size)

Exec(p, prog, fits) ==
  /\ Running(p)
  /\ \E t \in {ProcPagetable(mem, tf[p])} : \E s \in {Stacked(Loaded(t.m, t.root, prog), t.root)} :
       IF s.ok /\ fits
       THEN /\ mem' = ProcFreepagetable(s.m, root[p], sz[p])
            /\ root' = [root EXCEPT ![p] = t.root]
            /\ sz' = [sz EXCEPT ![p] = s.sz]
       ELSE mem' = Releases(s.m, t.root, s.sz) /\ UNCHANGED <<sz, root>>
  /\ UNCHANGED <<state, tf>>

Exit(p) ==
  /\ Running(p) /\ p # First
  /\ state' = [state EXCEPT ![p] = "zombie"]
  /\ UNCHANGED <<mem, sz, root, tf>>

(* freeproc() by the parent in wait(). *)
Wait(p) ==
  /\ mem.panic = "no" /\ state[p] = "zombie"
  /\ mem' = Freeproc(mem, root[p], sz[p], tf[p])
  /\ state' = [state EXCEPT ![p] = "unused"]
  /\ sz' = [sz EXCEPT ![p] = 0]
  /\ root' = [root EXCEPT ![p] = 0]
  /\ tf' = [tf EXCEPT ![p] = 0]

MemoryNext ==
  \E p \in Proc :
    \/ \E n \in Change : Growproc(p, n)
    \/ \E c \in Proc : Fork(p, c) \/ ForkFails(p, c)
    \/ \E prog \in Program, fits \in BOOLEAN : Exec(p, prog, fits)
    \/ Exit(p) \/ Wait(p)

-----------------------------------------------------------------------------
(* Properties. *)

Alive == {p \in Proc : state[p] # "unused"}
Page == 0..(MAXPAGE - 1)
RECURSIVE TablesBelow(_, _)
TablesBelow(t, level) ==
  {t} \cup (IF level = 0 THEN {}
            ELSE UNION {TablesBelow(mem.tbl[t][i].frame, level - 1) : i \in {j \in Index : mem.tbl[t][j] # NoPte}})
Tables(p) == TablesBelow(root[p], LEVELS - 1)
Mapped(p) == {v \in Page : PteOf(mem, root[p], v) # NoPte}
UserFrames(p) == {PteOf(mem, root[p], v).frame : v \in Mapped(p) \ {TRAMPOLINE, TRAPFRAME}}

(* kalloc() and kfree() on all paths, the failing ones included: every frame  *)
(* is free or has one use in one process, as a table, trapframe or user page. *)
FramesExact ==
  LET uses == UNION {Tables(p) \cup UserFrames(p) \cup {tf[p]} : p \in Alive}
      count(p) == Cardinality(Tables(p)) + Cardinality(Mapped(p)) - 1
  IN  mem.panic = "no" =>
        /\ uses = Frame \ mem.free
        /\ Cardinality(uses) = MapThenSumSet(count, Alive)

(* uvmalloc(), uvmdealloc() and uvmcopy(), whether they succeed or fail: what *)
(* a process has mapped is [0, p->sz) and the kernel's two pages, and no call *)
(* of a user program makes vm.c panic.                                        *)
SizeMapped ==
  /\ mem.panic = "no"
  /\ \A p \in Alive :
       /\ Mapped(p) = 0..(PageUp(sz[p]) - 1) \cup {TRAMPOLINE, TRAPFRAME}
       /\ PteOf(mem, root[p], TRAPFRAME).frame = tf[p]
       /\ \A v \in {TRAMPOLINE, TRAPFRAME} : ~PteOf(mem, root[p], v).user
=============================================================================
