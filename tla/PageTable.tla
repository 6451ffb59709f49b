------------------------------ MODULE PageTable -----------------------------
(* Page tables and the frames they take (kernel/vm.c, kernel/kalloc.c), as    *)
(* functions on memory.  A table has FAN entries; there are LEVELS levels.      *)
(* Memory is [free, tbl, panic]: free frames, the entries in every frame, and *)
(* the message of a panic, "no" if there was none.                            *)
EXTENDS Integers, FiniteSetsExt

CONSTANTS NFRAME, FAN, LEVELS, PGSIZE

ASSUME SizeAssumption == NFRAME \in Nat /\ FAN \in Nat \ {0, 1} /\ {LEVELS, PGSIZE} \subseteq Nat \ {0}

Frame == 1..NFRAME
KERNELTEXT == NFRAME + 1      \* the trampoline's page, which kalloc() never gives
Index == 0..(FAN - 1)
MAXPAGE == FAN^LEVELS
TRAMPOLINE == MAXPAGE - 1
TRAPFRAME == MAXPAGE - 2

NoPte == [frame |-> 0, leaf |-> FALSE, user |-> FALSE]
NoPtes == [i \in Index |-> NoPte]
Panic(m, what) == [m EXCEPT !.panic = IF @ = "no" THEN what ELSE @]

PageUp(a) == (a + PGSIZE - 1) \div PGSIZE     \* PGROUNDUP(a)/PGSIZE
PX(level, page) == (page \div FAN^level) % FAN

-----------------------------------------------------------------------------
(* A frame, 0 if there is none; kfree() of a free frame would give it twice.  *)
Kalloc(m) == IF m.free = {} THEN 0 ELSE Min(m.free)
Taken(m) == [m EXCEPT !.free = @ \ {Kalloc(m)}, !.tbl[Kalloc(m)] = NoPtes]
Kfree(m, f) == IF f \in m.free THEN Panic(m, "kfree twice") ELSE [m EXCEPT !.free = @ \cup {f}, !.tbl[f] = NoPtes]

(* walk(): the lowest table on the way to page, 0 if there is none.           *)
RECURSIVE WalkFrom(_, _, _, _, _)
WalkFrom(m, t, page, level, alloc) ==
  LET pte == m.tbl[t][PX(level, page)]
      new == Kalloc(m)
  IN  IF level = 0 THEN [m |-> m, t |-> t]
      ELSE IF pte.frame # 0 THEN WalkFrom(m, pte.frame, page, level - 1, alloc)
      ELSE IF ~alloc \/ new = 0 THEN [m |-> m, t |-> 0]
      ELSE WalkFrom([Taken(m) EXCEPT !.tbl[t][PX(level, page)] = [NoPte EXCEPT !.frame = new]],
                    new, page, level - 1, alloc)
Walk(m, root, page, alloc) == WalkFrom(m, root, page, LEVELS - 1, alloc)

(* The entry of a page. *)
PteOf(m, root, page) ==
  LET w == Walk(m, root, page, FALSE)
  IN  IF w.t = 0 THEN NoPte ELSE m.tbl[w.t][PX(0, page)]

(* mappages() of one page. *)
Mappages(m, root, page, f, user) ==
  LET w == Walk(m, root, page, TRUE)
  IN  IF w.t = 0 THEN [m |-> w.m, ok |-> FALSE]
      ELSE IF w.m.tbl[w.t][PX(0, page)] # NoPte THEN [m |-> Panic(w.m, "mappages: remap"), ok |-> FALSE]
      ELSE [m |-> [w.m EXCEPT !.tbl[w.t][PX(0, page)] = [frame |-> f, leaf |-> TRUE, user |-> user]], ok |-> TRUE]

(* uvmunmap() of n pages. *)
RECURSIVE Uvmunmap(_, _, _, _, _)
Uvmunmap(m, root, page, n, dofree) ==
  LET w == Walk(m, root, page, FALSE)
      pte == m.tbl[w.t][PX(0, page)]
      m1 == IF dofree THEN Kfree(m, pte.frame) ELSE m
  IN  IF n <= 0 \/ m.panic # "no" THEN m
      ELSE IF w.t = 0 THEN Panic(m, "uvmunmap: walk")
      ELSE IF pte = NoPte THEN Panic(m, "uvmunmap: not mapped")
      ELSE Uvmunmap([m1 EXCEPT !.tbl[w.t][PX(0, page)] = NoPte], root, page + 1, n - 1, dofree)

UvmdeallocDown(m, root, oldsz, newsz) ==
  IF newsz >= oldsz THEN [m |-> m, sz |-> oldsz]
  ELSE [m |-> Uvmunmap(m, root, newsz \div PGSIZE, PageUp(oldsz) - newsz \div PGSIZE, TRUE), sz |-> newsz]
Uvmdealloc(m, root, oldsz, newsz) ==
  IF newsz >= oldsz THEN [m |-> m, sz |-> oldsz]
  ELSE [m |-> Uvmunmap(m, root, PageUp(newsz), PageUp(oldsz) - PageUp(newsz), TRUE), sz |-> newsz]

(* uvmalloc(): from page a on; what it has added goes when it fails.          *)
GivesBackNot(m, f) == m
GivesBack(m, f) == Kfree(m, f)

RECURSIVE UvmallocFrom(_, _, _, _, _)
UvmallocFrom(m, root, a, first, newsz) ==
  LET f == Kalloc(m)
      mp == Mappages(Taken(m), root, a, f, TRUE)
      fail(m1) == [m |-> Uvmdealloc(m1, root, a * PGSIZE, first * PGSIZE).m, sz |-> 0]
  IN  IF a * PGSIZE >= newsz THEN [m |-> m, sz |-> newsz]
      ELSE IF f = 0 THEN fail(m)
      ELSE IF ~mp.ok THEN fail(GivesBack(mp.m, f))
      ELSE UvmallocFrom(mp.m, root, a + 1, first, newsz)
Uvmalloc(m, root, oldsz, newsz) ==
  IF newsz < oldsz THEN [m |-> m, sz |-> oldsz]
  ELSE UvmallocFrom(m, root, PageUp(oldsz), PageUp(oldsz), newsz)

(* freewalk(): the tables below t, and t. *)
RECURSIVE Freewalk(_, _)
Freewalk(m, t) ==
  LET RECURSIVE children(_, _)
      children(m1, S) ==
        IF S = {} THEN m1
        ELSE LET i == Min(S) IN children(Freewalk(m1, m.tbl[t][i].frame), S \ {i})
      valid == {i \in Index : m.tbl[t][i] # NoPte}
  IN  IF \E i \in valid : m.tbl[t][i].leaf THEN Panic(m, "freewalk: leaf")
      ELSE Kfree(children(m, valid), t)

Uvmfree(m, root, sz) ==
  LET m1 == Uvmunmap(m, root, 0, PageUp(sz), TRUE)
  IN  IF m1.panic # "no" THEN m1 ELSE Freewalk(m1, root)

(* uvmcopy(): every page of old from the i-th on. *)
RECURSIVE UvmcopyFrom(_, _, _, _, _)
UvmcopyFrom(m, old, new, i, sz) ==
  LET pte == PteOf(m, old, i)
      f == Kalloc(m)
      mp == Mappages(Taken(m), new, i, f, pte.user)
      err(m1) == [m |-> Uvmunmap(m1, new, 0, i, TRUE), ok |-> FALSE]
  IN  IF i * PGSIZE >= sz THEN [m |-> m, ok |-> TRUE]
      ELSE IF pte = NoPte THEN [m |-> Panic(m, "uvmcopy: page not present"), ok |-> FALSE]
      ELSE IF f = 0 THEN err(m)
      ELSE IF ~mp.ok THEN err(GivesBack(mp.m, f))
      ELSE UvmcopyFrom(mp.m, old, new, i + 1, sz)
Uvmcopy(m, old, new, sz) == UvmcopyFrom(m, old, new, 0, sz)

(* uvmclear(): the page under the stack. *)
Uvmclear(m, root, page) ==
  LET w == Walk(m, root, page, FALSE)
  IN  IF w.t = 0 THEN Panic(m, "uvmclear") ELSE [m EXCEPT !.tbl[w.t][PX(0, page)].user = FALSE]

(* proc_pagetable() and proc_freepagetable(): root is 0 if it fails.          *)
Trampolined(m1, root, tf) ==     \* m1: after the first mappages()
  LET m2 == Mappages(m1.m, root, TRAPFRAME, tf, FALSE)
  IN  IF ~m1.ok THEN [m |-> Uvmfree(m1.m, root, 0), root |-> 0]
      ELSE IF ~m2.ok THEN [m |-> Uvmfree(Uvmunmap(m2.m, root, TRAMPOLINE, 1, FALSE), root, 0), root |-> 0]
      ELSE [m |-> m2.m, root |-> root]
ProcPagetable(m, tf) ==
  LET root == Kalloc(m)
  IN  IF root = 0 THEN [m |-> m, root |-> 0]
      ELSE Trampolined(Mappages(Taken(m), root, TRAMPOLINE, KERNELTEXT, FALSE), root, tf)

UnmapsOwn(m, root) == Uvmunmap(Uvmunmap(m, root, TRAMPOLINE, 1, FALSE), root, TRAPFRAME, 1, FALSE)
ProcFreepagetable(m, root, sz) == Uvmfree(UnmapsOwn(m, root), root, sz)
=============================================================================
