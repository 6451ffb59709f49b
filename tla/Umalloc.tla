------------------------------- MODULE Umalloc -------------------------------
(* malloc() and free() of user programs (user/umalloc.c).  An address counts   *)
(* headers; a header is [ptr, size] and lies in memory before its block.  What *)
(* a program writes to the memory it was given, and what no list holds any     *)
(* longer, is Garbage: a pointer that cannot be followed.                      *)
EXTENDS Integers, FiniteSets

CONSTANTS
  NALLOC,      \* the least that morecore() asks for (4096)
  HEAPEND,     \* where sbrk() has no more memory
  Units        \* what malloc() is called for, in headers, its own one included

ASSUME HeapAssumption == {NALLOC, HEAPEND} \subseteq Nat \ {0} /\ Units \subseteq Nat \ {0, 1}

Base == 0      \* the variable base lies below the heap
NULL == -1
Heap == 1..HEAPEND
Garbage == [ptr |-> NULL, size |-> 0]

VARIABLES
  hdr,         \* memory: address -> header
  freep,
  brk,         \* the first address that sbrk() has not handed out; 0 if no program runs
  core,        \* the addresses that morecore() has got
  live         \* address -> units asked for: what malloc() returned and free() did not get back

heapvars == <<hdr, freep, brk, core, live>>

NoHeap == hdr = [a \in {Base} \cup Heap |-> Garbage] /\ freep = NULL /\ core = {} /\ live = <<>>
HeapInit == NoHeap /\ brk = 1
HeapIdle == NoHeap /\ brk = 0

-----------------------------------------------------------------------------
(* free(): the block on the list before which bp belongs, from p on. *)
RECURSIVE Spot(_, _, _)
Spot(h, p, bp) ==
  IF \/ bp > p /\ bp < h[p].ptr
     \/ p >= h[p].ptr /\ (bp > p \/ bp < h[p].ptr)
  THEN p ELSE Spot(h, h[p].ptr, bp)

JoinsUpper(h, p, bp) ==
  IF bp + h[bp].size = h[p].ptr
  THEN [h EXCEPT ![bp] = [ptr |-> h[h[p].ptr].ptr, size |-> @.size + h[h[p].ptr].size], ![h[p].ptr] = Garbage]
  ELSE [h EXCEPT ![bp].ptr = h[p].ptr]
JoinsLowerNever(h, p, bp) == [h EXCEPT ![p].ptr = bp]
JoinsLower(h, p, bp) ==
  IF p + h[p].size = bp
  THEN [h EXCEPT ![p] = [ptr |-> h[bp].ptr, size |-> @.size + h[bp].size], ![bp] = Garbage]
  ELSE [h EXCEPT ![p].ptr = bp]
Joined(h, p, bp) == JoinsLower(JoinsUpper(h, p, bp), p, bp)

Free(a) ==
  LET p == Spot(hdr, freep, a)
  IN  /\ a \in DOMAIN live
      /\ hdr' = Joined(hdr, p, a) /\ freep' = p
      /\ live' = [b \in DOMAIN live \ {a} |-> live[b]]
      /\ UNCHANGED <<brk, core>>

-----------------------------------------------------------------------------
(* malloc(): the first block from prevp on that is large enough comes after   *)
(* the one that is returned; NULL if the search comes back to f without one.  *)
RECURSIVE Search(_, _, _, _)
Search(h, f, prevp, n) ==
  IF h[h[prevp].ptr].size >= n THEN prevp
  ELSE IF h[prevp].ptr = f THEN NULL ELSE Search(h, f, h[prevp].ptr, n)

Filled(h, p, n) == [[a \in DOMAIN h |-> IF a \in (p + 1)..(p + n - 1) THEN Garbage ELSE h[a]] EXCEPT ![p].ptr = NULL]

(* The block is taken whole, or its end is. *)
Taken(h, prevp, n) ==
  LET p == h[prevp].ptr
      rest == h[p].size - n
  IN  IF rest = 0 THEN [at |-> p, hdr |-> [h EXCEPT ![prevp].ptr = h[p].ptr]]
      ELSE [at |-> p + rest, hdr |-> [h EXCEPT ![p].size = rest, ![p + rest].size = n]]

Returns(x, prevp, n) ==
  hdr' = Filled(x.hdr, x.at, n) /\ freep' = prevp /\ live' = [a \in DOMAIN live \cup {x.at} |-> IF a = x.at THEN n ELSE live[a]]

First == IF freep = NULL THEN [hdr EXCEPT ![Base] = [ptr |-> Base, size |-> 0]] ELSE hdr
Freep == IF freep = NULL THEN Base ELSE freep

Malloc(n) ==
  LET prevp == Search(First, Freep, Freep, n)
  IN  /\ n \in Units /\ brk > 0
      /\ prevp # NULL /\ Returns(Taken(First, prevp, n), prevp, n)
      /\ UNCHANGED <<brk, core>>

(* morecore(): the new block is freed, and the search starts over behind the  *)
(* place it went to.                                                          *)
Nu(n) == IF n < NALLOC THEN NALLOC ELSE n

MallocGrows(n) ==
  LET h == [First EXCEPT ![brk].size = Nu(n)]
      p == Spot(h, Freep, brk)
      more == Joined(h, p, brk)
      prevp == Search(more, p, p, n)
  IN  /\ n \in Units /\ brk > 0 /\ Search(First, Freep, Freep, n) = NULL
      /\ brk + Nu(n) <= HEAPEND + 1
      /\ brk' = brk + Nu(n) /\ core' = core \cup brk..(brk + Nu(n) - 1)
      /\ Returns(Taken(more, prevp, n), prevp, n)

(* sbrk() fails, at the end or for want of memory. *)
MallocFails(n) ==
  /\ n \in Units /\ brk > 0 /\ Search(First, Freep, Freep, n) = NULL
  /\ hdr' = First /\ freep' = Freep
  /\ UNCHANGED <<brk, core, live>>

(* The program itself calls sbrk(). *)
Sbrk ==
  /\ brk \in Heap
  /\ brk' = brk + 1
  /\ UNCHANGED <<hdr, freep, core, live>>

HeapNext == Sbrk \/ (\E n \in Units : Malloc(n) \/ MallocGrows(n) \/ MallocFails(n)) \/ \E a \in Heap : Free(a)

-----------------------------------------------------------------------------
RECURSIVE ListFromTo(_, _)
ListFromTo(a, seen) == IF a \in seen \/ a \notin DOMAIN hdr THEN seen ELSE ListFromTo(hdr[a].ptr, seen \cup {a})
FreeList == ListFromTo(Base, {})
Block(a) == a..(a + hdr[a].size - 1)

(* free() and malloc() by any sequence of calls: the free list goes around    *)
(* once, in the order of addresses; free blocks and blocks in use are apart,  *)
(* are together all the memory that sbrk() gave, and have the size asked for; *)
(* and two free blocks never touch.                                           *)
HeapSound ==
  freep # NULL =>
    /\ freep \in FreeList
    /\ \A a \in FreeList :
         LET above == {b \in FreeList : b > a}
         IN  hdr[a].ptr = IF above = {} THEN Base ELSE CHOOSE b \in above : \A c \in above : b <= c
    /\ \A a, b \in FreeList \cup DOMAIN live : a # b => Block(a) \cap Block(b) = {}
    /\ UNION {Block(a) : a \in FreeList \cup DOMAIN live} = core
    /\ \A a \in DOMAIN live : hdr[a].size = live[a]
    /\ \A a, b \in FreeList \ {Base} : a + hdr[a].size # b
=============================================================================
