---------------------------- MODULE MCLocksMemory ----------------------------
(* Instances of SpinLock and of AddressSpace for TLC.  They have nothing to do *)
(* with each other: a behaviour is one of the one or of the other.             *)
EXTENDS SpinLock, AddressSpace, TLC

Seg(v, n, ok) == [vaddr |-> v, memsz |-> n, loads |-> ok]
Programs == {
  <<>>,
  <<Seg(0, 3, TRUE)>>,
  <<Seg(0, 1, TRUE), Seg(4, 3, TRUE)>>,
  <<Seg(0, 3, TRUE), Seg(2, 3, FALSE)>>,   \* a segment that cannot be read
  <<Seg(3, 1, TRUE)>>,                     \* not aligned
  <<Seg(2, 4, TRUE), Seg(0, 2, TRUE)>>}    \* not in order
Changes == {-9, -3, 1, 4}
Symmetry == Permutations(CPU) \cup Permutations(Thread)

Init == (LockInit /\ MemoryIdle) \/ (LockIdle /\ MemoryInit)
Next == (LockNext /\ UNCHANGED memoryvars) \/ (MemoryNext /\ UNCHANGED lockvars)
Spec == Init /\ [][Next]_<<lockvars, memoryvars>>
=============================================================================
