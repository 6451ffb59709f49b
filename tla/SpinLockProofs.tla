--------------------------- MODULE SpinLockProofs ---------------------------
(* The invariant of SpinLock and what it says, for any CPUs, threads and      *)
(* number of locks.                                                           *)
EXTENDS SpinLock, FiniteSetTheorems, TLAPS

Acquiring == {"intr_off", "noff", "holding", "swap", "cpu"}
Releasing == {"release", "unlock"}
Nested == {"holding", "swap", "cpu", "release", "unlock", "pop_off"}

LockTypeOK ==
  /\ locked \in [Lock -> BOOLEAN] /\ lcpu \in [Lock -> CPU \cup {None}]
  /\ intr \in [CPU -> BOOLEAN] /\ noff \in [CPU -> Int] /\ intena \in [CPU -> BOOLEAN]
  /\ where \in [Thread -> CPU \cup {None}] /\ handler \in [CPU -> BOOLEAN]
  /\ pc \in [Agent -> {"run", "intr_off"} \cup {"noff"} \cup Nested] /\ old \in [Agent -> BOOLEAN]
  /\ lk \in [Agent -> Lock \cup {None}] /\ held \in [Agent -> SUBSET Lock]

(* An agent that its CPU executes, or would but for a panic. *)
On(a) == IF a \in CPU THEN handler[a] ELSE where[a] # None /\ ~handler[where[a]]

(* The calls of push_off() that an agent has not undone. *)
Nest(a) == Cardinality(held[a]) + IF pc[a] \in Nested THEN 1 ELSE 0

(* Where an interrupt may come, and a switch to another thread with it. *)
Calm(a) == pc[a] \in {"run", "intr_off"} /\ held[a] = {}

(* A handler has its CPU to itself: the thread below it, like one that no CPU *)
(* runs, is calm.                                                             *)
PlaceInv ==
  /\ \A t, u \in Thread : where[t] = where[u] /\ where[t] # None => t = u
  /\ \A a \in Agent : ~On(a) => Calm(a)

(* intr, noff and intena of a CPU follow from what runs on it. *)
IdleCpu(c) == ~handler[c] /\ \A t \in Thread : where[t] # c
CpuRight(a) ==
  /\ intr[CpuOf(a)] <=> a \in Thread /\ Calm(a)
  /\ noff[CpuOf(a)] = Nest(a)
  /\ noff[CpuOf(a)] > 0 => (intena[CpuOf(a)] <=> a \in Thread)
OldRight(a) == pc[a] \in {"intr_off", "noff"} => (old[a] <=> a \in Thread /\ held[a] = {})

CpuInv ==
  /\ \A c \in CPU : IdleCpu(c) => intr[c] /\ noff[c] = 0
  /\ \A a \in Agent : On(a) => CpuRight(a)
  /\ \A a \in Agent : OldRight(a)

(* Locks are taken in their order, and lk->cpu names the CPU of the owner. *)
Recorded(a, l) == l \in held[a] \/ (pc[a] = "release" /\ lk[a] = l)

OwnInv ==
  /\ \A a \in Agent : pc[a] \in Acquiring => lk[a] \in Lock /\ \A k \in held[a] : k < lk[a]
  /\ \A a \in Agent : pc[a] \in Releasing => lk[a] \in Lock /\ lk[a] \notin held[a]
  /\ \A a \in Agent, l \in Lock : Owns(a, l) => locked[l]
  /\ Mutex
  /\ \A a \in Agent, l \in Lock : Recorded(a, l) => lcpu[l] = CpuOf(a)
  /\ \A l \in Lock : lcpu[l] # None => \E a \in Agent : Recorded(a, l)

(* acquire() of a lock that the CPU holds, release() of one that it does not, *)
(* and an unbalanced pop_off() panic. *)
NoLockPanic == panicked = "no"

LockInv == LockTypeOK /\ PlaceInv /\ CpuInv /\ OwnInv /\ NoLockPanic

-----------------------------------------------------------------------------
LEMMA LockSets ==
  ASSUME NEW S \in SUBSET Lock
  PROVE  /\ Cardinality(S) \in Nat /\ (Cardinality(S) = 0 <=> S = {})
         /\ \A l \in Lock \ S : Cardinality(S \cup {l}) = Cardinality(S) + 1
         /\ \A l \in S : Cardinality(S \ {l}) = Cardinality(S) - 1
<1>0. IsFiniteSet(Lock)
  BY LockAssumption, FS_Interval DEF Lock
<1>1. IsFiniteSet(S)
  BY ZenonT(30), <1>0, FS_Subset
<1>. QED
  BY ZenonT(30), <1>1, FS_CardinalityType, FS_EmptySet, FS_AddElement, FS_RemoveElement

(* The agent that a CPU executes is the only one there that is not calm. *)
LEMMA Alone ==
  ASSUME LockTypeOK, PlaceInv, NEW a \in Agent, On(a)
  PROVE  /\ CpuOf(a) \in CPU
         /\ \A b \in Agent : b # a /\ CpuOf(b) = CpuOf(a) => ~On(b) /\ Calm(b)
  BY ZenonT(30), NamesAssumption DEF LockTypeOK, PlaceInv, On, CpuOf, Agent

(* A step of an agent keeps what it keeps of its own CPU. *)
LEMMA AgentStep ==
  ASSUME LockInv, LockTypeOK', NEW a \in Agent, On(a), UNCHANGED place,
         \A b \in Agent \ {a} : pc'[b] = pc[b] /\ held'[b] = held[b] /\ old'[b] = old[b],
         \A c \in CPU \ {CpuOf(a)} : intr'[c] = intr[c] /\ noff'[c] = noff[c] /\ intena'[c] = intena[c],
         CpuRight(a)', OldRight(a)'
  PROVE  PlaceInv' /\ CpuInv'
<1>. USE NamesAssumption DEF LockInv
<1>1. CpuOf(a) \in CPU /\ \A b \in Agent : CpuOf(b)' = CpuOf(b) /\ On(b)' = On(b)
  BY ZenonT(30), Alone DEF CpuOf, On, place
<1>2. PlaceInv'
  BY ZenonT(30), <1>1 DEF PlaceInv, Calm, place
<1>3. ASSUME NEW c \in CPU, IdleCpu(c)' PROVE (intr[c] /\ noff[c] = 0)'
  <2>1. IdleCpu(c) /\ c # CpuOf(a)
    BY ZenonT(30), <1>3 DEF IdleCpu, CpuOf, On, place, Agent
  <2>. QED
    BY ZenonT(30), <2>1 DEF CpuInv
<1>4. ASSUME NEW b \in Agent, On(b)' PROVE CpuRight(b)'
  <2>1. CASE b # a
    <3>1. On(b) /\ CpuOf(b) \in CPU /\ CpuOf(b) # CpuOf(a)
      BY ZenonT(30), <1>1, <1>4, <2>1, Alone
    <3>. QED
      BY <1>1, <2>1, <3>1 DEF CpuInv, CpuRight, Nest, Calm
  <2>. QED
    BY ZenonT(30), <2>1
<1>5. ASSUME NEW b \in Agent PROVE OldRight(b)'
  BY DEF CpuInv, OldRight
<1>. QED
  BY ZenonT(30), <1>2, <1>3, <1>4, <1>5 DEF CpuInv
(* What is known of an agent that takes a step. *)
LEMMA Runner ==
  ASSUME LockInv, NEW a \in Agent, Runs(a)
  PROVE  /\ On(a) /\ CpuOf(a) \in CPU /\ CpuRight(a) /\ OldRight(a) /\ held[a] \in SUBSET Lock
         /\ Cardinality(held[a]) \in Nat /\ (Cardinality(held[a]) = 0 <=> held[a] = {})
<1>1. On(a) /\ held[a] \in SUBSET Lock
  BY ZenonT(30), NamesAssumption DEF LockInv, LockTypeOK, Runs, On, Agent
<1>. QED
  BY ZenonT(30), <1>1, Alone, LockSets DEF LockInv, CpuInv

-----------------------------------------------------------------------------
LEMMA AcquireKeeps ==
  ASSUME LockInv, NEW a \in Agent, NEW l \in Lock, Acquire(a, l)
  PROVE  LockInv'
<1>0. At(a, pc[a]) /\ On(a) /\ CpuOf(a) \in CPU /\ CpuRight(a) /\ OldRight(a)
  BY ZenonT(30), Runner DEF Acquire, At
<1>1. LockTypeOK'
  BY ZenonT(30), <1>0 DEF LockInv, LockTypeOK, Acquire, At, Go, Agent, Nested, locks, cpus, place
<1>2. CpuRight(a)' /\ OldRight(a)'
  BY ZenonT(30), <1>0, <1>1, NamesAssumption DEF LockTypeOK, Acquire, At, Go, CpuRight, OldRight, CpuOf, Calm, Nest, Nested, locks, cpus, place
<1>3. PlaceInv' /\ CpuInv'
  BY ZenonT(30), <1>0, <1>1, <1>2, AgentStep DEF LockInv, LockTypeOK, Acquire, At, Go, locks, cpus
<1>4. OwnInv'
  BY <1>0, NamesAssumption DEF LockInv, LockTypeOK, OwnInv, Mutex, Owns, Recorded, Acquire, At, Go, CpuOf, Acquiring, Releasing, locks, cpus, place
<1>5. NoLockPanic'
  BY ZenonT(30) DEF LockInv, NoLockPanic, Acquire
<1>. QED
  BY ZenonT(30), <1>1, <1>3, <1>4, <1>5 DEF LockInv

LEMMA IntrOffKeeps ==
  ASSUME LockInv, NEW a \in Agent, IntrOff(a)
  PROVE  LockInv'
<1>0. At(a, pc[a]) /\ On(a) /\ CpuOf(a) \in CPU /\ CpuRight(a) /\ OldRight(a)
  BY ZenonT(30), Runner DEF IntrOff, At
<1>1. LockTypeOK'
  BY ZenonT(30), <1>0 DEF LockInv, LockTypeOK, IntrOff, TurnsOff, At, Go, Agent, Nested, locks, cpus, place
<1>2. CpuRight(a)' /\ OldRight(a)'
  BY <1>0, <1>1, NamesAssumption DEF LockTypeOK, IntrOff, TurnsOff, At, Go, CpuRight, OldRight, CpuOf, Calm, Nest, Nested, locks, cpus, place
<1>3. PlaceInv' /\ CpuInv'
  BY ZenonT(30), <1>0, <1>1, <1>2, AgentStep DEF LockInv, LockTypeOK, IntrOff, TurnsOff, At, Go, locks, cpus
<1>4. OwnInv'
  BY <1>0, NamesAssumption DEF LockInv, LockTypeOK, OwnInv, Mutex, Owns, Recorded, IntrOff, TurnsOff, At, Go, CpuOf, Acquiring, Releasing, locks, cpus, place
<1>5. NoLockPanic'
  BY ZenonT(30) DEF LockInv, NoLockPanic, IntrOff
<1>. QED
  BY ZenonT(30), <1>1, <1>3, <1>4, <1>5 DEF LockInv

LEMMA NoffKeeps ==
  ASSUME LockInv, NEW a \in Agent, Noff(a)
  PROVE  LockInv'
<1>0. At(a, pc[a]) /\ On(a) /\ CpuOf(a) \in CPU /\ CpuRight(a) /\ OldRight(a)
  BY ZenonT(30), Runner DEF Noff, At
<1>1. LockTypeOK'
  BY <1>0 DEF LockInv, LockTypeOK, Noff, Saves, Pushed, At, Go, Agent, Nested, locks, cpus, place
<1>2. CpuRight(a)' /\ OldRight(a)'
  BY <1>0, <1>1, Runner, NamesAssumption DEF LockTypeOK, Noff, Saves, Pushed, At, Go, CpuRight, OldRight, CpuOf, Calm, Nest, Nested, locks, cpus, place
<1>3. PlaceInv' /\ CpuInv'
  BY ZenonT(30), <1>0, <1>1, <1>2, AgentStep DEF LockInv, LockTypeOK, Noff, Saves, Pushed, At, Go, locks, cpus
<1>4. OwnInv'
  BY <1>0, NamesAssumption DEF LockInv, LockTypeOK, OwnInv, Mutex, Owns, Recorded, Noff, Saves, Pushed, At, Go, CpuOf, Acquiring, Releasing, locks, cpus, place
<1>5. NoLockPanic'
  BY ZenonT(30) DEF LockInv, NoLockPanic, Noff
<1>. QED
  BY ZenonT(30), <1>1, <1>3, <1>4, <1>5 DEF LockInv

LEMMA AcquireHoldingKeeps ==
  ASSUME LockInv, NEW a \in Agent, AcquireHolding(a)
  PROVE  LockInv'
<1>0. At(a, pc[a]) /\ On(a) /\ CpuOf(a) \in CPU /\ CpuRight(a) /\ OldRight(a)
  BY ZenonT(30), Runner DEF AcquireHolding, At
<1>1. LockTypeOK'
  BY ZenonT(30), <1>0 DEF LockInv, LockTypeOK, AcquireHolding, At, Go, Agent, Nested, locks, cpus, place
<1>2. CpuRight(a)' /\ OldRight(a)'
  BY ZenonT(30), <1>0, <1>1, NamesAssumption DEF LockTypeOK, AcquireHolding, At, Go, CpuRight, OldRight, CpuOf, Calm, Nest, Nested, locks, cpus, place
<1>3. PlaceInv' /\ CpuInv'
  BY ZenonT(30), <1>0, <1>1, <1>2, AgentStep DEF LockInv, LockTypeOK, AcquireHolding, At, Go, locks, cpus
<1>4. OwnInv'
  BY <1>0, NamesAssumption DEF LockInv, LockTypeOK, OwnInv, Mutex, Owns, Recorded, AcquireHolding, At, Go, CpuOf, Acquiring, Releasing, locks, cpus, place
<1>5. NoLockPanic'
  <2>1. ASSUME Holding(CpuOf(a), lk[a]) PROVE FALSE
    <3>1. lk[a] \in Lock /\ lk[a] \notin held[a]
      BY DEF LockInv, OwnInv, AcquireHolding, At, Acquiring, Lock
    <3>2. PICK b \in Agent : Recorded(b, lk[a])
      BY ZenonT(30), <1>0, <2>1, <3>1, NamesAssumption DEF LockInv, OwnInv, Holding
    <3>3. b # a /\ CpuOf(b) = CpuOf(a)
      BY ZenonT(30), <2>1, <3>1, <3>2 DEF LockInv, OwnInv, Holding, Recorded, AcquireHolding, At
    <3>4. Calm(b)
      BY ZenonT(30), <1>0, <3>3, Alone DEF LockInv
    <3>. QED
      BY ZenonT(30), <3>2, <3>4 DEF Calm, Recorded
  <2>. QED
    BY ZenonT(30), <2>1 DEF AcquireHolding, NoLockPanic
<1>. QED
  BY ZenonT(30), <1>1, <1>3, <1>4, <1>5 DEF LockInv

LEMMA SwapKeeps ==
  ASSUME LockInv, NEW a \in Agent, Swap(a)
  PROVE  LockInv'
<1>0. At(a, pc[a]) /\ On(a) /\ CpuOf(a) \in CPU /\ CpuRight(a) /\ OldRight(a)
  BY ZenonT(30), Runner DEF Swap, At
<1>1. LockTypeOK'
  BY ZenonT(30), <1>0 DEF LockInv, LockTypeOK, Swap, IsFree, At, Go, Agent, Nested, locks, cpus, place
<1>2. CpuRight(a)' /\ OldRight(a)'
  BY ZenonT(30), <1>0, <1>1, NamesAssumption DEF LockTypeOK, Swap, IsFree, At, Go, CpuRight, OldRight, CpuOf, Calm, Nest, Nested, locks, cpus, place
<1>3. PlaceInv' /\ CpuInv'
  BY ZenonT(30), <1>0, <1>1, <1>2, AgentStep DEF LockInv, LockTypeOK, Swap, IsFree, At, Go, locks, cpus
<1>4. OwnInv'
  BY <1>0, NamesAssumption DEF LockInv, LockTypeOK, OwnInv, Mutex, Owns, Recorded, Swap, IsFree, At, Go, CpuOf, Acquiring, Releasing, locks, cpus, place
<1>5. NoLockPanic'
  BY ZenonT(30) DEF LockInv, NoLockPanic, Swap
<1>. QED
  BY ZenonT(30), <1>1, <1>3, <1>4, <1>5 DEF LockInv

LEMMA AcquiredKeeps ==
  ASSUME LockInv, NEW a \in Agent, Acquired(a)
  PROVE  LockInv'
<1>0. At(a, pc[a]) /\ On(a) /\ CpuOf(a) \in CPU /\ CpuRight(a) /\ OldRight(a)
  BY ZenonT(30), Runner DEF Acquired, At
<1>a. lk[a] \in Lock /\ lk[a] \notin held[a]
  BY DEF LockInv, OwnInv, Acquired, At, Acquiring, Lock
<1>1. LockTypeOK'
  BY <1>0, <1>a DEF LockInv, LockTypeOK, Acquired, Records, Go, Agent, Nested, locks, cpus, place
<1>2. CpuRight(a)' /\ OldRight(a)'
  <2>1. Cardinality(held[a] \cup {lk[a]}) = Cardinality(held[a]) + 1 /\ Cardinality(held[a]) \in Nat
    BY ZenonT(30), <1>0, <1>a, Runner, LockSets DEF At
  <2>. QED
    BY <1>0, <1>1, <2>1, NamesAssumption DEF LockInv, LockTypeOK, Acquired, Records, At, Go, CpuRight, OldRight, CpuOf, Calm, Nest, Nested, locks, cpus, place
<1>3. PlaceInv' /\ CpuInv'
  BY ZenonT(30), <1>0, <1>1, <1>2, AgentStep DEF LockInv, LockTypeOK, Acquired, Records, At, Go, locks, cpus
<1>4. OwnInv'
  BY <1>0, NamesAssumption DEF LockInv, LockTypeOK, OwnInv, Mutex, Owns, Recorded, Acquired, Records, At, Go, CpuOf, Acquiring, Releasing, locks, cpus, place
<1>5. NoLockPanic'
  BY ZenonT(30) DEF LockInv, NoLockPanic, Acquired
<1>. QED
  BY ZenonT(30), <1>1, <1>3, <1>4, <1>5 DEF LockInv

LEMMA ReleaseKeeps ==
  ASSUME LockInv, NEW a \in Agent, NEW l \in Lock, Release(a, l)
  PROVE  LockInv'
<1>0. At(a, pc[a]) /\ On(a) /\ CpuOf(a) \in CPU /\ CpuRight(a) /\ OldRight(a)
  BY ZenonT(30), Runner DEF Release, At
<1>1. LockTypeOK'
  BY ZenonT(30), <1>0 DEF LockInv, LockTypeOK, Release, At, Go, Agent, Nested, locks, cpus, place
<1>2. CpuRight(a)' /\ OldRight(a)'
  <2>1. Cardinality(held[a] \ {l}) = Cardinality(held[a]) - 1 /\ Cardinality(held[a]) \in Nat
    BY ZenonT(30), <1>0, Runner, LockSets DEF Release, At
  <2>. QED
    BY <1>0, <1>1, <2>1, NamesAssumption DEF LockInv, LockTypeOK, Release, At, Go, CpuRight, OldRight, CpuOf, Calm, Nest, Nested, locks, cpus, place
<1>3. PlaceInv' /\ CpuInv'
  BY ZenonT(30), <1>0, <1>1, <1>2, AgentStep DEF LockInv, LockTypeOK, Release, At, Go, locks, cpus
<1>4. OwnInv'
  BY <1>0, NamesAssumption DEF LockInv, LockTypeOK, OwnInv, Mutex, Owns, Recorded, Release, At, Go, CpuOf, Acquiring, Releasing, locks, cpus, place
<1>5. NoLockPanic'
  <2>1. Holding(CpuOf(a), l)
    BY ZenonT(30) DEF LockInv, OwnInv, Owns, Recorded, Holding, Release
  <2>. QED
    BY ZenonT(30), <2>1 DEF Release, NoLockPanic
<1>. QED
  BY ZenonT(30), <1>1, <1>3, <1>4, <1>5 DEF LockInv

LEMMA ReleaseCpuKeeps ==
  ASSUME LockInv, NEW a \in Agent, ReleaseCpu(a)
  PROVE  LockInv'
<1>0. At(a, pc[a]) /\ On(a) /\ CpuOf(a) \in CPU /\ CpuRight(a) /\ OldRight(a)
  BY ZenonT(30), Runner DEF ReleaseCpu, At
<1>1. LockTypeOK'
  BY ZenonT(30), <1>0 DEF LockInv, LockTypeOK, ReleaseCpu, At, Go, Agent, Nested, locks, cpus, place
<1>2. CpuRight(a)' /\ OldRight(a)'
  BY ZenonT(30), <1>0, <1>1, NamesAssumption DEF LockTypeOK, ReleaseCpu, At, Go, CpuRight, OldRight, CpuOf, Calm, Nest, Nested, locks, cpus, place
<1>3. PlaceInv' /\ CpuInv'
  BY ZenonT(30), <1>0, <1>1, <1>2, AgentStep DEF LockInv, LockTypeOK, ReleaseCpu, At, Go, locks, cpus
<1>4. OwnInv'
  BY <1>0, NamesAssumption DEF LockInv, LockTypeOK, OwnInv, Mutex, Owns, Recorded, ReleaseCpu, At, Go, CpuOf, Acquiring, Releasing, locks, cpus, place
<1>5. NoLockPanic'
  BY ZenonT(30) DEF LockInv, NoLockPanic, ReleaseCpu
<1>. QED
  BY ZenonT(30), <1>1, <1>3, <1>4, <1>5 DEF LockInv

LEMMA ReleaseLockedKeeps ==
  ASSUME LockInv, NEW a \in Agent, ReleaseLocked(a)
  PROVE  LockInv'
<1>0. At(a, pc[a]) /\ On(a) /\ CpuOf(a) \in CPU /\ CpuRight(a) /\ OldRight(a)
  BY ZenonT(30), Runner DEF ReleaseLocked, At
<1>1. LockTypeOK'
  BY ZenonT(30), <1>0 DEF LockInv, LockTypeOK, ReleaseLocked, Unlocks, At, Go, Agent, Nested, locks, cpus, place
<1>2. CpuRight(a)' /\ OldRight(a)'
  BY ZenonT(30), <1>0, <1>1, NamesAssumption DEF LockTypeOK, ReleaseLocked, Unlocks, At, Go, CpuRight, OldRight, CpuOf, Calm, Nest, Nested, locks, cpus, place
<1>3. PlaceInv' /\ CpuInv'
  BY ZenonT(30), <1>0, <1>1, <1>2, AgentStep DEF LockInv, LockTypeOK, ReleaseLocked, Unlocks, At, Go, locks, cpus
<1>4. OwnInv'
  BY <1>0, NamesAssumption DEF LockInv, LockTypeOK, OwnInv, Mutex, Owns, Recorded, ReleaseLocked, Unlocks, At, Go, CpuOf, Acquiring, Releasing, locks, cpus, place
<1>5. NoLockPanic'
  BY ZenonT(30) DEF LockInv, NoLockPanic, ReleaseLocked
<1>. QED
  BY ZenonT(30), <1>1, <1>3, <1>4, <1>5 DEF LockInv

LEMMA PopOffKeeps ==
  ASSUME LockInv, NEW a \in Agent, PopOff(a)
  PROVE  LockInv'
<1>0. At(a, pc[a]) /\ On(a) /\ CpuOf(a) \in CPU /\ CpuRight(a) /\ OldRight(a)
  BY ZenonT(30), Runner DEF PopOff, At
<1>1. LockTypeOK'
  BY <1>0 DEF LockInv, LockTypeOK, PopOff, At, Go, Agent, Nested, locks, cpus, place
<1>2. CpuRight(a)' /\ OldRight(a)'
  BY <1>0, <1>1, Runner, NamesAssumption DEF LockInv, LockTypeOK, PopOff, At, Go, CpuRight, OldRight, CpuOf, Calm, Nest, Nested, locks, place
<1>3. PlaceInv' /\ CpuInv'
  BY ZenonT(30), <1>0, <1>1, <1>2, AgentStep DEF LockInv, LockTypeOK, PopOff, At, Go, locks, cpus
<1>4. OwnInv'
  BY <1>0, NamesAssumption DEF LockInv, LockTypeOK, OwnInv, Mutex, Owns, Recorded, PopOff, At, Go, CpuOf, Acquiring, Releasing, locks, cpus, place
<1>5. NoLockPanic'
  <2>1. ~intr[CpuOf(a)]
    BY ZenonT(30), <1>0 DEF PopOff, At, CpuRight, Calm
  <2>2. noff[CpuOf(a)] = Cardinality(held[a]) + 1
    BY ZenonT(30), <1>0 DEF PopOff, At, CpuRight, Nest, Nested
  <2>3. Cardinality(held[a]) \in Nat
    BY ZenonT(30), <1>0, Runner DEF At
  <2>4. ~(noff[CpuOf(a)] < 1)
    BY <2>2, <2>3
  <2>. QED
    BY ZenonT(30), <2>1, <2>4 DEF PopOff, NoLockPanic
<1>. QED
  BY ZenonT(30), <1>1, <1>3, <1>4, <1>5 DEF LockInv

-----------------------------------------------------------------------------
(* A CPU that may be interrupted or may switch threads has nothing pushed. *)
LEMMA CalmCpu ==
  ASSUME LockInv, NEW c \in CPU, intr[c]
  PROVE  ~handler[c] /\ noff[c] = 0 /\ \A t \in Thread : where[t] = c => Calm(t)
<1>1. c \in Agent /\ CpuOf(c) = c
  BY ZenonT(30) DEF Agent, CpuOf
<1>2. ~handler[c]
  BY ZenonT(30), <1>1, NamesAssumption DEF LockInv, CpuInv, CpuRight, On, Agent
<1>3. ASSUME NEW t \in Thread, where[t] = c PROVE Calm(t) /\ noff[c] = 0
  <2>1. t \in Agent /\ On(t) /\ CpuOf(t) = c
    BY ZenonT(30), <1>2, <1>3, NamesAssumption DEF On, CpuOf, Agent
  <2>2. Calm(t) /\ noff[c] = Nest(t)
    BY ZenonT(30), <2>1 DEF LockInv, CpuInv, CpuRight
  <2>. QED
    BY <2>2, FS_EmptySet DEF Nest, Calm, Nested
<1>. QED
  BY ZenonT(30), <1>2, <1>3 DEF LockInv, CpuInv, IdleCpu

LEMMA InterruptKeeps ==
  ASSUME LockInv, NEW c \in CPU, Interrupt(c)
  PROVE  LockInv'
<1>0. ~handler[c] /\ noff[c] = 0 /\ \A t \in Thread : where[t] = c => Calm(t)
  BY ZenonT(30), CalmCpu DEF Interrupt
<1>1. LockTypeOK'
  BY ZenonT(30) DEF LockInv, LockTypeOK, Interrupt, locks
<1>2. \A a \in Agent : CpuOf(a)' = CpuOf(a) /\ (On(a)' <=> a = c \/ (On(a) /\ CpuOf(a) # c))
  BY ZenonT(30), <1>0, NamesAssumption DEF LockInv, LockTypeOK, CpuOf, On, Agent, Interrupt
<1>3. PlaceInv'
  BY ZenonT(30), <1>0, <1>2 DEF LockInv, PlaceInv, Calm, Interrupt, On, CpuOf, Agent
<1>4. CpuInv'
  <2>1. \A d \in CPU : IdleCpu(d)' => d # c /\ IdleCpu(d)
    BY ZenonT(30) DEF LockInv, LockTypeOK, IdleCpu, Interrupt
  <2>2. Calm(c) /\ Nest(c) = 0 /\ c \notin Thread /\ CpuOf(c) = c
    BY <1>0, FS_EmptySet, NamesAssumption DEF LockInv, PlaceInv, On, Calm, Nest, Nested, Agent, CpuOf
  <2>3. \A a \in Agent : On(a)' => CpuRight(a)'
    <3>1. CpuRight(c)'
      BY <1>0, <1>2, <2>2, c \in Agent DEF LockInv, LockTypeOK, CpuRight, Calm, Nest, Interrupt, Agent
    <3>2. \A a \in Agent : On(a) /\ CpuOf(a) # c => CpuOf(a) \in CPU /\ CpuRight(a)
      BY ZenonT(30), Alone DEF LockInv, CpuInv
    <3>3. \A a \in Agent : On(a) /\ CpuOf(a) # c => CpuRight(a)'
      BY <1>2, <3>2 DEF LockInv, LockTypeOK, CpuRight, Calm, Nest, Interrupt
    <3>. QED
      BY ZenonT(30), <1>2, <3>1, <3>3
  <2>. QED
    BY ZenonT(30), <2>1, <2>3 DEF LockInv, LockTypeOK, CpuInv, OldRight, Interrupt
<1>5. OwnInv'
  BY <1>2 DEF LockInv, OwnInv, Mutex, Owns, Recorded, Interrupt, locks
<1>. QED
  BY ZenonT(30), <1>1, <1>3, <1>4, <1>5 DEF LockInv, NoLockPanic, Interrupt

LEMMA InterruptReturnKeeps ==
  ASSUME LockInv, NEW c \in CPU, InterruptReturn(c)
  PROVE  LockInv'
<1>0. handler[c] /\ Calm(c) /\ CpuOf(c) = c /\ On(c) /\ c \in Agent
  BY ZenonT(30) DEF On, CpuOf, Calm, Agent, InterruptReturn, At, Runs
<1>a. noff[c] = 0
  <2>1. Nest(c) = 0
    BY <1>0, FS_EmptySet DEF Nest, Nested, Calm
  <2>2. noff[c] = Nest(c)
    BY ZenonT(30), <1>0 DEF LockInv, CpuInv, CpuRight
  <2>. QED
    BY ZenonT(30), <2>1, <2>2
<1>b. \A t \in Thread : where[t] = c => Calm(t)
  BY ZenonT(30), <1>0, NamesAssumption DEF LockInv, PlaceInv, On, Agent
<1>c. \A t \in Thread : Calm(t) => Nest(t) = 0
  BY FS_EmptySet DEF Nest, Nested, Calm
<1>1. LockTypeOK'
  BY ZenonT(30) DEF LockInv, LockTypeOK, InterruptReturn, locks
<1>2. \A a \in Agent : CpuOf(a)' = CpuOf(a) /\ (On(a)' <=> a # c /\ (On(a) \/ CpuOf(a) = c))
  BY ZenonT(30), <1>0, NamesAssumption DEF LockInv, LockTypeOK, CpuOf, On, Agent, InterruptReturn
<1>3. PlaceInv'
  BY ZenonT(30), <1>0, <1>b, <1>2 DEF LockInv, PlaceInv, Calm, InterruptReturn
<1>4. CpuInv'
  <2>1. \A d \in CPU : IdleCpu(d)' => d = c \/ IdleCpu(d)
    BY ZenonT(30) DEF LockInv, LockTypeOK, IdleCpu, InterruptReturn
  <2>2. \A a \in Agent : On(a)' => CpuRight(a)'
    <3>1. ASSUME NEW t \in Thread, where[t] = c PROVE CpuRight(t)'
      BY <1>a, <1>b, <1>c, <3>1, NamesAssumption DEF LockInv, LockTypeOK, CpuRight, CpuOf, Calm, Nest, InterruptReturn
    <3>2. \A a \in Agent : On(a) /\ a # c => CpuOf(a) \in CPU /\ CpuOf(a) # c /\ CpuRight(a)
      BY ZenonT(30), <1>0, Alone DEF LockInv, CpuInv
    <3>3. \A a \in Agent : On(a) /\ a # c => CpuRight(a)'
      BY <1>2, <3>2 DEF LockInv, LockTypeOK, CpuRight, Calm, Nest, InterruptReturn
    <3>. QED
      BY ZenonT(30), <1>2, <3>1, <3>3 DEF CpuOf, Agent
  <2>. QED
    BY ZenonT(30), <1>a, <2>1, <2>2 DEF LockInv, LockTypeOK, CpuInv, OldRight, InterruptReturn
<1>5. OwnInv'
  BY <1>2 DEF LockInv, OwnInv, Mutex, Owns, Recorded, InterruptReturn, locks
<1>. QED
  BY ZenonT(30), <1>1, <1>3, <1>4, <1>5 DEF LockInv, NoLockPanic, InterruptReturn

(* A thread that is moved holds nothing. *)
LEMMA Moved ==
  ASSUME LockInv, NEW t \in Thread, Calm(t), UNCHANGED <<locks, pc, lk, held>>,
         \A u \in Thread \ {t} : where'[u] = where[u]
  PROVE  OwnInv'
<1>1. \A a \in Agent : a # t => CpuOf(a)' = CpuOf(a)
  BY ZenonT(30) DEF CpuOf, Agent
<1>2. \A l \in Lock : ~Recorded(t, l) /\ ~Owns(t, l)
  BY ZenonT(30) DEF Calm, Recorded, Owns
<1>. QED
  BY <1>1, <1>2 DEF LockInv, OwnInv, Mutex, Owns, Recorded, locks

LEMMA YieldKeeps ==
  ASSUME LockInv, NEW t \in Thread, Yield(t)
  PROVE  LockInv'
<1>0. where[t] \in CPU /\ ~handler[where[t]] /\ intr[where[t]] /\ noff[where[t]] = 0 /\ Calm(t)
  BY ZenonT(30), CalmCpu, NamesAssumption DEF LockInv, LockTypeOK, Yield, Runs
<1>1. LockTypeOK'
  BY ZenonT(30) DEF LockInv, LockTypeOK, Yield, locks, cpus
<1>2. \A a \in Agent : a # t => CpuOf(a)' = CpuOf(a) /\ (On(a)' <=> On(a))
  BY DEF CpuOf, On, Agent, Yield
<1>3. ~On(t)'
  BY ZenonT(30), <1>0, NamesAssumption DEF LockInv, LockTypeOK, On, Yield
<1>4. PlaceInv'
  BY ZenonT(30), <1>0, <1>2 DEF LockInv, LockTypeOK, PlaceInv, Calm, Yield
<1>5. CpuInv'
  <2>1. \A c \in CPU : IdleCpu(c)' => c = where[t] \/ IdleCpu(c)
    BY ZenonT(30) DEF LockInv, LockTypeOK, IdleCpu, Yield
  <2>2. \A a \in Agent : On(a)' => CpuRight(a)'
    BY ZenonT(30), <1>2, <1>3 DEF LockInv, CpuInv, CpuRight, Calm, Nest, Yield, cpus
  <2>. QED
    BY ZenonT(30), <1>0, <2>1, <2>2 DEF LockInv, CpuInv, OldRight, Yield, cpus
<1>6. OwnInv'
  BY ZenonT(30), <1>0, Moved DEF LockInv, LockTypeOK, Yield
<1>. QED
  BY ZenonT(30), <1>1, <1>4, <1>5, <1>6 DEF LockInv, NoLockPanic, Yield

LEMMA ScheduleKeeps ==
  ASSUME LockInv, NEW t \in Thread, NEW c \in CPU, Schedule(t, c)
  PROVE  LockInv'
<1>0. ~handler[c] /\ noff[c] = 0 /\ Calm(t) /\ Nest(t) = 0
  BY CalmCpu, FS_EmptySet, NamesAssumption DEF LockInv, PlaceInv, On, Calm, Nest, Nested, Agent, Schedule
<1>1. LockTypeOK'
  BY ZenonT(30) DEF LockInv, LockTypeOK, Schedule, locks, cpus
<1>2. \A a \in Agent : a # t => CpuOf(a)' = CpuOf(a) /\ (On(a)' <=> On(a))
  BY DEF CpuOf, On, Agent, Schedule
<1>3. On(t)' /\ CpuOf(t)' = c
  BY ZenonT(30), <1>0, NamesAssumption DEF LockInv, LockTypeOK, On, CpuOf, Schedule
<1>4. PlaceInv'
  BY ZenonT(30), <1>2, <1>3, NamesAssumption DEF LockInv, LockTypeOK, PlaceInv, Calm, Schedule
<1>5. CpuInv'
  <2>1. \A d \in CPU : IdleCpu(d)' => IdleCpu(d)
    BY NamesAssumption DEF LockInv, LockTypeOK, IdleCpu, Schedule
  <2>2. \A a \in Agent : On(a)' => CpuRight(a)'
    <3>1. CpuRight(t)'
      BY <1>0, <1>3 DEF CpuRight, Calm, Nest, Schedule, cpus
    <3>2. \A a \in Agent : a # t /\ On(a)' => CpuRight(a)'
      BY ZenonT(30), <1>2 DEF LockInv, CpuInv, CpuRight, Calm, Nest, Schedule, cpus
    <3>. QED
      BY ZenonT(30), <3>1, <3>2
  <2>. QED
    BY ZenonT(30), <2>1, <2>2 DEF LockInv, CpuInv, OldRight, Schedule, cpus
<1>6. OwnInv'
  BY ZenonT(30), <1>0, Moved DEF LockInv, LockTypeOK, Schedule
<1>. QED
  BY ZenonT(30), <1>1, <1>4, <1>5, <1>6 DEF LockInv, NoLockPanic, Schedule

-----------------------------------------------------------------------------
LEMMA LockInitInv == LockInit => LockInv
<1>. SUFFICES ASSUME LockInit PROVE LockInv
  BY ZenonT(30)
<1>. USE DEF LockInit, Unlocked
<1>1. LockTypeOK
  BY DEF LockTypeOK
<1>2. \A a \in Agent : ~On(a) /\ Calm(a)
  BY ZenonT(30), NamesAssumption DEF On, Calm, Agent
<1>3. PlaceInv
  BY ZenonT(30), <1>2 DEF PlaceInv
<1>4. CpuInv
  BY ZenonT(30), <1>2 DEF CpuInv, OldRight
<1>5. OwnInv
  BY ZenonT(30) DEF OwnInv, Mutex, Owns, Recorded, Acquiring, Releasing
<1>. QED
  BY ZenonT(30), <1>1, <1>3, <1>4, <1>5 DEF LockInv, NoLockPanic

LEMMA LockStutter == LockInv /\ UNCHANGED lockvars => LockInv'
<1>. SUFFICES ASSUME LockInv, UNCHANGED lockvars PROVE LockInv'
  BY ZenonT(30)
<1>. USE DEF lockvars, LockInv
<1>1. LockTypeOK' /\ NoLockPanic'
  BY ZenonT(30) DEF LockTypeOK, NoLockPanic
<1>2. \A a \in Agent : CpuOf(a)' = CpuOf(a) /\ (On(a)' <=> On(a)) /\ (Calm(a)' <=> Calm(a)) /\ Nest(a)' = Nest(a)
  BY ZenonT(30) DEF CpuOf, On, Calm, Nest
<1>3. PlaceInv'
  BY ZenonT(30), <1>2 DEF PlaceInv
<1>4. CpuInv'
  BY ZenonT(30), <1>2 DEF CpuInv, IdleCpu, CpuRight, OldRight
<1>5. OwnInv'
  <2>1. \A a \in Agent, l \in Lock : (Owns(a, l)' <=> Owns(a, l)) /\ (Recorded(a, l)' <=> Recorded(a, l))
    BY ZenonT(30) DEF Owns, Recorded
  <2>. QED
    BY ZenonT(30), <1>2, <2>1 DEF OwnInv, Mutex
<1>. QED
  BY ZenonT(30), <1>1, <1>3, <1>4, <1>5

LEMMA LockStep == LockInv /\ [LockNext]_lockvars => LockInv'
<1>. SUFFICES ASSUME LockInv, [LockNext]_lockvars PROVE LockInv'
  BY ZenonT(30)
<1>1. ASSUME NEW a \in Agent, NEW l \in Lock, Acquire(a, l) \/ Release(a, l) PROVE LockInv'
  BY ZenonT(30), <1>1, AcquireKeeps, ReleaseKeeps
<1>2. ASSUME NEW a \in Agent, IntrOff(a) \/ Pushes(a) \/ Swap(a) PROVE LockInv'
  BY ZenonT(30), <1>2, IntrOffKeeps, NoffKeeps, AcquireHoldingKeeps, SwapKeeps, AcquiredKeeps DEF Pushes
<1>3. ASSUME NEW a \in Agent, Pops(a) PROVE LockInv'
  BY ZenonT(30), <1>3, ReleaseCpuKeeps, ReleaseLockedKeeps, PopOffKeeps DEF Pops
<1>4. ASSUME NEW c \in CPU, Interrupt(c) \/ InterruptReturn(c) PROVE LockInv'
  BY ZenonT(30), <1>4, InterruptKeeps, InterruptReturnKeeps
<1>5. ASSUME NEW t \in Thread, Yield(t) \/ \E c \in CPU : Schedule(t, c) PROVE LockInv'
  BY ZenonT(30), <1>5, YieldKeeps, ScheduleKeeps
<1>. QED
  BY ZenonT(30), <1>1, <1>2, <1>3, <1>4, <1>5, LockStutter DEF LockNext

LEMMA LockInvariance == LockSpec => []LockInv
  BY LockInitInv, LockStep, PTL DEF LockSpec

(* acquire() and release(): a lock has one owner at a time, whichever CPUs    *)
(* the threads and handlers run on and whenever they are interrupted.         *)
THEOREM LocksExclude == LockSpec => []Mutex
<1>1. LockInv => Mutex
  BY ZenonT(30) DEF LockInv, OwnInv
<1>. QED
  BY <1>1, LockInvariance, PTL

(* push_off() and pop_off(): a thread with a lock stays on its CPU with       *)
(* interrupts off, and they come back on with the last release().             *)
THEOREM HoldersUninterrupted == LockSpec => []InterruptsRight
<1>1. LockInv => InterruptsRight
  <2>. SUFFICES ASSUME LockInv, NEW t \in Thread
                PROVE  /\ (\E l \in Lock : Owns(t, l)) => where[t] # None /\ ~handler[where[t]] /\ ~intr[where[t]]
                       /\ Runs(t) /\ pc[t] = "run" =>
                            intr[where[t]] = (held[t] = {}) /\ noff[where[t]] = Cardinality(held[t])
    BY ZenonT(30) DEF InterruptsRight
  <2>1. t \in Agent /\ CpuOf(t) = where[t] /\ (On(t) <=> where[t] # None /\ ~handler[where[t]])
    BY ZenonT(30), NamesAssumption DEF On, CpuOf, Agent
  <2>2. ASSUME NEW l \in Lock, Owns(t, l) PROVE On(t) /\ ~Calm(t)
    BY ZenonT(30), <2>1, <2>2 DEF LockInv, PlaceInv, Owns, Calm
  <2>3. ASSUME Runs(t), pc[t] = "run"
        PROVE  intr[where[t]] = (held[t] = {}) /\ noff[where[t]] = Cardinality(held[t])
    <3>1. where[t] \in CPU /\ CpuRight(t) /\ Cardinality(held[t]) \in Nat
      BY ZenonT(30), <2>1, <2>3, Runner
    <3>. QED
      BY <2>1, <2>3, <3>1 DEF LockInv, LockTypeOK, CpuRight, Calm, Nest, Nested
  <2>. QED
    BY ZenonT(30), <2>1, <2>2, <2>3 DEF LockInv, CpuInv, CpuRight
<1>. QED
  BY <1>1, LockInvariance, PTL

(* None of the three panics of spinlock.c is reached by threads and handlers  *)
(* that take locks in order and release what they hold.                       *)
THEOREM LocksNeverPanic == LockSpec => []NoLockPanic
<1>1. LockInv => NoLockPanic
  BY ZenonT(30) DEF LockInv
<1>. QED
  BY <1>1, LockInvariance, PTL
=============================================================================
