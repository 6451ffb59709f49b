------------------------------ MODULE SpinLock ------------------------------
(* Spin locks (kernel/spinlock.c) instruction by instruction: acquire() and   *)
(* release() by kernel threads, which the timer may move to another CPU, and  *)
(* by interrupt handlers, with the nesting of push_off() and pop_off().       *)
EXTENDS Integers, FiniteSets

CONSTANTS
  CPU, Thread,
  None,
  NLOCK         \* locks; whoever holds one takes only later ones

ASSUME LockAssumption == NLOCK \in Nat \ {0}
ASSUME NamesAssumption == CPU \cap Thread = {} /\ None \notin CPU \cup Thread

Lock == 1..NLOCK
Agent == Thread \cup CPU    \* threads, and the interrupt handler of each CPU

VARIABLES
  locked, lcpu,     \* lk->locked, lk->cpu
  intr,             \* SSTATUS_SIE of each CPU
  noff, intena,     \* of struct cpu
  where,            \* the CPU a thread runs on, None if it was preempted
  handler,          \* whether a CPU is in an interrupt handler
  pc, old,          \* of each agent; old of push_off()
  lk,               \* the lock that an agent acquires or releases
  held,             \* the locks that it has acquired
  panicked

lockvars == <<locked, lcpu, intr, noff, intena, where, handler, pc, old, lk, held, panicked>>
locks == <<locked, lcpu>>
cpus == <<intr, noff, intena>>
place == <<where, handler>>

Unlocked ==
  /\ locked = [l \in Lock |-> FALSE] /\ lcpu = [l \in Lock |-> None]
  /\ intr = [c \in CPU |-> TRUE] /\ noff = [c \in CPU |-> 0] /\ intena = [c \in CPU |-> FALSE]
  /\ where = [t \in Thread |-> None] /\ handler = [c \in CPU |-> FALSE]
  /\ pc = [a \in Agent |-> "run"] /\ old = [a \in Agent |-> FALSE]
  /\ lk = [a \in Agent |-> None] /\ held = [a \in Agent |-> {}]

LockInit == Unlocked /\ panicked = "no"
LockIdle == Unlocked /\ panicked = "off"     \* no CPU runs

-----------------------------------------------------------------------------
CpuOf(a) == IF a \in CPU THEN a ELSE where[a]

(* An agent takes a step while its CPU executes it. *)
Runs(a) == panicked = "no" /\ IF a \in CPU THEN handler[a] ELSE where[a] # None /\ ~handler[where[a]]
At(a, l) == Runs(a) /\ pc[a] = l
Go(a, l) == pc' = [pc EXCEPT ![a] = l]

(* push_off(): the interrupt flag is read before it is cleared. *)
Acquire(a, l) ==
  /\ At(a, "run") /\ \A k \in held[a] : k < l
  /\ lk' = [lk EXCEPT ![a] = l]
  /\ old' = [old EXCEPT ![a] = intr[CpuOf(a)]]
  /\ Go(a, "intr_off")
  /\ UNCHANGED <<locks, cpus, place, held, panicked>>

TurnsOff(c) == [intr EXCEPT ![c] = FALSE]

IntrOff(a) ==
  /\ At(a, "intr_off")
  /\ intr' = TurnsOff(CpuOf(a))
  /\ Go(a, "noff")
  /\ UNCHANGED <<locks, noff, intena, place, old, lk, held, panicked>>

SavesAlways(c) == TRUE
Saves(c) == noff[c] = 0

Pushed(n) == n + 1

Noff(a) ==
  LET c == CpuOf(a)
  IN  /\ At(a, "noff")
      /\ intena' = IF Saves(c) THEN [intena EXCEPT ![c] = old[a]] ELSE intena
      /\ noff' = [noff EXCEPT ![c] = Pushed(@)]
      /\ old' = [old EXCEPT ![a] = FALSE]
      /\ Go(a, "holding")
      /\ UNCHANGED <<locks, intr, place, lk, held, panicked>>

Holding(c, l) == locked[l] /\ lcpu[l] = c

AcquireHolding(a) ==
  /\ At(a, "holding")
  /\ panicked' = IF Holding(CpuOf(a), lk[a]) THEN "acquire" ELSE "no"
  /\ Go(a, "swap")
  /\ UNCHANGED <<locks, cpus, place, old, lk, held>>

IsFreeAlways(l) == TRUE
IsFree(l) == ~locked[l]

Swap(a) ==
  /\ At(a, "swap") /\ IsFree(lk[a])
  /\ locked' = [locked EXCEPT ![lk[a]] = TRUE]
  /\ Go(a, "cpu")
  /\ UNCHANGED <<lcpu, cpus, place, old, lk, held, panicked>>

Records(a) == [lcpu EXCEPT ![lk[a]] = CpuOf(a)]

Acquired(a) ==
  /\ At(a, "cpu")
  /\ lcpu' = Records(a)
  /\ held' = [held EXCEPT ![a] = @ \cup {lk[a]}]
  /\ lk' = [lk EXCEPT ![a] = None]
  /\ Go(a, "run")
  /\ UNCHANGED <<locked, cpus, place, old, panicked>>

-----------------------------------------------------------------------------
(* release() of any lock that it holds: lk->cpu first, then lk->locked.       *)
Release(a, l) ==
  /\ At(a, "run") /\ l \in held[a]
  /\ panicked' = IF Holding(CpuOf(a), l) THEN "no" ELSE "release"
  /\ held' = [held EXCEPT ![a] = @ \ {l}]
  /\ lk' = [lk EXCEPT ![a] = l]
  /\ Go(a, "release")
  /\ UNCHANGED <<locks, cpus, place, old>>

ReleaseCpu(a) ==
  /\ At(a, "release")
  /\ lcpu' = [lcpu EXCEPT ![lk[a]] = None]
  /\ Go(a, "unlock")
  /\ UNCHANGED <<locked, cpus, place, old, lk, held, panicked>>

Unlocks(a) == [locked EXCEPT ![lk[a]] = FALSE]

ReleaseLocked(a) ==
  /\ At(a, "unlock")
  /\ locked' = Unlocks(a)
  /\ lk' = [lk EXCEPT ![a] = None]
  /\ Go(a, "pop_off")
  /\ UNCHANGED <<lcpu, cpus, place, old, held, panicked>>

PopOff(a) ==
  LET c == CpuOf(a)
  IN  /\ At(a, "pop_off")
      /\ panicked' = IF intr[c] \/ noff[c] < 1 THEN "pop_off" ELSE "no"
      /\ noff' = [noff EXCEPT ![c] = @ - 1]
      /\ intr' = [intr EXCEPT ![c] = noff[c] = 1 /\ intena[c]]
      /\ intena' = [intena EXCEPT ![c] = @ /\ noff[c] > 1]
      /\ Go(a, "run")
      /\ UNCHANGED <<locks, place, old, lk, held>>

-----------------------------------------------------------------------------
(* A trap clears SSTATUS_SIE, and the return from it sets it again.           *)
Interrupt(c) ==
  /\ panicked = "no" /\ intr[c]
  /\ intr' = [intr EXCEPT ![c] = FALSE]
  /\ handler' = [handler EXCEPT ![c] = TRUE]
  /\ UNCHANGED <<locks, noff, intena, where, pc, old, lk, held, panicked>>

InterruptReturn(c) ==
  /\ At(c, "run") /\ held[c] = {}
  /\ intr' = [intr EXCEPT ![c] = TRUE]
  /\ handler' = [handler EXCEPT ![c] = FALSE]
  /\ UNCHANGED <<locks, noff, intena, where, pc, old, lk, held, panicked>>

(* kerneltrap() for the timer calls yield(); the scheduler runs a thread.     *)
Yield(t) ==
  /\ Runs(t) /\ intr[where[t]]
  /\ where' = [where EXCEPT ![t] = None]
  /\ UNCHANGED <<locks, cpus, handler, pc, old, lk, held, panicked>>

Schedule(t, c) ==
  /\ panicked = "no" /\ where[t] = None /\ intr[c] /\ \A u \in Thread : where[u] # c
  /\ where' = [where EXCEPT ![t] = c]
  /\ UNCHANGED <<locks, cpus, handler, pc, old, lk, held, panicked>>

-----------------------------------------------------------------------------
Pushes(a) == Noff(a) \/ AcquireHolding(a) \/ Acquired(a)
Pops(a) == ReleaseCpu(a) \/ ReleaseLocked(a) \/ PopOff(a)

LockNext ==
  \/ \E a \in Agent : (\E l \in Lock : Acquire(a, l) \/ Release(a, l))
          \/ IntrOff(a) \/ Pushes(a) \/ Swap(a) \/ Pops(a)
  \/ \E c \in CPU : Interrupt(c) \/ InterruptReturn(c)
  \/ \E t \in Thread : Yield(t) \/ \E c \in CPU : Schedule(t, c)

LockSpec == LockInit /\ [][LockNext]_lockvars

-----------------------------------------------------------------------------
(* Properties. *)

Owns(a, l) == l \in held[a] \/ (pc[a] \in {"cpu", "release", "unlock"} /\ lk[a] = l)

(* One agent at a time is between the swaps of acquire() and release().       *)
Mutex == \A l \in Lock, a, b \in Agent : a # b /\ Owns(a, l) => ~Owns(b, l)

(* "disable interrupts to avoid deadlock" and "it takes two pop_off()s to     *)
(* undo two push_off()s": no handler runs on a CPU on top of a thread that    *)
(* holds a lock, such a thread stays on its CPU, and outside acquire() and    *)
(* release() interrupts are on exactly when no lock is held.                  *)
InterruptsRight ==
  \A t \in Thread :
    /\ (\E l \in Lock : Owns(t, l)) => where[t] # None /\ ~handler[where[t]] /\ ~intr[where[t]]
    /\ Runs(t) /\ pc[t] = "run" => intr[where[t]] = (held[t] = {}) /\ noff[where[t]] = Cardinality(held[t])
=============================================================================
