-------------------------------- MODULE Proc --------------------------------
(* Processes of kernel/proc.c: fork, exit, wait, kill, sleep, wakeup, yield   *)
(* and the per-CPU scheduler, with wait_lock and every p->lock.               *)
(*                                                                            *)
(* A spin lock belongs to a CPU (lk->cpu), and swtch() hands p->lock over     *)
(* between a process and the scheduler of its CPU.  A lock that is taken and  *)
(* given back without taking another in between is one step, enabled when the *)
(* lock is free; the sections that nest locks or switch are several.          *)
EXTENDS Integers, FiniteSets

CONSTANTS
  NPROC,     \* slots of proc[]
  CPU,       \* cpus
  Free,      \* owner of a free lock
  None       \* null process

ASSUME NPROCAssumption == NPROC \in Nat \ {0}

Proc == 1..NPROC
Init0 == 1   \* initproc: userinit() takes the first slot

ASSUME SlotAssumption == Init0 \in Proc /\ None \notin Proc /\ Free \notin CPU

VARIABLES
  state, parent, chan, killed,   \* fields of struct proc
  plock, waitlock,               \* the CPU that holds p->lock, wait_lock
  run,                           \* c->proc
  pc,                            \* what the kernel thread of p does next
  ret,                           \* where it goes on when it is next run
  idx,                           \* its loop variable over proc[]
  np                             \* the child fork() is making

vars == <<state, parent, chan, killed, plock, waitlock, run, pc, ret, idx, np>>

(* userinit(): the first process, ready to run. *)
Init ==
  /\ state = [p \in Proc |-> IF p = Init0 THEN "RUNNABLE" ELSE "UNUSED"]
  /\ parent = [p \in Proc |-> None] /\ chan = [p \in Proc |-> None]
  /\ killed = [p \in Proc |-> FALSE]
  /\ plock = [p \in Proc |-> Free] /\ waitlock = Free
  /\ run = [c \in CPU |-> None]
  /\ pc = [p \in Proc |-> IF p = Init0 THEN "sched" ELSE "none"]
  /\ ret = [p \in Proc |-> IF p = Init0 THEN "user" ELSE "none"]
  /\ idx = [p \in Proc |-> 0] /\ np = [p \in Proc |-> None]

-----------------------------------------------------------------------------
(* p's kernel thread executes on c and is about to do what l says. *)
At(c, p, l) == run[c] = p /\ pc[p] = l

Goto(p, l) == pc' = [pc EXCEPT ![p] = l]

ScheduleUnlocked(c, p) ==
  /\ run[c] = None
  /\ state[p] = "RUNNABLE"
  /\ state' = [state EXCEPT ![p] = "RUNNING"]
  /\ run' = [run EXCEPT ![c] = p]
  /\ chan' = [chan EXCEPT ![p] = None]
  /\ Goto(p, ret[p])
  /\ ret' = [ret EXCEPT ![p] = "none"]
  /\ UNCHANGED <<parent, killed, plock, waitlock, idx, np>>
(* The scheduler of c finds p runnable and switches to it.  p leaves          *)
(* swtch() holding p->lock and releases it: in forkret(), in yield(), or at   *)
(* the end of sleep(), which also clears p->chan.                             *)
Schedule(c, p) ==
  /\ run[c] = None /\ plock[p] = Free
  /\ state[p] = "RUNNABLE"
  /\ state' = [state EXCEPT ![p] = "RUNNING"]
  /\ run' = [run EXCEPT ![c] = p]
  /\ chan' = [chan EXCEPT ![p] = None]
  /\ Goto(p, ret[p])
  /\ ret' = [ret EXCEPT ![p] = "none"]
  /\ UNCHANGED <<parent, killed, plock, waitlock, idx, np>>

(* sched(): save the context and go on in the scheduler of c, which          *)
(* releases p->lock.                                                          *)
Sched(c, p) ==
  /\ At(c, p, "sched")
  /\ run' = [run EXCEPT ![c] = None]
  /\ plock' = [plock EXCEPT ![p] = Free]
  /\ UNCHANGED <<state, parent, chan, killed, waitlock, pc, ret, idx, np>>

(* yield(): a timer interrupt, taken only while the CPU holds no lock. *)
Yield(c, p) ==
  /\ run[c] = p /\ pc[p] \in {"user", "syscall", "fork_link", "fork_ready", "exit", "wait"}
  /\ plock[p] = Free
  /\ plock' = [plock EXCEPT ![p] = c]
  /\ state' = [state EXCEPT ![p] = "RUNNABLE"]
  /\ ret' = [ret EXCEPT ![p] = pc[p]]
  /\ Goto(p, "sched")
  /\ UNCHANGED <<parent, chan, killed, waitlock, run, idx, np>>

-----------------------------------------------------------------------------
(* usertrap() for a system call: a killed process exits instead. *)
Syscall(c, p) ==
  /\ At(c, p, "user") /\ ~killed[p]
  /\ Goto(p, "syscall")
  /\ UNCHANGED <<state, parent, chan, killed, plock, waitlock, run, ret, idx, np>>

(* fork() has met no free slot, kill() no such pid, or the call is one that   *)
(* leaves the process table alone.                                            *)
SyscallDone(c, p) ==
  /\ At(c, p, "syscall")
  /\ Goto(p, "user")
  /\ UNCHANGED <<state, parent, chan, killed, plock, waitlock, run, ret, idx, np>>

-----------------------------------------------------------------------------
(* fork() *)

(* freeproc(q) *)
Freeproc(q) ==
  /\ state' = [state EXCEPT ![q] = "UNUSED"]
  /\ parent' = [parent EXCEPT ![q] = None]
  /\ chan' = [chan EXCEPT ![q] = None]
  /\ killed' = [killed EXCEPT ![q] = FALSE]

(* allocproc() returns a slot with its lock held. *)
Allocproc(c, p, q) ==
  /\ At(c, p, "syscall")
  /\ plock[q] = Free /\ state[q] = "UNUSED"
  /\ plock' = [plock EXCEPT ![q] = c]
  /\ state' = [state EXCEPT ![q] = "USED"]
  /\ np' = [np EXCEPT ![p] = q]
  /\ ret' = [ret EXCEPT ![q] = "user"]
  /\ pc' = [pc EXCEPT ![p] = "fork_copy", ![q] = "sched"]
  /\ UNCHANGED <<parent, chan, killed, waitlock, run, idx>>

(* uvmcopy() runs out of memory. *)
ForkFails(c, p) ==
  /\ At(c, p, "fork_copy")
  /\ Freeproc(np[p])
  /\ plock' = [plock EXCEPT ![np[p]] = Free]
  /\ np' = [np EXCEPT ![p] = None]
  /\ pc' = [pc EXCEPT ![p] = "user", ![np[p]] = "none"]
  /\ UNCHANGED <<waitlock, run, ret, idx>>

ForkCopied(c, p) ==
  /\ At(c, p, "fork_copy")
  /\ plock' = [plock EXCEPT ![np[p]] = Free]
  /\ Goto(p, "fork_link")
  /\ UNCHANGED <<state, parent, chan, killed, waitlock, run, ret, idx, np>>

ForkLink(c, p) ==
  /\ At(c, p, "fork_link") /\ waitlock = Free
  /\ parent' = [parent EXCEPT ![np[p]] = p]
  /\ Goto(p, "fork_ready")
  /\ UNCHANGED <<state, chan, killed, plock, waitlock, run, ret, idx, np>>

ForkReady(c, p) ==
  /\ At(c, p, "fork_ready") /\ plock[np[p]] = Free
  /\ state' = [state EXCEPT ![np[p]] = "RUNNABLE"]
  /\ np' = [np EXCEPT ![p] = None]
  /\ Goto(p, "user")
  /\ UNCHANGED <<parent, chan, killed, plock, waitlock, run, ret, idx>>

-----------------------------------------------------------------------------
(* exit(), from sys_exit() or from usertrap(): the files and cwd are closed   *)
(* before wait_lock is taken.                                                 *)

ExitCall(c, p) ==
  /\ At(c, p, "syscall") \/ (At(c, p, "user") /\ killed[p])
  /\ p # Init0
  /\ Goto(p, "exit")
  /\ UNCHANGED <<state, parent, chan, killed, plock, waitlock, run, ret, idx, np>>

(* acquire(&wait_lock); reparent(p) moves the children and, if there are any, *)
(* wakes init.                                                                *)
ReparentNobody(p) == parent
Reparent(p) == [q \in Proc |-> IF parent[q] = p THEN Init0 ELSE parent[q]]

ExitReparent(c, p) ==
  /\ At(c, p, "exit") /\ waitlock = Free
  /\ waitlock' = c
  /\ parent' = Reparent(p)
  /\ Goto(p, IF \E q \in Proc : parent[q] = p THEN "wake_init" ELSE "wake_parent")
  /\ idx' = [idx EXCEPT ![p] = 1]
  /\ UNCHANGED <<state, chan, killed, plock, run, ret, np>>

(* wakeup(ch) looks at q under q->lock. *)
WakesNobody(q, ch) == FALSE
Wakes(q, ch) == state[q] = "SLEEPING" /\ chan[q] = ch

(* One iteration of wakeup(initproc), then of wakeup(p->parent). *)
ExitWakeup(c, p) ==
  LET q == idx[p]
      ch == IF pc[p] = "wake_init" THEN Init0 ELSE parent[p]
  IN  /\ run[c] = p /\ pc[p] \in {"wake_init", "wake_parent"}
      /\ q <= NPROC
      /\ q # p => plock[q] = Free
      /\ state' = IF q # p /\ Wakes(q, ch) THEN [state EXCEPT ![q] = "RUNNABLE"] ELSE state
      /\ idx' = [idx EXCEPT ![p] = q + 1]
      /\ UNCHANGED <<parent, chan, killed, plock, waitlock, run, pc, ret, np>>

ExitWoken(c, p) ==
  /\ run[c] = p /\ pc[p] \in {"wake_init", "wake_parent"}
  /\ idx[p] > NPROC
  /\ Goto(p, IF pc[p] = "wake_init" THEN "wake_parent" ELSE "zombie")
  /\ idx' = [idx EXCEPT ![p] = IF pc[p] = "wake_init" THEN 1 ELSE 0]
  /\ UNCHANGED <<state, parent, chan, killed, plock, waitlock, run, ret, np>>

(* acquire(&p->lock); ZOMBIE; release(&wait_lock). *)
ExitZombie(c, p) ==
  /\ At(c, p, "zombie") /\ plock[p] = Free
  /\ plock' = [plock EXCEPT ![p] = c]
  /\ state' = [state EXCEPT ![p] = "ZOMBIE"]
  /\ waitlock' = Free
  /\ ret' = [ret EXCEPT ![p] = "dead"]
  /\ Goto(p, "sched")
  /\ UNCHANGED <<parent, chan, killed, run, idx, np>>

-----------------------------------------------------------------------------
(* wait() *)

WaitCall(c, p) ==
  /\ At(c, p, "syscall")
  /\ Goto(p, "wait")
  /\ UNCHANGED <<state, parent, chan, killed, plock, waitlock, run, ret, idx, np>>

(* acquire(&wait_lock), at the start or at the end of sleep(). *)
WaitLock(c, p) ==
  /\ At(c, p, "wait") /\ waitlock = Free
  /\ waitlock' = c
  /\ idx' = [idx EXCEPT ![p] = 1]
  /\ Goto(p, "scan")
  /\ UNCHANGED <<state, parent, chan, killed, plock, run, ret, np>>

(* np is not a child, or a child that has not exited: look at the next one. *)
WaitNext(c, p) ==
  LET q == idx[p]
  IN  /\ At(c, p, "scan") /\ q <= NPROC
      /\ parent[q] = p => plock[q] = Free /\ state[q] # "ZOMBIE"
      /\ idx' = [idx EXCEPT ![p] = q + 1]
      /\ UNCHANGED <<state, parent, chan, killed, plock, waitlock, run, pc, ret, np>>

WaitReapRunning(c, p) ==
  LET q == idx[p]
  IN  /\ At(c, p, "scan") /\ q <= NPROC
      /\ parent[q] = p /\ state[q] = "ZOMBIE"
      /\ Freeproc(q)
      /\ waitlock' = Free
      /\ pc' = [pc EXCEPT ![p] = "user", ![q] = "none"]
      /\ idx' = [idx EXCEPT ![p] = 0]
      /\ UNCHANGED <<plock, run, ret, np>>
(* A child that has exited and has left its stack is freed. *)
WaitReap(c, p) ==
  LET q == idx[p]
  IN  /\ At(c, p, "scan") /\ q <= NPROC
      /\ parent[q] = p /\ plock[q] = Free /\ state[q] = "ZOMBIE"
      /\ Freeproc(q)
      /\ waitlock' = Free
      /\ pc' = [pc EXCEPT ![p] = "user", ![q] = "none"]
      /\ idx' = [idx EXCEPT ![p] = 0]
      /\ UNCHANGED <<plock, run, ret, np>>

(* copyout() of the exit status fails; init passes a null address. *)
WaitCopyoutFails(c, p) ==
  LET q == idx[p]
  IN  /\ At(c, p, "scan") /\ q <= NPROC /\ p # Init0
      /\ parent[q] = p /\ plock[q] = Free /\ state[q] = "ZOMBIE"
      /\ waitlock' = Free
      /\ Goto(p, "user")
      /\ idx' = [idx EXCEPT ![p] = 0]
      /\ UNCHANGED <<state, parent, chan, killed, plock, run, ret, np>>

HasKids(p) == \E q \in Proc : parent[q] = p

WaitNoKids(c, p) ==
  /\ At(c, p, "scan") /\ idx[p] > NPROC
  /\ ~HasKids(p) \/ killed[p]
  /\ waitlock' = Free
  /\ Goto(p, "user")
  /\ idx' = [idx EXCEPT ![p] = 0]
  /\ UNCHANGED <<state, parent, chan, killed, plock, run, ret, np>>

WaitSleeps(c, p) ==
  /\ At(c, p, "scan") /\ idx[p] > NPROC
  /\ HasKids(p) /\ ~killed[p]
  /\ Goto(p, "sleep")
  /\ idx' = [idx EXCEPT ![p] = 0]
  /\ UNCHANGED <<state, parent, chan, killed, plock, waitlock, run, ret, np>>

(* sleep(p, &wait_lock) up to sched(): p->lock first, then wait_lock goes. *)
Sleep(c, p) ==
  /\ At(c, p, "sleep") /\ plock[p] = Free
  /\ plock' = [plock EXCEPT ![p] = c]
  /\ waitlock' = Free
  /\ chan' = [chan EXCEPT ![p] = p]
  /\ state' = [state EXCEPT ![p] = "SLEEPING"]
  /\ ret' = [ret EXCEPT ![p] = "wait"]
  /\ Goto(p, "sched")
  /\ UNCHANGED <<parent, killed, run, idx, np>>

-----------------------------------------------------------------------------
(* kill(pid), with the slot q the loop stops at.  A free slot has pid 0,      *)
(* so that kill(0) finds one.  Nobody kills init: exit() would panic.         *)
Kill(c, p, q) ==
  /\ At(c, p, "syscall")
  /\ q # Init0 /\ plock[q] = Free
  /\ killed' = [killed EXCEPT ![q] = TRUE]
  /\ state' = IF state[q] = "SLEEPING" THEN [state EXCEPT ![q] = "RUNNABLE"] ELSE state
  /\ Goto(p, "user")
  /\ UNCHANGED <<parent, chan, plock, waitlock, run, ret, idx, np>>

-----------------------------------------------------------------------------
Fork(c, p) ==
  \/ ForkFails(c, p) \/ ForkCopied(c, p) \/ ForkLink(c, p) \/ ForkReady(c, p)
Exit(c, p) ==
  \/ ExitReparent(c, p) \/ ExitWakeup(c, p) \/ ExitWoken(c, p) \/ ExitZombie(c, p)
Wait(c, p) ==
  \/ WaitLock(c, p) \/ WaitNext(c, p) \/ WaitReap(c, p) \/ WaitCopyoutFails(c, p)
  \/ WaitNoKids(c, p) \/ WaitSleeps(c, p) \/ Sleep(c, p)

Next ==
  \E c \in CPU, p \in Proc :
    \/ Schedule(c, p) \/ Sched(c, p) \/ Yield(c, p)
    \/ Fork(c, p) \/ Exit(c, p) \/ Wait(c, p)
    \/ Syscall(c, p) \/ SyscallDone(c, p) \/ ExitCall(c, p) \/ WaitCall(c, p)
    \/ \E q \in Proc : Allocproc(c, p, q) \/ Kill(c, p, q)

Spec == Init /\ [][Next]_vars

-----------------------------------------------------------------------------
(* Properties. *)

(* scheduler(), sched(): two CPUs never run on one process's kernel stack,    *)
(* although a process can be made runnable before it has left its CPU.        *)
OneCpu == \A c, d \in CPU : run[c] # None /\ run[c] = run[d] => c = d

(* "make sure the child isn't still in exit() or swtch()": a slot that is     *)
(* free or being filled is on no CPU.                                         *)
FreedNotRunning ==
  \A c \in CPU, p \in Proc : run[c] = p => state[p] \notin {"UNUSED", "USED"}

(* wait() and exit(): once wait_lock is free, no process sleeps in wait()     *)
(* while it has a child to reap.                                              *)
NoLostExit ==
  \A p, q \in Proc :
    waitlock = Free /\ state[p] = "SLEEPING" /\ chan[p] = p /\ parent[q] = p
      => state[q] # "ZOMBIE"

(* reparent(): a process that has started always has a parent that can still  *)
(* wait for it.                                                               *)
ParentAlive ==
  \A p \in Proc :
    waitlock = Free /\ state[p] \notin {"UNUSED", "USED"} /\ p # Init0 =>
      parent[p] # None /\ state[parent[p]] \notin {"UNUSED", "USED", "ZOMBIE"}
=============================================================================
