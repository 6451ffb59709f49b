------------------------------ MODULE ProcInv -------------------------------
(* The inductive invariant of Proc.  It adds to the checked invariants who    *)
(* holds which lock at which step, which process fills a slot in USED, and    *)
(* what wait() and exit() have scanned so far.                                *)
EXTENDS Proc

(* What a process does next once it is on a CPU. *)
Doing(p) == IF pc[p] = "sched" THEN ret[p] ELSE pc[p]

Forking == {"fork_copy", "fork_link", "fork_ready"}
Exiting == {"wake_init", "wake_parent", "zombie"}
Waiting == {"scan", "sleep"}
Preemptible == {"user", "syscall", "fork_link", "fork_ready", "exit", "wait"}
OnCpu == Preemptible \cup {"fork_copy"} \cup Exiting \cup Waiting

ProcTypeOK ==
  /\ state \in [Proc -> {"UNUSED", "USED", "RUNNABLE", "RUNNING", "SLEEPING", "ZOMBIE"}]
  /\ parent \in [Proc -> Proc \cup {None}] /\ chan \in [Proc -> Proc \cup {None}]
  /\ plock \in [Proc -> CPU \cup {Free}] /\ waitlock \in CPU \cup {Free}
  /\ run \in [CPU -> Proc \cup {None}]
  /\ pc \in [Proc -> OnCpu \cup {"none", "sched"}]
  /\ ret \in [Proc -> Preemptible \cup {"none", "dead"}]
  /\ idx \in [Proc -> 0..(NPROC + 1)] /\ np \in [Proc -> Proc \cup {None}]

(* A CPU runs a process that is RUNNING, or that holds its own lock on its    *)
(* way to the scheduler.                                                      *)
RunInv ==
  /\ OneCpu
  /\ \A c \in CPU, p \in Proc : run[c] = p =>
       \/ pc[p] \in OnCpu /\ state[p] = "RUNNING"
       \/ pc[p] = "sched" /\ plock[p] = c /\ state[p] \in {"RUNNABLE", "SLEEPING", "ZOMBIE"}
  /\ \A p \in Proc : pc[p] \in OnCpu => \E c \in CPU : run[c] = p

(* What the state of a process off its CPU says of where it goes on. *)
StateInv ==
  \A p \in Proc :
    /\ state[p] = "UNUSED" => pc[p] = "none"
    /\ state[p] = "RUNNING" => pc[p] \in OnCpu
    /\ state[p] = "USED" => pc[p] = "sched" /\ ret[p] = "user"
    /\ state[p] = "RUNNABLE" => pc[p] = "sched" /\ ret[p] \in Preemptible
    /\ state[p] = "SLEEPING" => pc[p] = "sched" /\ ret[p] = "wait"
    /\ state[p] = "ZOMBIE" => pc[p] = "sched" /\ ret[p] = "dead"

(* p->lock is held over a switch, or by fork() for the child it copies. *)
LockInv ==
  /\ \A p \in Proc : plock[p] # Free =>
       \/ run[plock[p]] = p /\ pc[p] = "sched"
       \/ \E q \in Proc : run[plock[p]] = q /\ pc[q] = "fork_copy" /\ np[q] = p
  /\ \A p \in Proc : pc[p] \in Exiting \cup Waiting => run[waitlock] = p /\ waitlock \in CPU
  /\ waitlock # Free => run[waitlock] \in Proc /\ pc[run[waitlock]] \in Exiting \cup Waiting

(* Each slot in USED has the one process that fills it. *)
ForkInv ==
  /\ \A p \in Proc : np[p] # None <=> Doing(p) \in Forking
  /\ \A p \in Proc : np[p] # None => state[np[p]] = "USED"
  /\ \A p, q \in Proc : np[p] # None /\ np[p] = np[q] => p = q
  /\ \A p \in Proc : pc[p] = "fork_copy" => \A c \in CPU : run[c] = p => plock[np[p]] = c
  /\ \A p \in Proc : Doing(p) = "fork_ready" => parent[np[p]] = p
  /\ \A p \in Proc : Doing(p) \in Forking \ {"fork_ready"} => parent[np[p]] = None

Alive(p) == state[p] \in {"RUNNABLE", "RUNNING", "SLEEPING"}

(* Children have a parent that is alive and not past reparent(). *)
ParentInv ==
  /\ Alive(Init0) /\ parent[Init0] = None /\ Doing(Init0) \notin {"exit"} \cup Exiting
  /\ \A p \in Proc : state[p] = "UNUSED" => parent[p] = None
  /\ \A p \in Proc : state[p] \notin {"UNUSED", "USED"} /\ p # Init0 => parent[p] \in Proc
  /\ \A p \in Proc : parent[p] \in Proc => Alive(parent[p]) /\ pc[parent[p]] \notin Exiting

Asleep(p) == state[p] = "SLEEPING" /\ chan[p] = p

(* Whoever sleeps in wait() has no child to reap, unless it is init and a     *)
(* process that has just left it its children is about to wake it.  wait()    *)
(* has looked at the children below idx, exit() has woken the ones below idx. *)
WaitInv ==
  /\ \A p, q \in Proc : Asleep(p) /\ parent[q] = p /\ state[q] = "ZOMBIE" =>
       p = Init0 /\ \E x \in Proc : pc[x] = "wake_init" /\ idx[x] = 1
  /\ \A p, q \in Proc : parent[q] = p /\ (pc[p] = "sleep" \/ (pc[p] = "scan" /\ q < idx[p])) =>
       state[q] # "ZOMBIE"
  /\ \A x \in Proc : pc[x] \in Exiting => parent[x] \in Proc
  /\ \A x \in Proc : pc[x] = "zombie" \/ (pc[x] = "wake_parent" /\ parent[x] < idx[x]) => ~Asleep(parent[x])
  /\ \A x \in Proc : pc[x] \in {"wake_init", "wake_parent", "scan"} => idx[x] >= 1

IInv == ProcTypeOK /\ RunInv /\ StateInv /\ LockInv /\ ForkInv /\ ParentInv /\ WaitInv
=============================================================================
