----------------------------- MODULE ProcProofs -----------------------------
(* The theorems about Proc, for any number of slots and CPUs. *)
EXTENDS ProcInv, TLAPS

-----------------------------------------------------------------------------
(* The steps of the scheduler, fork(), exit() and kill() keep the invariant.  *)

LEMMA ScheduleKeeps ==
  ASSUME IInv, NEW c \in CPU, NEW p \in Proc, Schedule(c, p)
  PROVE  IInv'
<1>. USE SlotAssumption DEF IInv
<1>a. /\ pc[p] = "sched" /\ ret[p] \in Preemptible /\ p # None
      /\ run[c] = None /\ state[p] = "RUNNABLE" /\ plock[p] = Free
  BY ZenonT(30) DEF Schedule, StateInv
<1>d. \A d \in CPU : run[d] # p
  BY ZenonT(30), <1>a DEF RunInv
<1>b. /\ pc' = [pc EXCEPT ![p] = ret[p]] /\ run' = [run EXCEPT ![c] = p] /\ state' = [state EXCEPT ![p] = "RUNNING"]
      /\ ret' = [ret EXCEPT ![p] = "none"] /\ chan' = [chan EXCEPT ![p] = None]
      /\ UNCHANGED <<parent, plock, waitlock, idx, np>>
  BY ZenonT(30) DEF Schedule, Goto
<1>c. \A x \in Proc : Doing(x)' = Doing(x)
  BY ZenonT(30), <1>a, <1>b DEF Doing, ProcTypeOK, Preemptible
<1>1. ProcTypeOK'
  BY ZenonT(30) DEF Schedule, At, Goto, ProcTypeOK, StateInv, RunInv, Preemptible, OnCpu, Exiting, Waiting
<1>2. RunInv'
  BY DEF Schedule, At, Goto, RunInv, StateInv, OneCpu, OnCpu, Preemptible, Exiting, Waiting,
         ProcTypeOK
<1>3. StateInv'
  BY ZenonT(30) DEF Schedule, At, Goto, StateInv, OnCpu, Preemptible, ProcTypeOK
<1>4. LockInv'
  BY <1>a, <1>b DEF LockInv, ProcTypeOK, Preemptible, Exiting, Waiting
<1>5. ForkInv'
  <2>1. \A x \in Proc : np[x] # None => state'[np[x]] = "USED"
    BY ZenonT(60), SMT, <1>a, <1>b DEF ForkInv, ProcTypeOK
  <2>2. \A x \in Proc : pc'[x] = "fork_copy" => pc[x] = "fork_copy" /\ \A d \in CPU : run'[d] = x => run[d] = x
    BY ZenonT(30), <1>a, <1>b DEF ProcTypeOK, Preemptible
  <2>. QED
    BY <1>b, <1>c, <2>1, <2>2 DEF ForkInv
<1>6. ParentInv'
  BY ZenonT(30), <1>a, <1>b, <1>c DEF ParentInv, Alive, ProcTypeOK, Preemptible, Exiting
<1>7. WaitInv'
  BY <1>a, <1>b DEF WaitInv, Asleep, ProcTypeOK, Preemptible, Exiting
<1>. QED
  BY ZenonT(30), <1>1, <1>2, <1>3, <1>4, <1>5, <1>6, <1>7

LEMMA SchedKeeps ==
  ASSUME IInv, NEW c \in CPU, NEW p \in Proc, Sched(c, p)
  PROVE  IInv'
<1>. USE SlotAssumption DEF IInv
<1>1. ProcTypeOK'
  BY ZenonT(30) DEF Sched, At, Goto, ProcTypeOK, Preemptible, OnCpu
<1>2. RunInv'
  BY DEF Sched, At, Goto, RunInv, OneCpu, OnCpu, Preemptible, Exiting, Waiting, ProcTypeOK
<1>3. StateInv'
  BY ZenonT(30) DEF Sched, At, Goto, StateInv, ProcTypeOK
<1>4. LockInv'
  BY SMTT(30) DEF Sched, At, Goto, LockInv, Exiting, Waiting, ProcTypeOK
<1>5. ForkInv'
  BY DEF Sched, At, Goto, ForkInv, StateInv, LockInv, RunInv, OneCpu, OnCpu, Doing, Forking,
         ProcTypeOK
<1>6. ParentInv'
  BY ZenonT(30) DEF Sched, At, Goto, ParentInv, Alive, Doing, ProcTypeOK
<1>7. WaitInv'
  BY DEF Sched, At, Goto, WaitInv, Asleep, ProcTypeOK
<1>. QED
  BY ZenonT(30), <1>1, <1>2, <1>3, <1>4, <1>5, <1>6, <1>7

LEMMA YieldKeeps ==
  ASSUME IInv, NEW c \in CPU, NEW p \in Proc, Yield(c, p)
  PROVE  IInv'
<1>. USE SlotAssumption DEF IInv
<1>1. ProcTypeOK'
  BY ZenonT(30) DEF Yield, At, Goto, ProcTypeOK, Preemptible, OnCpu
<1>2. RunInv'
  BY DEF Yield, At, Goto, RunInv, OneCpu, OnCpu, ProcTypeOK
<1>3. StateInv'
  BY ZenonT(30) DEF Yield, At, Goto, StateInv, OnCpu, Preemptible, ProcTypeOK
<1>4. LockInv'
  BY DEF Yield, At, Goto, LockInv, Exiting, Waiting, ProcTypeOK
<1>5. ForkInv'
  BY DEF Yield, At, Goto, ForkInv, StateInv, Doing, Forking, ProcTypeOK
<1>6. ParentInv'
  BY DEF Yield, At, Goto, ParentInv, StateInv, RunInv, OnCpu, Alive, Doing, Exiting, ProcTypeOK
<1>7. WaitInv'
  BY DEF Yield, At, Goto, WaitInv, Asleep, Exiting, ProcTypeOK
<1>. QED
  BY ZenonT(30), <1>1, <1>2, <1>3, <1>4, <1>5, <1>6, <1>7

(* A step that moves a process on and leaves the table alone, its place in    *)
(* wait() and exit() and wait_lock apart.                                     *)
LEMMA MoveKeeps ==
  ASSUME IInv, NEW p \in Proc, NEW l \in OnCpu \ Forking, pc[p] \in OnCpu \ Forking,
         l = "exit" => p # Init0, l \in Exiting => pc[p] \in Exiting,
         pc' = [pc EXCEPT ![p] = l], UNCHANGED <<state, parent, chan, plock, run, ret, np>>
  PROVE  /\ idx' \in [Proc -> 0..(NPROC + 1)] /\ waitlock' \in CPU \cup {Free} => ProcTypeOK'
         /\ RunInv' /\ StateInv' /\ ForkInv' /\ ParentInv'
<1>. USE DEF IInv
<1>1. \A x \in Proc : pc'[x] = IF x = p THEN l ELSE pc[x]
  BY ZenonT(30) DEF ProcTypeOK
<1>2. l \in OnCpu /\ l \notin Forking /\ pc[p] # "sched" /\ l # "sched" /\ "fork_copy" \in Forking /\ "fork_ready" \in Forking
  BY ZenonT(30) DEF OnCpu, Preemptible, Exiting, Waiting, Forking
<1>3. \A x \in Proc : Doing(x)' = IF x = p THEN l ELSE Doing(x)
  BY ZenonT(30), <1>1, <1>2 DEF Doing
<1>4. idx' \in [Proc -> 0..(NPROC + 1)] /\ waitlock' \in CPU \cup {Free} => ProcTypeOK'
  BY ZenonT(30) DEF ProcTypeOK
<1>5. RunInv'
  BY <1>1, <1>2 DEF RunInv, OneCpu
<1>6. StateInv'
  <2>1. state[p] = "RUNNING"
    BY <1>2 DEF RunInv
  <2>. QED
    BY ZenonT(30), <1>1, <1>2, <2>1 DEF StateInv
<1>7. ForkInv'
  <2>1. np[p] = None
    BY ZenonT(30), <1>2 DEF ForkInv, Doing
  <2>. QED
    BY <1>1, <1>2, <1>3, <2>1 DEF ForkInv
<1>8. ParentInv'
  BY <1>1, <1>2, <1>3 DEF ParentInv, Alive, Doing
<1>. QED
  BY ZenonT(30), <1>4, <1>5, <1>6, <1>7, <1>8

LEMMA CallKeeps ==
  ASSUME IInv, NEW c \in CPU, NEW p \in Proc,
         Syscall(c, p) \/ SyscallDone(c, p) \/ ExitCall(c, p) \/ WaitCall(c, p)
  PROVE  IInv'
<1>. USE SlotAssumption DEF IInv
<1>1. PICK l \in {"syscall", "user", "exit", "wait"} :
        /\ pc[p] \in {"user", "syscall"} /\ pc' = [pc EXCEPT ![p] = l] /\ (l = "exit" => p # Init0)
        /\ UNCHANGED <<state, parent, chan, plock, waitlock, run, ret, idx, np>>
  BY ZenonT(30) DEF Syscall, SyscallDone, ExitCall, WaitCall, At, Goto
<1>2. l \in OnCpu \ Forking /\ pc[p] \in OnCpu \ Forking /\ l \notin Exiting \cup Waiting /\ pc[p] \notin Exiting \cup Waiting
  BY ZenonT(30), <1>1 DEF OnCpu, Preemptible, Forking, Exiting, Waiting
<1>3. ProcTypeOK' /\ RunInv' /\ StateInv' /\ ForkInv' /\ ParentInv'
  BY ZenonT(30), <1>1, <1>2, MoveKeeps DEF ProcTypeOK
<1>4. \A x \in Proc : pc'[x] = IF x = p THEN l ELSE pc[x]
  BY ZenonT(30), <1>1 DEF ProcTypeOK
<1>5. LockInv'
  BY <1>1, <1>2, <1>4 DEF LockInv, ProcTypeOK
<1>6. WaitInv'
  BY <1>1, <1>2, <1>4 DEF WaitInv, Asleep, Exiting, Waiting
<1>. QED
  BY ZenonT(30), <1>3, <1>5, <1>6

LEMMA AllocprocKeeps ==
  ASSUME IInv, NEW c \in CPU, NEW p \in Proc, NEW q \in Proc, Allocproc(c, p, q)
  PROVE  IInv'
<1>. USE SlotAssumption DEF IInv
<1>a. pc[p] = "syscall" /\ pc[q] = "none" /\ p # q
  BY ZenonT(30) DEF Allocproc, At, StateInv
<1>1. ProcTypeOK'
  BY ZenonT(30) DEF Allocproc, At, Goto, ProcTypeOK, Preemptible, OnCpu
<1>2. RunInv'
  BY DEF Allocproc, At, Goto, RunInv, OneCpu, OnCpu, Preemptible, Exiting, Waiting, ProcTypeOK
<1>3. StateInv'
  BY SMTT(30) DEF Allocproc, At, Goto, StateInv, OnCpu, Preemptible, ProcTypeOK
<1>4. LockInv'
  BY DEF Allocproc, At, Goto, LockInv, RunInv, OneCpu, OnCpu, Exiting, Waiting, ProcTypeOK
<1>5. ForkInv'
  <2>1. np[p] = None /\ parent[q] = None /\ \A x \in Proc : np[x] # q
    BY <1>a DEF Allocproc, ForkInv, ParentInv, Doing, Forking
  <2>2. \A x \in Proc : x # p /\ x # q => Doing(x)' = Doing(x) /\ pc'[x] = pc[x]
    BY ZenonT(30) DEF Allocproc, Doing, ProcTypeOK
  <2>3. Doing(p)' = "fork_copy" /\ Doing(q)' = "user" /\ pc'[p] = "fork_copy" /\ pc'[q] = "sched"
    BY ZenonT(30), <1>a DEF Allocproc, Doing, ProcTypeOK
  <2>4. \A x \in Proc : x # q => state'[x] = state[x] /\ plock'[x] = plock[x]
    BY ZenonT(30) DEF Allocproc, ProcTypeOK
  <2>5. /\ np' = [np EXCEPT ![p] = q] /\ np[q] = None /\ state'[q] = "USED" /\ plock'[q] = c
        /\ UNCHANGED <<run, parent>>
    BY <1>a DEF Allocproc, ForkInv, Doing, Forking, ProcTypeOK
  <2>6. /\ \A d \in CPU : run[d] = p => d = c
        /\ \A x \in Proc : np[x] # None => np[x] \in Proc /\ np[x] # q
    BY <2>1 DEF Allocproc, At, RunInv, OneCpu, ProcTypeOK
  <2>7. \A x \in Proc : np'[x] # None <=> Doing(x)' \in Forking
    BY SMT, ZenonT(60), <2>1, <2>2, <2>3, <2>5 DEF ForkInv, Forking, ProcTypeOK
  <2>8. \A x \in Proc : np'[x] # None => state'[np'[x]] = "USED"
    BY SMTT(30), <2>1, <2>4, <2>5, <2>6 DEF ForkInv, ProcTypeOK
  <2>9. \A x, y \in Proc : np'[x] # None /\ np'[x] = np'[y] => x = y
    BY SMTT(30), <2>1, <2>5, <2>6 DEF ForkInv, ProcTypeOK
  <2>10. \A x \in Proc : pc'[x] = "fork_copy" => \A d \in CPU : run'[d] = x => plock'[np'[x]] = d
    BY SMTT(30), <2>1, <2>2, <2>3, <2>4, <2>5, <2>6 DEF ForkInv, Doing, Forking, ProcTypeOK
  <2>11. \A x \in Proc : Doing(x)' = "fork_ready" => parent'[np'[x]] = x
    BY SMTT(30), <2>1, <2>2, <2>3, <2>4, <2>5, <2>6 DEF ForkInv, Forking, ProcTypeOK
  <2>12. \A x \in Proc : Doing(x)' \in Forking \ {"fork_ready"} => parent'[np'[x]] = None
    BY SMT, ZenonT(60), <2>1, <2>2, <2>3, <2>4, <2>5, <2>6 DEF ForkInv, Forking, ProcTypeOK
  <2>. QED
    BY <2>7, <2>8, <2>9, <2>10, <2>11, <2>12, Zenon DEF ForkInv
<1>6. ParentInv'
  BY DEF Allocproc, At, Goto, ParentInv, Alive, Doing, Exiting, ProcTypeOK
<1>7. WaitInv'
  <2>1. \A x \in Proc : x # p /\ x # q => pc'[x] = pc[x]
    BY ZenonT(30) DEF Allocproc, ProcTypeOK
  <2>2. pc'[p] = "fork_copy" /\ pc'[q] = "sched"
    BY ZenonT(30), <1>a DEF Allocproc, ProcTypeOK
  <2>3. \A x \in Proc : state'[x] = IF x = q THEN "USED" ELSE state[x]
    BY ZenonT(30) DEF Allocproc, ProcTypeOK
  <2>4. UNCHANGED <<parent, chan, idx>>
    BY ZenonT(30) DEF Allocproc
  <2>. QED
    BY <1>a, <2>1, <2>2, <2>3, <2>4 DEF WaitInv, Asleep, Exiting
<1>. QED
  BY ZenonT(30), <1>1, <1>2, <1>3, <1>4, <1>5, <1>6, <1>7

(* p returns to user space and frees the slot q, which is on no CPU. *)
LEMMA FreeingKeepsRun ==
  ASSUME RunInv, NEW p \in Proc, NEW q \in Proc, p # q, pc[p] \in OnCpu, \A d \in CPU : run[d] # q, run' = run,
         \A x \in Proc : x # p /\ x # q => pc'[x] = pc[x] /\ state'[x] = state[x] /\ plock'[x] = plock[x],
         pc'[p] = "user", state'[p] = state[p], pc'[q] = "none"
  PROVE  RunInv'
<1>a. "sched" \notin OnCpu /\ "none" \notin OnCpu /\ "user" \in OnCpu
  BY ZenonT(30) DEF OnCpu, Preemptible, Exiting, Waiting
<1>1. OneCpu'
  BY DEF RunInv, OneCpu
<1>2. \A d \in CPU, x \in Proc : run[d] = x =>
        \/ pc'[x] \in OnCpu /\ state'[x] = "RUNNING"
        \/ pc'[x] = "sched" /\ plock'[x] = d /\ state'[x] \in {"RUNNABLE", "SLEEPING", "ZOMBIE"}
  <2>. SUFFICES ASSUME NEW d \in CPU, NEW x \in Proc, run[d] = x
                PROVE  \/ pc'[x] \in OnCpu /\ state'[x] = "RUNNING"
                       \/ pc'[x] = "sched" /\ plock'[x] = d /\ state'[x] \in {"RUNNABLE", "SLEEPING", "ZOMBIE"}
    BY Zenon
  <2>1. CASE x = p
    BY <1>a, <2>1 DEF RunInv
  <2>2. CASE x # p
    <3>1. pc'[x] = pc[x] /\ state'[x] = state[x] /\ plock'[x] = plock[x]
      BY Zenon, <2>2
    <3>. QED
      BY <3>1 DEF RunInv
  <2>. QED
    BY Zenon, <2>1, <2>2
<1>3. \A x \in Proc : pc'[x] \in OnCpu => \E d \in CPU : run[d] = x
  BY <1>a DEF RunInv
<1>. QED
  BY <1>1, <1>2, <1>3 DEF RunInv

LEMMA ForkFailsKeeps ==
  ASSUME IInv, NEW c \in CPU, NEW p \in Proc, ForkFails(c, p)
  PROVE  IInv'
<1>. USE SlotAssumption DEF IInv
<1>a. PICK q \in Proc : q = np[p] /\ state[q] = "USED" /\ q # p
  BY DEF ForkFails, At, ForkInv, Doing, Forking, ProcTypeOK, RunInv, OnCpu
<1>b. pc[p] = "fork_copy" /\ pc[q] = "sched"
  BY ZenonT(30), <1>a DEF ForkFails, At, StateInv
<1>c. /\ Freeproc(q) /\ pc' = [pc EXCEPT ![p] = "user", ![q] = "none"] /\ idx' = idx
  BY ZenonT(30), <1>a DEF ForkFails
<1>1. ProcTypeOK'
  BY ZenonT(30) DEF ForkFails, At, Goto, Freeproc, ProcTypeOK, Preemptible, OnCpu
<1>2. RunInv'
  <2>1. \A x \in Proc : x # p /\ x # q => pc'[x] = pc[x] /\ state'[x] = state[x] /\ plock'[x] = plock[x]
    BY ZenonT(60), SMT, <1>a, <1>c DEF ForkFails, Freeproc, ProcTypeOK
  <2>2. pc'[p] = "user" /\ state'[p] = state[p] /\ pc'[q] = "none"
    BY ZenonT(30), <1>a, <1>c DEF Freeproc, ProcTypeOK
  <2>3. pc[p] \in OnCpu /\ pc[q] \notin OnCpu /\ run' = run
    BY ZenonT(30), <1>b DEF ForkFails, OnCpu, Preemptible, Exiting, Waiting
  <2>4. \A d \in CPU : run[d] # q
    BY ZenonT(30), <1>a, <2>3 DEF RunInv
  <2>. QED
    BY ZenonT(30), <1>a, <2>1, <2>2, <2>3, <2>4, FreeingKeepsRun
<1>3. StateInv'
  BY DEF ForkFails, At, Goto, Freeproc, StateInv, OnCpu, Preemptible, ProcTypeOK
<1>4. LockInv'
  BY SMTT(30) DEF ForkFails, At, Goto, Freeproc, LockInv, ForkInv, RunInv, OneCpu, Doing, Forking, OnCpu,
         Exiting, Waiting, ProcTypeOK
<1>5. ForkInv'
  BY SMTT(30) DEF ForkFails, At, Goto, Freeproc, ForkInv, StateInv, Doing, Forking, ProcTypeOK
<1>6. ParentInv'
  BY DEF ForkFails, At, Goto, Freeproc, ParentInv, ForkInv, StateInv, RunInv, OnCpu, Alive, Doing,
         Forking, Exiting, ProcTypeOK
<1>7. WaitInv'
  <2>1. \A x \in Proc : x # p /\ x # q => pc'[x] = pc[x]
    BY ZenonT(30), <1>c DEF ProcTypeOK
  <2>2. pc'[p] = "user" /\ pc'[q] = "none" /\ parent'[q] = None /\ state'[q] = "UNUSED"
    BY ZenonT(30), <1>a, <1>c DEF ProcTypeOK, Freeproc
  <2>3. \A x \in Proc : x # q => state'[x] = state[x] /\ parent'[x] = parent[x] /\ chan'[x] = chan[x]
    BY ZenonT(30), <1>c DEF ProcTypeOK, Freeproc
  <2>4. \A x \in Proc : Asleep(x)' => Asleep(x)
    BY ZenonT(30), <2>2, <2>3 DEF Asleep
  <2>5. \A x, y \in Proc : Asleep(x)' /\ parent'[y] = x /\ state'[y] = "ZOMBIE" =>
          x = Init0 /\ \E z \in Proc : pc'[z] = "wake_init" /\ idx'[z] = 1
    <3>. SUFFICES ASSUME NEW x \in Proc, NEW y \in Proc, Asleep(x)', parent'[y] = x, state'[y] = "ZOMBIE"
                  PROVE  x = Init0 /\ \E z \in Proc : pc'[z] = "wake_init" /\ idx'[z] = 1
      BY ZenonT(30)
    <3>1. Asleep(x) /\ parent[y] = x /\ state[y] = "ZOMBIE"
      BY ZenonT(30), <2>2, <2>3, <2>4
    <3>2. PICK z \in Proc : pc[z] = "wake_init" /\ idx[z] = 1
      BY ZenonT(30), <3>1 DEF WaitInv
    <3>3. pc'[z] = "wake_init" /\ idx'[z] = 1
      BY <1>b, <1>c, <2>1, <3>2, ZenonT(30)
    <3>. QED
      BY ZenonT(30), <3>1, <3>3 DEF WaitInv
  <2>6. \A x, y \in Proc : parent'[y] = x /\ (pc'[x] = "sleep" \/ (pc'[x] = "scan" /\ y < idx'[x])) =>
          state'[y] # "ZOMBIE"
    BY <1>c, <2>1, <2>2, <2>3 DEF WaitInv
  <2>7. \A x \in Proc : pc'[x] \in Exiting => parent'[x] \in Proc
    BY ZenonT(30), <2>1, <2>2, <2>3 DEF WaitInv, Exiting
  <2>8. \A x \in Proc : pc'[x] = "zombie" \/ (pc'[x] = "wake_parent" /\ parent'[x] < idx'[x]) => ~Asleep(parent[x])'
    BY <1>c, <2>1, <2>2, <2>3, <2>4, <2>7 DEF WaitInv, Asleep, Exiting
  <2>9. \A x \in Proc : pc'[x] \in {"wake_init", "wake_parent", "scan"} => idx'[x] >= 1
    BY ZenonT(30), <1>c, <2>1, <2>2 DEF WaitInv
  <2>. QED
    BY <2>5, <2>6, <2>7, <2>8, <2>9, Zenon DEF WaitInv
<1>. QED
  BY ZenonT(30), <1>1, <1>2, <1>3, <1>4, <1>5, <1>6, <1>7

LEMMA ForkCopiedKeeps ==
  ASSUME IInv, NEW c \in CPU, NEW p \in Proc, ForkCopied(c, p)
  PROVE  IInv'
<1>. USE SlotAssumption DEF IInv
<1>1. ProcTypeOK'
  BY Zenon DEF ForkCopied, At, Goto, ProcTypeOK, Preemptible, OnCpu
<1>2. RunInv'
  BY DEF ForkCopied, At, Goto, RunInv, StateInv, ForkInv, Doing, Forking, OneCpu, OnCpu,
         Preemptible, Exiting, Waiting, ProcTypeOK
<1>3. StateInv'
  BY DEF ForkCopied, At, Goto, StateInv, OnCpu, Preemptible, ProcTypeOK
<1>4. LockInv'
  BY SMTT(30) DEF ForkCopied, At, Goto, LockInv, Exiting, Waiting, ProcTypeOK
<1>5. ForkInv'
  BY SMTT(30) DEF ForkCopied, At, Goto, ForkInv, Doing, Forking, ProcTypeOK
<1>6. ParentInv'
  BY SMTT(30) DEF ForkCopied, At, Goto, ParentInv, Alive, Doing, Exiting, ProcTypeOK
<1>7. WaitInv'
  BY DEF ForkCopied, At, Goto, WaitInv, Asleep, Exiting, ProcTypeOK
<1>. QED
  BY ZenonT(30), <1>1, <1>2, <1>3, <1>4, <1>5, <1>6, <1>7

LEMMA ForkLinkKeeps ==
  ASSUME IInv, NEW c \in CPU, NEW p \in Proc, ForkLink(c, p)
  PROVE  IInv'
<1>. USE SlotAssumption DEF IInv
<1>1. ProcTypeOK'
  BY ZenonT(30) DEF ForkLink, At, Goto, ProcTypeOK, Preemptible, OnCpu
<1>2. RunInv'
  BY SMTT(30) DEF ForkLink, At, Goto, RunInv, OneCpu, OnCpu, Preemptible, Exiting, Waiting, ProcTypeOK
<1>3. StateInv'
  BY DEF ForkLink, At, Goto, StateInv, OnCpu, Preemptible, ProcTypeOK
<1>4. LockInv'
  BY DEF ForkLink, At, Goto, LockInv, Exiting, Waiting, ProcTypeOK
<1>5. ForkInv'
  BY SMTT(30) DEF ForkLink, At, Goto, ForkInv, Doing, Forking, ProcTypeOK
<1>6. ParentInv'
  BY SMTT(30) DEF ForkLink, At, Goto, ParentInv, ForkInv, StateInv, RunInv, OnCpu, Alive, Doing, Forking,
         Exiting, ProcTypeOK
<1>7. WaitInv'
  BY DEF ForkLink, At, Goto, WaitInv, StateInv, Asleep, Exiting, ProcTypeOK
<1>. QED
  BY ZenonT(30), <1>1, <1>2, <1>3, <1>4, <1>5, <1>6, <1>7

LEMMA ForkReadyKeeps ==
  ASSUME IInv, NEW c \in CPU, NEW p \in Proc, ForkReady(c, p)
  PROVE  IInv'
<1>. USE SlotAssumption DEF IInv
<1>1. ProcTypeOK'
  BY ZenonT(30) DEF ForkReady, At, Goto, ProcTypeOK, Preemptible, OnCpu
<1>2. RunInv'
  BY SMTT(30) DEF ForkReady, At, Goto, RunInv, StateInv, ForkInv, Doing, Forking, OneCpu, OnCpu,
         Preemptible, Exiting, Waiting, ProcTypeOK
<1>3. StateInv'
  BY DEF ForkReady, At, Goto, StateInv, RunInv, ForkInv, Doing, Forking, OnCpu, Preemptible,
         Exiting, Waiting, ProcTypeOK
<1>4. LockInv'
  BY DEF ForkReady, At, Goto, LockInv, Exiting, Waiting, ProcTypeOK
<1>5. ForkInv'
  BY SMTT(30) DEF ForkReady, At, Goto, ForkInv, Doing, Forking, ProcTypeOK
<1>6. ParentInv'
  BY SMTT(30) DEF ForkReady, At, Goto, ParentInv, ForkInv, StateInv, RunInv, OnCpu, Alive, Doing, Forking,
         Exiting, ProcTypeOK
<1>7. WaitInv'
  BY DEF ForkReady, At, Goto, WaitInv, Asleep, Exiting, ProcTypeOK
<1>. QED
  BY ZenonT(30), <1>1, <1>2, <1>3, <1>4, <1>5, <1>6, <1>7

LEMMA ExitReparentKeeps ==
  ASSUME IInv, NEW c \in CPU, NEW p \in Proc, ExitReparent(c, p)
  PROVE  IInv'
<1>. USE SlotAssumption DEF IInv
<1>a. \A x \in Proc : pc[x] \notin Exiting \cup Waiting
  BY ZenonT(30) DEF ExitReparent, LockInv
<1>b. parent[p] \in Proc /\ p # Init0
  <2>1. pc[p] = "exit" /\ run[c] = p
    BY Zenon DEF ExitReparent, At
  <2>2. state[p] = "RUNNING" /\ Doing(p) = "exit"
    BY ZenonT(30), <2>1 DEF RunInv, Doing
  <2>. QED
    BY ZenonT(30), <2>2 DEF ParentInv
<1>c. /\ pc' = [pc EXCEPT ![p] = IF \E x \in Proc : parent[x] = p THEN "wake_init" ELSE "wake_parent"]
      /\ idx' = [idx EXCEPT ![p] = 1] /\ pc[p] = "exit" /\ UNCHANGED <<state, chan>>
      /\ \A x \in Proc : parent'[x] = IF parent[x] = p THEN Init0 ELSE parent[x]
  BY ZenonT(30) DEF ExitReparent, At, Goto, Reparent
<1>1. ProcTypeOK'
  <2>1. Init0 \in Proc /\ 1 \in 0..(NPROC + 1)
    BY NPROCAssumption DEF Proc, Init0
  <2>2. {"wake_init", "wake_parent"} \subseteq OnCpu
    BY Zenon DEF OnCpu, Exiting
  <2>3. parent' \in [Proc -> Proc \cup {None}]
    BY ZenonT(30), <2>1 DEF ExitReparent, Reparent, ProcTypeOK
  <2>4. pc' \in [Proc -> OnCpu \cup {"none", "sched"}] /\ idx' \in [Proc -> 0..(NPROC + 1)]
    BY ZenonT(30), <1>c, <2>1, <2>2 DEF ProcTypeOK
  <2>. QED
    BY ZenonT(30), <2>3, <2>4 DEF ExitReparent, ProcTypeOK
<1>2. RunInv'
  BY DEF ExitReparent, At, Goto, Reparent, RunInv, OneCpu, OnCpu, Preemptible, Exiting, Waiting,
         ProcTypeOK
<1>3. StateInv'
  BY DEF ExitReparent, At, Goto, Reparent, StateInv, RunInv, OnCpu, Preemptible, Exiting, Waiting,
         ProcTypeOK
<1>4. LockInv'
  BY DEF ExitReparent, At, Goto, Reparent, LockInv, Exiting, Waiting, ProcTypeOK
<1>5. ForkInv'
  BY DEF ExitReparent, At, Goto, Reparent, ForkInv, Doing, Forking, ProcTypeOK
<1>6. ParentInv'
  BY DEF ExitReparent, At, Goto, Reparent, ParentInv, Alive, Doing, Exiting, ProcTypeOK
<1>7. WaitInv'
  <2>1. \A x \in Proc : x # p => pc'[x] \notin Exiting \cup Waiting
    BY ZenonT(30), <1>a, <1>c DEF ProcTypeOK
  <2>2. pc'[p] \in {"wake_init", "wake_parent"} /\ idx'[p] = 1 /\ parent'[p] \in Proc /\ ~(parent'[p] < 1)
    BY SMTT(30), <1>b, <1>c, NPROCAssumption DEF ProcTypeOK, Proc, Init0
  <2>3. \A x, y \in Proc : Asleep(x)' /\ parent'[y] = x /\ state'[y] = "ZOMBIE" => x = Init0 /\ pc'[p] = "wake_init"
    BY <1>a, <1>c DEF WaitInv, Asleep, ProcTypeOK, Exiting
  <2>. QED
    BY <2>1, <2>2, <2>3 DEF WaitInv, Exiting, Waiting
<1>. QED
  BY ZenonT(30), <1>1, <1>2, <1>3, <1>4, <1>5, <1>6, <1>7

(* The slot that a scan of the process table has come to. *)
LEMMA ScanSlot ==
  ASSUME NEW i \in 0..(NPROC + 1), i >= 1, i <= NPROC
  PROVE  i \in Proc /\ i \in Nat /\ i + 1 \in 0..(NPROC + 1) /\ 0 \in 0..(NPROC + 1)
BY NPROCAssumption DEF Proc

LEMMA ExitWakeupKeeps ==
  ASSUME IInv, NEW c \in CPU, NEW p \in Proc, ExitWakeup(c, p)
  PROVE  IInv'
<1>. USE SlotAssumption DEF IInv
<1>a. idx[p] \in Proc /\ idx[p] \in Nat /\ idx[p] + 1 \in 0..(NPROC + 1) /\ 0 \in 0..(NPROC + 1)
  <2>1. idx[p] \in 0..(NPROC + 1) /\ idx[p] >= 1 /\ idx[p] <= NPROC
    BY ZenonT(30) DEF ExitWakeup, ProcTypeOK, WaitInv
  <2>. QED
    BY Zenon, <2>1, ScanSlot
<1>b. \A x \in Proc : x # p => pc[x] \notin Exiting \cup Waiting
  BY ZenonT(30) DEF ExitWakeup, At, LockInv, Exiting, Waiting
<1>c. /\ idx' = [idx EXCEPT ![p] = @ + 1] /\ UNCHANGED <<parent, chan, pc>>
      /\ \A x \in Proc : state'[x] = state[x] \/ (state[x] = "SLEEPING" /\ state'[x] = "RUNNABLE")
  BY ZenonT(30), <1>a DEF ExitWakeup, Wakes, ProcTypeOK
<1>d. ~Asleep(p)
  BY ZenonT(30) DEF ExitWakeup, Asleep, StateInv
<1>1. ProcTypeOK'
  BY ZenonT(30), <1>a DEF ExitWakeup, At, Goto, Wakes, ProcTypeOK, Exiting, Waiting, Preemptible, OnCpu
<1>2. RunInv'
  BY DEF ExitWakeup, At, Goto, Wakes, RunInv, OneCpu, OnCpu, ProcTypeOK
<1>3. StateInv'
  BY DEF ExitWakeup, At, Goto, Wakes, StateInv, ProcTypeOK
<1>4. LockInv'
  BY SMT, ZenonT(60) DEF ExitWakeup, At, Goto, Wakes, LockInv, ProcTypeOK
<1>5. ForkInv'
  BY DEF ExitWakeup, At, Goto, Wakes, ForkInv, Doing, ProcTypeOK
<1>6. ParentInv'
  BY DEF ExitWakeup, At, Goto, Wakes, ParentInv, Alive, Doing, ProcTypeOK
<1>7. WaitInv'
  <2>1. \A x \in Proc : Asleep(x)' => Asleep(x)
    BY ZenonT(30), <1>c DEF Asleep
  <2>2. \A x \in Proc : idx[p] = x /\ x = (IF pc[p] = "wake_init" THEN Init0 ELSE parent[p]) => ~Asleep(x)'
    BY <1>d, <2>1 DEF ExitWakeup, Wakes, Asleep, ProcTypeOK
  <2>4. \A x, y \in Proc : ~(Asleep(x)' /\ parent'[y] = x /\ state'[y] = "ZOMBIE")
    <3>. SUFFICES ASSUME NEW x \in Proc, NEW y \in Proc, Asleep(x)', parent'[y] = x, state'[y] = "ZOMBIE" PROVE FALSE
      BY ZenonT(30)
    <3>1. x = Init0 /\ pc[p] = "wake_init" /\ idx[p] = 1
      BY ZenonT(30), <1>b, <1>c, <2>1 DEF WaitInv, Exiting
    <3>. QED
      BY ZenonT(30), <3>1, <2>2 DEF Init0
  <2>5. pc[p] = "wake_parent" /\ parent[p] < idx[p] + 1 => ~Asleep(parent[p])'
    <3>. SUFFICES ASSUME pc[p] = "wake_parent", parent[p] < idx[p] + 1 PROVE ~Asleep(parent[p])'
      BY ZenonT(30)
    <3>1. PICK x \in Proc : x = parent[p]
      BY ZenonT(30) DEF WaitInv, Exiting
    <3>2. x = idx[p] \/ x < idx[p]
      BY <1>a, <3>1 DEF Proc
    <3>3. ~Asleep(x)'
      BY ZenonT(30), <2>1, <2>2, <3>1, <3>2 DEF WaitInv
    <3>. QED
      BY ZenonT(30), <1>c, <3>1, <3>3 DEF Asleep
  <2>6. idx'[p] = idx[p] + 1 /\ idx'[p] >= 1 /\ pc[p] \in {"wake_init", "wake_parent"}
    BY <1>a, <1>c DEF ProcTypeOK, ExitWakeup
  <2>. QED
    BY ZenonT(60), SMT, <1>b, <1>c, <2>4, <2>5, <2>6 DEF WaitInv, Exiting, Waiting, Asleep
<1>. QED
  BY ZenonT(30), <1>1, <1>2, <1>3, <1>4, <1>5, <1>6, <1>7

LEMMA ExitWokenKeeps ==
  ASSUME IInv, NEW c \in CPU, NEW p \in Proc, ExitWoken(c, p)
  PROVE  IInv'
<1>. USE SlotAssumption DEF IInv
<1>b. \A x \in Proc : x # p => pc[x] \notin Exiting \cup Waiting
  BY ZenonT(30) DEF ExitWoken, At, LockInv, Exiting, Waiting
<1>c. /\ pc[p] \in {"wake_init", "wake_parent"} /\ idx[p] > NPROC /\ UNCHANGED <<state, parent, chan>>
      /\ pc' = [pc EXCEPT ![p] = IF pc[p] = "wake_init" THEN "wake_parent" ELSE "zombie"]
      /\ idx' = [idx EXCEPT ![p] = IF pc[p] = "wake_init" THEN 1 ELSE 0]
  BY ZenonT(30) DEF ExitWoken, Goto
<1>1. ProcTypeOK' /\ RunInv' /\ StateInv' /\ ForkInv' /\ ParentInv'
  <2>. DEFINE l == IF pc[p] = "wake_init" THEN "wake_parent" ELSE "zombie"
  <2>1. l \in OnCpu \ Forking /\ pc[p] \in OnCpu \ Forking /\ l # "exit" /\ pc[p] \in Exiting
    BY ZenonT(30), <1>c DEF OnCpu, Forking, Exiting
  <2>2. idx' \in [Proc -> 0..(NPROC + 1)] /\ waitlock' \in CPU \cup {Free}
    BY <1>c, NPROCAssumption DEF ExitWoken, ProcTypeOK
  <2>3. pc' = [pc EXCEPT ![p] = l] /\ UNCHANGED <<state, parent, chan, plock, run, ret, np>>
    BY ZenonT(30), <1>c DEF ExitWoken
  <2>. QED
    BY ZenonT(30), <2>1, <2>2, <2>3, MoveKeeps
<1>2. LockInv'
  BY DEF ExitWoken, Goto, LockInv, Exiting, Waiting, ProcTypeOK
<1>3. WaitInv'
  <2>1. \A x, y \in Proc : ~(Asleep(x) /\ parent[y] = x /\ state[y] = "ZOMBIE")
    <3>1. idx[p] # 1
      BY <1>c, NPROCAssumption DEF ProcTypeOK
    <3>. QED
      BY ZenonT(30), <1>b, <3>1 DEF WaitInv, Exiting
  <2>2. parent[p] \in Proc /\ ~(parent[p] < 1) /\ parent[p] < idx[p]
    BY <1>c, NPROCAssumption DEF WaitInv, Exiting, ProcTypeOK, Proc
  <2>3. pc[p] = "wake_parent" => ~Asleep(parent[p])
    BY ZenonT(30), <2>2 DEF WaitInv
  <2>. QED
    BY <1>b, <1>c, <2>1, <2>2, <2>3 DEF WaitInv, Asleep, Exiting, Waiting, ProcTypeOK
<1>. QED
  BY ZenonT(30), <1>1, <1>2, <1>3

LEMMA OneRun ==
  ASSUME RunInv, NEW c \in CPU, NEW d \in CPU, NEW p \in Proc, run[c] = p, run[d] = p
  PROVE  c = d
<1>1. p # None
  BY Zenon, SlotAssumption
<1>2. OneCpu
  BY Zenon DEF RunInv
<1>. QED
  BY <1>1, <1>2 DEF OneCpu

(* sched() from exit() and from sleep() in wait(): p takes its own lock,      *)
(* gives up wait_lock and leaves the CPU as s.                                *)
LEMMA LeaveKeeps ==
  ASSUME IInv, NEW c \in CPU, NEW p \in Proc, NEW s \in {"SLEEPING", "ZOMBIE"}, NEW r \in {"wait", "dead"},
         run[c] = p, pc[p] \in {"sleep", "zombie"}, plock[p] = Free,
         s = "ZOMBIE" <=> pc[p] = "zombie", s = "ZOMBIE" <=> r = "dead",
         plock' = [plock EXCEPT ![p] = c], state' = [state EXCEPT ![p] = s], waitlock' = Free,
         ret' = [ret EXCEPT ![p] = r], pc' = [pc EXCEPT ![p] = "sched"],
         parent' = parent, run' = run, np' = np
  PROVE  RunInv' /\ StateInv' /\ LockInv' /\ ForkInv' /\ ParentInv'
<1>. USE SlotAssumption DEF IInv
<1>a. \A x \in Proc : /\ x # p => pc'[x] = pc[x] /\ state'[x] = state[x] /\ ret'[x] = ret[x] /\ plock'[x] = plock[x]
                      /\ Doing(x)' = IF x = p THEN r ELSE Doing(x)
  BY ZenonT(30) DEF ProcTypeOK, Doing
<1>b. pc'[p] = "sched" /\ state'[p] = s /\ ret'[p] = r /\ plock'[p] = c
  BY ZenonT(30) DEF ProcTypeOK
<1>c. \A x \in Proc : x # p => pc[x] \notin Exiting \cup Waiting
  BY ZenonT(30) DEF LockInv, Exiting, Waiting
<1>d. pc[p] # "sched" /\ Doing(p) = pc[p] /\ Doing(p) \notin Forking /\ r \notin Forking /\ "sched" \notin OnCpu
  BY ZenonT(30) DEF Doing, Forking, OnCpu, Preemptible, Exiting, Waiting
<1>e. state[p] = "RUNNING"
  BY ZenonT(30), <1>d DEF RunInv
<1>2. RunInv'
  <2>1. OneCpu'
    BY DEF RunInv, OneCpu
  <2>2. \A d \in CPU : run'[d] = p => d = c
    BY ZenonT(30), OneRun
  <2>3. \A d \in CPU, x \in Proc : run'[d] = x =>
          \/ pc'[x] \in OnCpu /\ state'[x] = "RUNNING"
          \/ pc'[x] = "sched" /\ plock'[x] = d /\ state'[x] \in {"RUNNABLE", "SLEEPING", "ZOMBIE"}
    <3>. SUFFICES ASSUME NEW d \in CPU, NEW x \in Proc, run'[d] = x
                  PROVE  \/ pc'[x] \in OnCpu /\ state'[x] = "RUNNING"
                         \/ pc'[x] = "sched" /\ plock'[x] = d /\ state'[x] \in {"RUNNABLE", "SLEEPING", "ZOMBIE"}
      BY Zenon
    <3>1. CASE x = p
      BY ZenonT(30), <1>b, <2>2, <3>1
    <3>2. CASE x # p
      BY <1>a, <3>2 DEF RunInv
    <3>. QED
      BY Zenon, <3>1, <3>2
  <2>4. \A x \in Proc : pc'[x] \in OnCpu => \E d \in CPU : run'[d] = x
    BY <1>a, <1>b, <1>d DEF RunInv
  <2>. QED
    BY ZenonT(30), <2>1, <2>3, <2>4 DEF RunInv
<1>3. StateInv'
  BY <1>a, <1>b DEF StateInv
<1>4. LockInv'
  <2>1. \A x \in Proc : plock'[x] # Free =>
          \/ run'[plock'[x]] = x /\ pc'[x] = "sched"
          \/ \E q \in Proc : run'[plock'[x]] = q /\ pc'[q] = "fork_copy" /\ np'[q] = x
    <3>1. \A x \in Proc : pc[x] = "sched" \/ pc[x] = "fork_copy" => pc'[x] = pc[x]
      BY ZenonT(30), <1>a
    <3>2. \A x \in Proc : x = p \/ plock'[x] = plock[x]
      BY Zenon, <1>a
    <3>3. run'[plock'[p]] = p /\ pc'[p] = "sched"
      BY ZenonT(30), <1>b
    <3>4. \A x \in Proc : plock[x] # Free => \/ run[plock[x]] = x /\ pc'[x] = "sched"
                                            \/ \E q \in Proc : run[plock[x]] = q /\ pc'[q] = "fork_copy" /\ np[q] = x
      BY <3>1 DEF LockInv
    <3>. QED
      BY <3>2, <3>3, <3>4
  <2>2. \A x \in Proc : pc'[x] \notin Exiting \cup Waiting
    BY ZenonT(30), <1>a, <1>b, <1>c DEF Exiting, Waiting
  <2>. QED
    BY ZenonT(30), <2>1, <2>2 DEF LockInv
<1>5. ForkInv'
  <2>1. np[p] = None
    BY ZenonT(30), <1>d DEF ForkInv
  <2>2. \A x \in Proc : np[x] # None => np[x] \in Proc /\ np[x] # p /\ x # p
    BY ZenonT(30), <1>e, <2>1 DEF ForkInv, ProcTypeOK
  <2>3. \A x \in Proc : np'[x] # None <=> Doing(x)' \in Forking
    BY <1>a, <1>d, <2>1 DEF ForkInv
  <2>4. \A x \in Proc : np'[x] # None => state'[np'[x]] = "USED"
    BY <1>a, <2>2 DEF ForkInv
  <2>5. \A x, y \in Proc : np'[x] # None /\ np'[x] = np'[y] => x = y
    BY ZenonT(30) DEF ForkInv
  <2>6. \A x \in Proc : pc'[x] = "fork_copy" => np[x] # None /\ pc[x] = "fork_copy"
    BY ZenonT(30), <1>a, <1>b DEF ForkInv, Doing, Forking
  <2>7. \A x \in Proc : pc'[x] = "fork_copy" => \A d \in CPU : run'[d] = x => plock'[np'[x]] = d
    BY <1>a, <2>2, <2>6 DEF ForkInv
  <2>8. \A x \in Proc : Doing(x)' \in Forking => Doing(x)' = Doing(x)
    BY ZenonT(30), <1>a, <1>d
  <2>9. "fork_ready" \in Forking
    BY Zenon DEF Forking
  <2>10. \A x \in Proc : Doing(x)' = "fork_ready" => parent'[np'[x]] = x
    BY <2>8, <2>9 DEF ForkInv
  <2>11. \A x \in Proc : Doing(x)' \in Forking \ {"fork_ready"} => parent'[np'[x]] = None
    BY <2>8 DEF ForkInv
  <2>. QED
    BY ZenonT(30), <2>3, <2>4, <2>5, <2>7, <2>10, <2>11 DEF ForkInv
<1>6. ParentInv'
  <2>1. s = "ZOMBIE" => p # Init0 /\ \A x \in Proc : parent[x] # p
    BY ZenonT(30), <1>d DEF ParentInv, Exiting
  <2>2. \A x \in Proc : Alive(x) /\ (x = p => s # "ZOMBIE") => Alive(x)'
    BY ZenonT(30), <1>a, <1>b DEF Alive
  <2>3. Alive(Init0)' /\ parent'[Init0] = None /\ Doing(Init0)' \notin {"exit"} \cup Exiting
    BY ZenonT(30), <1>a, <2>1, <2>2 DEF ParentInv, Exiting
  <2>4. \A x \in Proc : state'[x] = "UNUSED" => parent'[x] = None
    <3>1. \A x \in Proc : state'[x] = "UNUSED" => state[x] = "UNUSED"
      BY ZenonT(30), <1>a, <1>b
    <3>. QED
      BY ZenonT(30), <3>1 DEF ParentInv
  <2>5. \A x \in Proc : state'[x] \notin {"UNUSED", "USED"} /\ x # Init0 => parent'[x] \in Proc
    BY ZenonT(30), <1>a, <1>e DEF ParentInv
  <2>6. \A x \in Proc : parent'[x] \in Proc => Alive(parent[x])' /\ pc'[parent'[x]] \notin Exiting
    <3>1. \A x \in Proc : pc[x] \notin Exiting => pc'[x] \notin Exiting
      BY ZenonT(30), <1>a, <1>b DEF Exiting
    <3>2. \A x \in Proc : parent'[x] \in Proc => Alive(parent[x]) /\ pc[parent[x]] \notin Exiting
      BY ZenonT(30) DEF ParentInv
    <3>3. \A y \in Proc : Alive(y) /\ (y = p => s # "ZOMBIE") => state'[y] \in {"RUNNABLE", "RUNNING", "SLEEPING"}
      BY ZenonT(30), <2>2 DEF Alive
    <3>4. \A x \in Proc : parent'[x] \in Proc => state'[parent'[x]] \in {"RUNNABLE", "RUNNING", "SLEEPING"}
      BY ZenonT(30), <2>1, <3>2, <3>3
    <3>. QED
      BY ZenonT(30), <3>1, <3>2, <3>4 DEF Alive
  <2>. QED
    BY ZenonT(30), <2>3, <2>4, <2>5, <2>6 DEF ParentInv
<1>. QED
  BY ZenonT(30), <1>2, <1>3, <1>4, <1>5, <1>6

LEMMA ExitZombieKeeps ==
  ASSUME IInv, NEW c \in CPU, NEW p \in Proc, ExitZombie(c, p)
  PROVE  IInv'
<1>. USE SlotAssumption DEF IInv
<1>1. ProcTypeOK'
  BY ZenonT(30) DEF ExitZombie, At, Goto, ProcTypeOK, Preemptible, OnCpu
<1>2. RunInv' /\ StateInv' /\ LockInv' /\ ForkInv' /\ ParentInv'
  BY ZenonT(30), LeaveKeeps DEF ExitZombie, At, Goto
<1>7. WaitInv'
  BY DEF ExitZombie, At, Goto, WaitInv, LockInv, Asleep, Exiting, Waiting, ProcTypeOK
<1>. QED
  BY ZenonT(30), <1>1, <1>2, <1>7

LEMMA KillKeeps ==
  ASSUME IInv, NEW c \in CPU, NEW p \in Proc, NEW q \in Proc, Kill(c, p, q)
  PROVE  IInv'
<1>. USE SlotAssumption DEF IInv
<1>1. ProcTypeOK'
  BY ZenonT(30) DEF Kill, At, Goto, ProcTypeOK, Preemptible, OnCpu
<1>2. RunInv'
  BY DEF Kill, At, Goto, RunInv, OneCpu, OnCpu, Preemptible, Exiting, Waiting, ProcTypeOK
<1>3. StateInv'
  BY SMT, ZenonT(60) DEF Kill, At, Goto, StateInv, OnCpu, Preemptible, ProcTypeOK
<1>4. LockInv'
  BY SMTT(30) DEF Kill, At, Goto, LockInv, Exiting, Waiting, ProcTypeOK
<1>5. ForkInv'
  BY SMTT(30) DEF Kill, At, Goto, ForkInv, Doing, Forking, ProcTypeOK
<1>6. ParentInv'
  BY SMT, ZenonT(60) DEF Kill, At, Goto, ParentInv, Alive, Doing, Exiting, ProcTypeOK
<1>7. WaitInv'
  BY DEF Kill, At, Goto, WaitInv, Asleep, Exiting, ProcTypeOK
<1>. QED
  BY ZenonT(30), <1>1, <1>2, <1>3, <1>4, <1>5, <1>6, <1>7

-----------------------------------------------------------------------------
(* The steps of wait() and of its sleep() keep the invariant. *)

(* A step that moves neither a lock nor whoever is in sched() or in the copy  *)
(* of fork() leaves each lock with its holder.                                *)
LEMMA HoldersKept ==
  ASSUME LockInv, plock' = plock, run' = run, np' = np,
         \A x \in Proc : pc[x] = "sched" \/ pc[x] = "fork_copy" => pc'[x] = pc[x]
  PROVE  \A x \in Proc : plock'[x] # Free => \/ run'[plock'[x]] = x /\ pc'[x] = "sched"
                                             \/ \E q \in Proc : run'[plock'[x]] = q /\ pc'[q] = "fork_copy" /\ np'[q] = x
<1>. SUFFICES ASSUME NEW x \in Proc, plock[x] # Free
              PROVE  \/ run[plock[x]] = x /\ pc'[x] = "sched"
                     \/ \E q \in Proc : run[plock[x]] = q /\ pc'[q] = "fork_copy" /\ np[q] = x
  BY SMT, ZenonT(60)
<1>1. CASE run[plock[x]] = x /\ pc[x] = "sched"
  BY SMT, ZenonT(60), <1>1
<1>2. CASE \E q \in Proc : run[plock[x]] = q /\ pc[q] = "fork_copy" /\ np[q] = x
  BY SMT, ZenonT(60), <1>2
<1>. QED
  BY SMT, ZenonT(60), <1>1, <1>2 DEF LockInv

LEMMA WaitLockKeeps ==
  ASSUME IInv, NEW c \in CPU, NEW p \in Proc, WaitLock(c, p)
  PROVE  IInv'
<1>. USE SlotAssumption DEF IInv
<1>a. \A x \in Proc : pc[x] \notin Exiting \cup Waiting
  BY ZenonT(30) DEF WaitLock, LockInv
<1>b. /\ pc[p] = "wait" /\ run[c] = p /\ pc' = [pc EXCEPT ![p] = "scan"] /\ waitlock' = c
      /\ idx' = [idx EXCEPT ![p] = 1] /\ UNCHANGED <<state, parent, chan, plock, run, ret, np>>
  BY ZenonT(30) DEF WaitLock, At, Goto
<1>1. ProcTypeOK' /\ RunInv' /\ StateInv' /\ ForkInv' /\ ParentInv'
  <2>1. pc[p] \in OnCpu \ Forking /\ "scan" \in OnCpu \ Forking /\ "scan" \notin Exiting
    BY ZenonT(30), <1>b DEF OnCpu, Preemptible, Waiting, Forking, Exiting
  <2>2. idx' \in [Proc -> 0..(NPROC + 1)] /\ waitlock' \in CPU \cup {Free}
    BY <1>b, NPROCAssumption DEF ProcTypeOK
  <2>. QED
    BY ZenonT(30), <1>b, <2>1, <2>2, MoveKeeps
<1>2. LockInv'
  <2>1. pc'[p] = "scan" /\ \A x \in Proc : x # p => pc'[x] = pc[x]
    BY ZenonT(30), <1>b DEF ProcTypeOK
  <2>2. \A x \in Proc : pc[x] = "sched" \/ pc[x] = "fork_copy" => pc'[x] = pc[x]
    BY ZenonT(30), <1>b, <2>1
  <2>3. \A x \in Proc : plock'[x] # Free => \/ run'[plock'[x]] = x /\ pc'[x] = "sched"
                                            \/ \E q \in Proc : run'[plock'[x]] = q /\ pc'[q] = "fork_copy" /\ np'[q] = x
    BY ZenonT(30), <1>b, <2>2, HoldersKept
  <2>4. \A x \in Proc : pc'[x] \in Exiting \cup Waiting => x = p
    BY ZenonT(30), <1>a, <2>1
  <2>5. pc'[p] \in Waiting /\ waitlock' = c /\ run'[waitlock'] = p
    BY ZenonT(30), <1>b, <2>1 DEF Waiting
  <2>. QED
    BY ZenonT(30), <2>3, <2>4, <2>5 DEF LockInv
<1>3. WaitInv'
  <2>1. \A q \in Proc : ~(q < 1)
    BY NPROCAssumption DEF Proc
  <2>. QED
    BY <1>a, <1>b, <2>1 DEF ProcTypeOK, WaitInv, Asleep, Exiting, Waiting
<1>. QED
  BY ZenonT(30), <1>1, <1>2, <1>3

LEMMA WaitNextKeeps ==
  ASSUME IInv, NEW c \in CPU, NEW p \in Proc, WaitNext(c, p)
  PROVE  IInv'
<1>. USE SlotAssumption DEF IInv
<1>a. idx[p] \in Proc /\ idx[p] \in Nat /\ idx[p] + 1 \in 0..(NPROC + 1) /\ 0 \in 0..(NPROC + 1)
  <2>1. idx[p] \in 0..(NPROC + 1) /\ idx[p] >= 1 /\ idx[p] <= NPROC
    BY ZenonT(30) DEF WaitNext, At, ProcTypeOK, WaitInv
  <2>. QED
    BY Zenon, <2>1, ScanSlot
<1>b. \A x \in Proc : x # p => pc[x] \notin Exiting \cup Waiting
  BY ZenonT(30) DEF WaitNext, At, LockInv, Exiting, Waiting
<1>1. ProcTypeOK'
  BY ZenonT(30), <1>a DEF WaitNext, At, Goto, ProcTypeOK, Exiting, Waiting, Preemptible, OnCpu
<1>2. RunInv'
  BY DEF WaitNext, At, Goto, RunInv, OneCpu, OnCpu, ProcTypeOK
<1>3. StateInv'
  BY ZenonT(30) DEF WaitNext, At, Goto, StateInv, ProcTypeOK
<1>4. LockInv'
  BY SMT, ZenonT(60) DEF WaitNext, At, Goto, LockInv, ProcTypeOK
<1>5. ForkInv'
  BY DEF WaitNext, At, Goto, ForkInv, Doing, ProcTypeOK
<1>6. ParentInv'
  BY ZenonT(30) DEF WaitNext, At, Goto, ParentInv, Alive, Doing, ProcTypeOK
<1>7. WaitInv'
  <2>1. \A q \in Proc : q < idx[p] + 1 => q = idx[p] \/ q < idx[p]
    BY <1>a DEF Proc
  <2>2. idx[p] + 1 >= 1
    BY <1>a
  <2>3. pc[p] = "scan" /\ (parent[idx[p]] = p => state[idx[p]] # "ZOMBIE")
    BY ZenonT(30) DEF WaitNext, At
  <2>4. pc' = pc /\ parent' = parent /\ state' = state /\ \A x \in Proc : Asleep(x)' <=> Asleep(x)
    BY ZenonT(30) DEF WaitNext, Asleep
  <2>5. idx'[p] = idx[p] + 1 /\ \A x \in Proc : x # p => idx'[x] = idx[x]
    BY ZenonT(30) DEF WaitNext, ProcTypeOK
  <2>. QED
    BY SMT, ZenonT(60), <1>b, <2>1, <2>2, <2>3, <2>4, <2>5 DEF WaitInv, Exiting, Waiting
<1>. QED
  BY ZenonT(30), <1>1, <1>2, <1>3, <1>4, <1>5, <1>6, <1>7

LEMMA WaitReapKeeps ==
  ASSUME IInv, NEW c \in CPU, NEW p \in Proc, WaitReap(c, p)
  PROVE  IInv'
<1>. USE SlotAssumption DEF IInv
<1>a. idx[p] \in Proc /\ idx[p] \in Nat /\ idx[p] + 1 \in 0..(NPROC + 1) /\ 0 \in 0..(NPROC + 1)
  <2>1. idx[p] \in 0..(NPROC + 1) /\ idx[p] >= 1 /\ idx[p] <= NPROC
    BY ZenonT(30) DEF WaitReap, At, ProcTypeOK, WaitInv
  <2>. QED
    BY Zenon, <2>1, ScanSlot
<1>c. PICK q \in Proc : q = idx[p]
  BY ZenonT(30), <1>a
<1>d. /\ pc[p] = "scan" /\ run[c] = p /\ parent[q] = p /\ plock[q] = Free /\ state[q] = "ZOMBIE"
      /\ p # q /\ Freeproc(q) /\ waitlock' = Free /\ idx' = [idx EXCEPT ![p] = 0]
      /\ pc' = [pc EXCEPT ![p] = "user", ![q] = "none"] /\ UNCHANGED <<plock, run, ret, np>>
  BY ZenonT(30), <1>c DEF WaitReap, At, StateInv
<1>e. pc[q] = "sched" /\ ret[q] = "dead" /\ \A x \in CPU : run[x] # q
  <2>1. pc[q] = "sched" /\ ret[q] = "dead" /\ "sched" \notin OnCpu
    BY ZenonT(30), <1>d DEF StateInv, OnCpu, Preemptible, Exiting, Waiting
  <2>2. \A x \in CPU : run[x] = q => plock[q] = x
    BY SMT, ZenonT(60), <2>1 DEF RunInv
  <2>. QED
    BY ZenonT(30), <1>d, <2>1, <2>2
<1>b. \A x \in Proc : x # p => pc[x] \notin Exiting \cup Waiting
  BY DEF WaitReap, At, LockInv, Exiting, Waiting
<1>1. ProcTypeOK'
  BY <1>a, <1>d, Zenon DEF Freeproc, ProcTypeOK, Preemptible, OnCpu
<1>2. RunInv'
  <2>1. \A x \in Proc : x # p /\ x # q => pc'[x] = pc[x] /\ state'[x] = state[x] /\ plock'[x] = plock[x]
    BY ZenonT(30), <1>d DEF Freeproc, ProcTypeOK
  <2>2. pc'[p] = "user" /\ state'[p] = state[p] /\ pc'[q] = "none"
    BY ZenonT(30), <1>d DEF Freeproc, ProcTypeOK
  <2>3. pc[p] \in OnCpu /\ run' = run
    BY ZenonT(30), <1>d DEF OnCpu, Waiting
  <2>. QED
    BY ZenonT(30), <1>d, <1>e, <2>1, <2>2, <2>3, FreeingKeepsRun
<1>3. StateInv'
  <2>1. \A x \in Proc : x # p /\ x # q => pc'[x] = pc[x] /\ state'[x] = state[x] /\ ret'[x] = ret[x]
    BY ZenonT(30), <1>d DEF Freeproc, ProcTypeOK
  <2>2. state[p] = "RUNNING" /\ "user" \in OnCpu
    BY ZenonT(30), <1>d DEF RunInv, OnCpu, Preemptible
  <2>3. state'[p] = "RUNNING" /\ pc'[p] = "user" /\ state'[q] = "UNUSED" /\ pc'[q] = "none"
    BY ZenonT(30), <1>d, <2>2 DEF Freeproc, ProcTypeOK
  <2>. QED
    BY ZenonT(60), SMT, <2>1, <2>2, <2>3 DEF StateInv
<1>4. LockInv'
  BY <1>b, <1>d, <1>e DEF LockInv, Exiting, Waiting, ProcTypeOK
<1>5. ForkInv'
  <2>1. np[p] = None /\ np[q] = None /\ \A x \in Proc : np[x] # q
    BY <1>d, <1>e DEF ForkInv, Doing, Forking
  <2>2. \A x \in Proc : x # p /\ x # q => Doing(x)' = Doing(x) /\ pc'[x] = pc[x]
    BY ZenonT(30), <1>d DEF Doing, ProcTypeOK
  <2>3. Doing(p)' = "user" /\ Doing(q)' = "none" /\ pc'[p] = "user" /\ pc'[q] = "none"
    BY ZenonT(30), <1>d DEF Doing, ProcTypeOK
  <2>4. \A x \in Proc : x # q => state'[x] = state[x] /\ parent'[x] = parent[x]
    BY ZenonT(30), <1>d DEF Freeproc, ProcTypeOK
  <2>5. np' = np /\ plock' = plock /\ run' = run
    BY ZenonT(30), <1>d
  <2>6. \A x \in Proc : np[x] # None => np[x] \in Proc /\ np[x] # q
    BY ZenonT(30), <2>1 DEF ProcTypeOK
  <2>a. \A x \in Proc : (Doing(x)' \in Forking <=> Doing(x) \in Forking) /\ (Doing(x)' \in Forking => Doing(x)' = Doing(x))
    <3>1. Doing(p) \notin Forking /\ Doing(q) \notin Forking /\ Doing(p)' \notin Forking /\ Doing(q)' \notin Forking
      BY ZenonT(30), <2>1, <2>3 DEF ForkInv, Forking
    <3>. QED
      BY ZenonT(30), <2>2, <3>1
  <2>b. \A x \in Proc : pc'[x] = "fork_copy" => pc[x] = "fork_copy" /\ np[x] # None
    <3>1. \A x \in Proc : pc'[x] = "fork_copy" => pc[x] = "fork_copy"
      BY ZenonT(30), <2>2, <2>3
    <3>. QED
      BY ZenonT(30), <3>1 DEF ForkInv, Doing, Forking
  <2>7. \A x \in Proc : np'[x] # None <=> Doing(x)' \in Forking
    BY ZenonT(30), <2>5, <2>a DEF ForkInv
  <2>8. \A x \in Proc : np'[x] # None => state'[np'[x]] = "USED"
    BY ZenonT(30), <2>4, <2>5, <2>6 DEF ForkInv
  <2>9. \A x, y \in Proc : np'[x] # None /\ np'[x] = np'[y] => x = y
    BY ZenonT(30), <2>5 DEF ForkInv
  <2>10. \A x \in Proc : pc'[x] = "fork_copy" => \A d \in CPU : run'[d] = x => plock'[np'[x]] = d
    BY ZenonT(30), <2>5, <2>b DEF ForkInv
  <2>11. \A x \in Proc : Doing(x)' = "fork_ready" => parent'[np'[x]] = x
    <3>1. "fork_ready" \in Forking
      BY ZenonT(30) DEF Forking
    <3>. QED
      <4>. SUFFICES ASSUME NEW x \in Proc, Doing(x)' = "fork_ready" PROVE parent'[np[x]] = x
        BY Zenon, <2>5
      <4>1. Doing(x) = "fork_ready" /\ np[x] # None
        BY <2>a, <3>1 DEF ForkInv
      <4>. QED
        BY ZenonT(30), <2>4, <2>6, <4>1 DEF ForkInv
  <2>12. \A x \in Proc : Doing(x)' \in Forking \ {"fork_ready"} => parent'[np'[x]] = None
    BY ZenonT(30), <2>4, <2>5, <2>6, <2>a DEF ForkInv
  <2>. QED
    BY <2>7, <2>8, <2>9, <2>10, <2>11, <2>12, Zenon DEF ForkInv
<1>6. ParentInv'
  BY ZenonT(60), SMT, <1>d, <1>e DEF ParentInv, Alive, Doing, Exiting, Freeproc, ProcTypeOK
<1>7. WaitInv'
  <2>1. \A x \in Proc : pc'[x] \in Exiting \cup Waiting => FALSE
    BY ZenonT(30), <1>b, <1>d DEF Exiting, Waiting, ProcTypeOK
  <2>2. \A x \in Proc : pc[x] # "wake_init"
    BY ZenonT(30), <1>b, <1>d DEF Exiting
  <2>3. \A x \in Proc : x # q => state'[x] = state[x] /\ parent'[x] = parent[x] /\ chan'[x] = chan[x]
    BY ZenonT(30), <1>d DEF Freeproc, ProcTypeOK
  <2>4. state'[q] = "UNUSED"
    BY ZenonT(30), <1>d DEF Freeproc, ProcTypeOK
  <2>5. \A x, y \in Proc : Asleep(x)' /\ parent'[y] = x /\ state'[y] = "ZOMBIE" => FALSE
    <3>1. \A x \in Proc : Asleep(x)' => Asleep(x)
      BY ZenonT(30), <2>3, <2>4 DEF Asleep
    <3>2. \A y \in Proc : state'[y] = "ZOMBIE" => state[y] = "ZOMBIE" /\ parent'[y] = parent[y]
      BY ZenonT(30), <2>3, <2>4
    <3>. QED
      BY ZenonT(30), <2>2, <3>1, <3>2 DEF WaitInv
  <2>. QED
    BY ZenonT(30), <2>1, <2>5 DEF WaitInv, Exiting, Waiting
<1>. QED
  BY ZenonT(30), <1>1, <1>2, <1>3, <1>4, <1>5, <1>6, <1>7

LEMMA WaitEndsKeeps ==
  ASSUME IInv, NEW c \in CPU, NEW p \in Proc, WaitCopyoutFails(c, p) \/ WaitNoKids(c, p) \/ WaitSleeps(c, p)
  PROVE  IInv'
<1>. USE SlotAssumption DEF IInv
<1>a. /\ pc[p] = "scan" /\ run[c] = p /\ waitlock = c
      /\ \A x \in Proc : x # p => pc[x] \notin Exiting \cup Waiting
  <2>1. pc[p] = "scan" /\ run[c] = p
    BY ZenonT(30) DEF WaitCopyoutFails, WaitNoKids, WaitSleeps, At
  <2>2. run[waitlock] = p /\ waitlock \in CPU
    BY ZenonT(30), <2>1 DEF LockInv, Waiting
  <2>3. waitlock = c
    BY ZenonT(30), <2>1, <2>2, OneRun DEF IInv
  <2>. QED
    BY ZenonT(30), <2>1, <2>2, <2>3 DEF LockInv
<1>b. PICK l \in {"user", "sleep"} :
        /\ pc' = [pc EXCEPT ![p] = l] /\ waitlock' = (IF l = "user" THEN Free ELSE waitlock)
        /\ idx' = [idx EXCEPT ![p] = 0] /\ UNCHANGED <<state, parent, chan, plock, run, ret, np>>
        /\ l = "sleep" => idx[p] > NPROC
  BY ZenonT(30) DEF WaitCopyoutFails, WaitNoKids, WaitSleeps, Goto
<1>c. \A x \in Proc : /\ pc'[x] = IF x = p THEN l ELSE pc[x]
                      /\ idx'[x] = IF x = p THEN 0 ELSE idx[x]
  BY ZenonT(30), <1>b DEF ProcTypeOK
<1>1. ProcTypeOK' /\ RunInv' /\ StateInv' /\ ForkInv' /\ ParentInv'
  <2>1. pc[p] \in OnCpu \ Forking /\ l \in OnCpu \ Forking /\ l \notin Exiting /\ l # "exit"
    BY ZenonT(30), <1>a DEF OnCpu, Preemptible, Waiting, Forking, Exiting
  <2>2. idx' \in [Proc -> 0..(NPROC + 1)] /\ waitlock' \in CPU \cup {Free}
    <3>1. 0 \in 0..(NPROC + 1)
      BY NPROCAssumption
    <3>. QED
      BY ZenonT(30), <1>b, <3>1 DEF ProcTypeOK
  <2>. QED
    BY ZenonT(30), <1>b, <2>1, <2>2, MoveKeeps
<1>2. LockInv'
  <2>1. \A x \in Proc : plock'[x] # Free => \/ run'[plock'[x]] = x /\ pc'[x] = "sched"
                                            \/ \E q \in Proc : run'[plock'[x]] = q /\ pc'[q] = "fork_copy" /\ np'[q] = x
    <3>1. \A x \in Proc : pc[x] = "sched" \/ pc[x] = "fork_copy" => pc'[x] = pc[x]
      BY ZenonT(30), <1>a, <1>c
    <3>. QED
      BY ZenonT(30), <1>b, <3>1, HoldersKept
  <2>2. \A x \in Proc : pc'[x] \in Exiting \cup Waiting => x = p /\ l = "sleep"
    BY ZenonT(30), <1>a, <1>c DEF Exiting, Waiting
  <2>3. pc'[p] = l /\ (l = "sleep" => l \in Waiting) /\ (l = "user" \/ l = "sleep")
    BY ZenonT(30), <1>c DEF Waiting
  <2>4. l = "sleep" => waitlock' = c /\ run'[waitlock'] = p /\ pc'[p] \in Exiting \cup Waiting
    BY ZenonT(30), <1>a, <1>b, <2>3
  <2>5. \A x \in Proc : pc'[x] \in Exiting \cup Waiting => run'[waitlock'] = x /\ waitlock' \in CPU
    BY ZenonT(30), <2>2, <2>4
  <2>6. waitlock' # Free => run'[waitlock'] \in Proc /\ pc'[run'[waitlock']] \in Exiting \cup Waiting
    BY ZenonT(30), <1>b, <2>3, <2>4
  <2>. QED
    BY ZenonT(30), <2>1, <2>5, <2>6 DEF LockInv
<1>3. WaitInv'
  <2>1. l = "sleep" => \A q \in Proc : parent[q] = p => state[q] # "ZOMBIE"
    <3>1. l = "sleep" => \A q \in Proc : q < idx[p]
      BY <1>b, NPROCAssumption DEF ProcTypeOK, Proc
    <3>. QED
      BY ZenonT(30), <1>a, <3>1 DEF WaitInv
  <2>2. \A x \in Proc : pc'[x] \in Exiting \cup Waiting => x = p /\ pc'[x] = "sleep"
    BY ZenonT(30), <1>a, <1>b, <1>c DEF Exiting, Waiting
  <2>3. \A x \in Proc : pc[x] # "wake_init"
    BY ZenonT(30), <1>a DEF Exiting
  <2>4. state' = state /\ parent' = parent /\ \A x \in Proc : Asleep(x)' <=> Asleep(x)
    BY ZenonT(30), <1>b DEF Asleep
  <2>5. \A x, y \in Proc : Asleep(x)' /\ parent'[y] = x /\ state'[y] = "ZOMBIE" => FALSE
    BY ZenonT(30), <2>3, <2>4 DEF WaitInv
  <2>6. pc'[p] = "sleep" => \A q \in Proc : parent'[q] = p => state'[q] # "ZOMBIE"
    BY ZenonT(30), <1>c, <2>1, <2>4
  <2>. QED
    BY ZenonT(30), <2>2, <2>5, <2>6 DEF WaitInv, Exiting, Waiting
<1>. QED
  BY ZenonT(30), <1>1, <1>2, <1>3

LEMMA SleepKeeps ==
  ASSUME IInv, NEW c \in CPU, NEW p \in Proc, Sleep(c, p)
  PROVE  IInv'
<1>. USE SlotAssumption DEF IInv
<1>1. ProcTypeOK'
  BY ZenonT(30) DEF Sleep, At, Goto, ProcTypeOK, Preemptible, OnCpu
<1>2. RunInv' /\ StateInv' /\ LockInv' /\ ForkInv' /\ ParentInv'
  BY ZenonT(30), LeaveKeeps DEF Sleep, At, Goto
<1>7. WaitInv'
  <2>1. \A x \in Proc : x # p => pc[x] \notin Exiting \cup Waiting
    BY ZenonT(30) DEF Sleep, At, LockInv, Exiting, Waiting
  <2>2. \A x \in Proc : parent[x] = p => state[x] # "ZOMBIE"
    BY ZenonT(30) DEF Sleep, At, WaitInv
  <2>3. /\ pc[p] = "sleep" /\ state' = [state EXCEPT ![p] = "SLEEPING"] /\ chan' = [chan EXCEPT ![p] = p]
        /\ pc' = [pc EXCEPT ![p] = "sched"] /\ UNCHANGED <<parent, idx>>
    BY ZenonT(30) DEF Sleep, At, Goto
  <2>. QED
    BY ZenonT(60), SMT, <2>1, <2>2, <2>3 DEF WaitInv, Asleep, Exiting, Waiting, ProcTypeOK
<1>. QED
  BY ZenonT(30), <1>1, <1>2, <1>7

-----------------------------------------------------------------------------
(* The theorems. *)

LEMMA InitInv == Init => IInv
<1>. SUFFICES ASSUME Init PROVE IInv
  BY ZenonT(30)
<1>. USE SlotAssumption DEF Init
<1>1. ProcTypeOK
  BY NPROCAssumption DEF ProcTypeOK, Preemptible, OnCpu
<1>2. RunInv /\ StateInv
  BY ZenonT(30) DEF RunInv, OneCpu, StateInv, OnCpu, Preemptible, Exiting, Waiting
<1>3. LockInv /\ ForkInv
  BY ZenonT(30) DEF LockInv, ForkInv, Doing, Forking, Exiting, Waiting
<1>4. ParentInv
  BY ZenonT(30) DEF ParentInv, Alive, Doing, Exiting
<1>5. \A p \in Proc : ~Asleep(p) /\ pc[p] \in {"sched", "none"}
  BY ZenonT(30) DEF Asleep
<1>6. WaitInv
  BY ZenonT(30), <1>5 DEF WaitInv, Exiting
<1>. QED
  BY ZenonT(30), <1>1, <1>2, <1>3, <1>4, <1>6 DEF IInv

LEMMA StutterKeeps ==
  ASSUME IInv, UNCHANGED vars
  PROVE  IInv'
<1>1. ProcTypeOK' /\ RunInv' /\ StateInv'
  <2>1. ProcTypeOK'
    BY ZenonT(30) DEF vars, IInv, ProcTypeOK
  <2>2. RunInv'
    BY DEF vars, IInv, RunInv, OneCpu
  <2>3. StateInv'
    BY ZenonT(30) DEF vars, IInv, StateInv
  <2>. QED
    BY ZenonT(30), <2>1, <2>2, <2>3
<1>2. LockInv' /\ ForkInv'
  <2>1. LockInv'
    BY ZenonT(30) DEF vars, IInv, LockInv
  <2>2. ForkInv'
    BY ZenonT(30) DEF vars, IInv, ForkInv, Doing
  <2>. QED
    BY ZenonT(30), <2>1, <2>2
<1>3. ParentInv' /\ WaitInv'
  BY ZenonT(30) DEF vars, IInv, ParentInv, WaitInv, Doing, Alive, Asleep
<1>. QED
  BY ZenonT(30), <1>1, <1>2, <1>3 DEF IInv

LEMMA StepInv == IInv /\ [Next]_vars => IInv'
<1>. SUFFICES ASSUME IInv, [Next]_vars PROVE IInv'
  BY ZenonT(30)
<1>1. CASE Next
  <2>1. PICK c \in CPU, p \in Proc :
          \/ Schedule(c, p) \/ Sched(c, p) \/ Yield(c, p)
          \/ Fork(c, p) \/ Exit(c, p) \/ Wait(c, p)
          \/ Syscall(c, p) \/ SyscallDone(c, p) \/ ExitCall(c, p) \/ WaitCall(c, p)
          \/ \E q \in Proc : Allocproc(c, p, q) \/ Kill(c, p, q)
    BY ZenonT(30), <1>1 DEF Next
  <2>2. CASE Schedule(c, p) \/ Sched(c, p) \/ Yield(c, p)
    BY ZenonT(30), <2>2, ScheduleKeeps, SchedKeeps, YieldKeeps
  <2>3. CASE Fork(c, p)
    BY ZenonT(30), <2>3, ForkFailsKeeps, ForkCopiedKeeps, ForkLinkKeeps, ForkReadyKeeps DEF Fork
  <2>4. CASE Exit(c, p)
    BY ZenonT(30), <2>4, ExitReparentKeeps, ExitWakeupKeeps, ExitWokenKeeps, ExitZombieKeeps DEF Exit
  <2>5. CASE Wait(c, p)
    BY ZenonT(30), <2>5, WaitLockKeeps, WaitNextKeeps, WaitReapKeeps, WaitEndsKeeps, SleepKeeps DEF Wait
  <2>6. CASE Syscall(c, p) \/ SyscallDone(c, p) \/ ExitCall(c, p) \/ WaitCall(c, p)
    BY ZenonT(30), <2>6, CallKeeps
  <2>7. CASE \E q \in Proc : Allocproc(c, p, q) \/ Kill(c, p, q)
    BY ZenonT(30), <2>7, AllocprocKeeps, KillKeeps
  <2>. QED
    BY ZenonT(30), <2>1, <2>2, <2>3, <2>4, <2>5, <2>6, <2>7
<1>2. CASE UNCHANGED vars
  BY ZenonT(30), <1>2, StutterKeeps
<1>. QED
  BY ZenonT(30), <1>1, <1>2

LEMMA Invariance == Spec => []IInv
  BY InitInv, StepInv, PTL DEF Spec

-----------------------------------------------------------------------------
(* scheduler() and sched(): no two CPUs ever run on the kernel stack of one   *)
(* process, for any number of CPUs and of slots.                              *)
THEOREM OneStackOneCpu == Spec => []OneCpu
<1>1. IInv => OneCpu
  BY ZenonT(30) DEF IInv, RunInv
<1>. QED
  BY <1>1, Invariance, PTL

(* wait() and freeproc(): a slot that wait() has freed, or that allocproc()   *)
(* hands to fork(), is not the one a CPU still executes on.                   *)
THEOREM FreedIsOffCpu == Spec => []FreedNotRunning
<1>1. IInv => FreedNotRunning
  BY ZenonT(30) DEF IInv, RunInv, FreedNotRunning
<1>. QED
  BY <1>1, Invariance, PTL

(* exit() and wait(): the wakeup of a parent is never lost, nor that of init  *)
(* when it inherits a child that has exited already.                          *)
THEOREM ExitIsSeen == Spec => []NoLostExit
<1>1. IInv => NoLostExit
  BY SlotAssumption DEF IInv, LockInv, WaitInv, Asleep, NoLostExit, Exiting
<1>. QED
  BY <1>1, Invariance, PTL

(* reparent(): every process that has started has a living parent. *)
THEOREM OrphansHaveInit == Spec => []ParentAlive
<1>1. IInv => ParentAlive
  BY ZenonT(30), SlotAssumption DEF IInv, ParentInv, Alive, ParentAlive
<1>. QED
  BY <1>1, Invariance, PTL
=============================================================================
