-------------------------------- MODULE Log --------------------------------
(* The redo log of kernel/log.c: group commit, absorption, pinning, crash   *)
(* recovery.  A critical section of log.lock that does not sleep is one     *)
(* step; every disk write is a step of its own, so a crash may fall between *)
(* any two of them.  A block write itself is atomic.                        *)
EXTENDS Integers, Sequences, FiniteSets

CONSTANTS
  Proc,         \* kernel threads that make file system calls
  Boot,         \* the first process, which runs fsinit() in forkret()
  Block,        \* file system blocks outside the log
  Value,        \* contents of a block
  MAXOPBLOCKS,  \* blocks begin_op() reserves for an operation
  OpBlocks,     \* distinct blocks an operation really writes, at most
  LOGSIZE,      \* entries of logheader.block[]
  NLOG          \* sb.nlog: blocks of the log on disk, the header included

ASSUME ProcAssumption == IsFiniteSet(Proc) /\ Boot \in Proc
ASSUME SizeAssumption ==
  /\ MAXOPBLOCKS \in Nat \ {0} /\ OpBlocks \in 1..MAXOPBLOCKS
  /\ LOGSIZE \in Nat /\ MAXOPBLOCKS <= LOGSIZE
  /\ NLOG \in Nat \ {0}

VARIABLES
  home,         \* disk: the blocks at their home locations
  dhead,        \* disk: the header block, as the sequence of its n entries
  dlog,         \* disk: the data blocks of the log
  cache,        \* what bread() returns for a block
  pins,         \* bpin()s of the block's buffer not yet undone
  lh,           \* log.lh, as the sequence of its n entries
  outstanding,  \* log.outstanding
  committing,   \* log.committing
  pc,           \* where each process is
  tail,         \* the loop variable of write_log() and install_trans()
  wrote,        \* the distinct blocks a process has written in its operation
  panicked

disk == <<home, dhead, dlog>>
vars == <<home, dhead, dlog, cache, pins, lh, outstanding, committing,
          pc, tail, wrote, panicked>>

Recovering == {"read_head", "install_recovered"}
Committing == {"write_log", "install", "committed"}
PC == {"off", "user", "begin", "sleep", "op"} \cup Recovering \cup Committing

Slot == 1..(NLOG - 1)

InNever(b, s) == FALSE
In(b, s) == \E i \in 1..Len(s) : s[i] = b

TypeOK ==
  /\ home \in [Block -> Value] /\ cache \in [Block -> Value]
  /\ dlog \in [Slot -> Value]
  /\ dhead \in Seq(Block) /\ lh \in Seq(Block)
  /\ pins \in [Block -> Nat]
  /\ outstanding \in Nat /\ committing \in BOOLEAN
  /\ pc \in [Proc -> PC] /\ tail \in Nat \ {0}
  /\ wrote \in [Proc -> SUBSET Block]
  /\ panicked \in BOOLEAN

(* mkfs leaves an empty log; forkret() runs fsinit() before anyone else.    *)
Booting == [p \in Proc |-> IF p = Boot THEN "read_head" ELSE "off"]

Init ==
  /\ home \in [Block -> Value] /\ dhead = <<>> /\ dlog \in [Slot -> Value]
  /\ cache = home /\ pins = [b \in Block |-> 0]
  /\ lh = <<>> /\ outstanding = 0 /\ committing = FALSE
  /\ pc = Booting /\ tail = 1
  /\ wrote = [p \in Proc |-> {}] /\ panicked = FALSE

WakeupNobody(f) == f
(* wakeup(&log): every sleeper runs again and re-evaluates begin_op()'s loop. *)
Wakeup(f) == [q \in Proc |-> IF f[q] = "sleep" THEN "begin" ELSE f[q]]

(* The loops of write_log() and install_trans() run over log.lh. *)
CopiedOrRecovering == tail > Len(lh) \/ pc[Boot] = "install_recovered"
Copied == tail > Len(lh)

-----------------------------------------------------------------------------
(* Recovery. *)

ReadHead(p) ==
  /\ ~panicked
  /\ pc[p] = "read_head"
  /\ lh' = dhead /\ tail' = 1
  /\ pc' = [pc EXCEPT ![p] = "install_recovered"]
  /\ UNCHANGED <<disk, cache, pins, outstanding, committing, wrote, panicked>>

(* bunpin(): only a commit unpins what log_write() has pinned. *)
Unpin(p, b) == IF pc[p] = "install" THEN [pins EXCEPT ![b] = @ - 1] ELSE pins

(* One iteration of install_trans(). *)
InstallTrans(p) ==
  /\ ~panicked
  /\ pc[p] \in {"install_recovered", "install"}
  /\ ~Copied
  /\ home' = [home EXCEPT ![lh[tail]] = dlog[tail]]
  /\ cache' = [cache EXCEPT ![lh[tail]] = dlog[tail]]
  /\ pins' = Unpin(p, lh[tail])
  /\ tail' = tail + 1
  /\ UNCHANGED <<dhead, dlog, lh, outstanding, committing, pc, wrote, panicked>>

(* log.lh.n = 0 and write_head(), once install_trans() has returned.  After  *)
(* recovery the system is up.                                                *)
ClearHead(p) ==
  /\ ~panicked
  /\ pc[p] \in {"install_recovered", "install"}
  /\ Copied
  /\ lh' = <<>>
  /\ dhead' = <<>>
  /\ pc' = IF pc[p] = "install" THEN [pc EXCEPT ![p] = "committed"]
           ELSE [q \in Proc |-> "user"]
  /\ UNCHANGED <<home, dlog, cache, pins, outstanding, committing, tail, wrote,
                 panicked>>

-----------------------------------------------------------------------------
(* Operations. *)

(* This operation might exhaust the log, or would disturb a commit. *)
MustWait == committing \/ Len(lh) + (outstanding + 1) * MAXOPBLOCKS > LOGSIZE

BeginOp(p) ==
  /\ ~panicked
  /\ pc[p] \in {"user", "begin"}
  /\ IF MustWait
     THEN /\ pc' = [pc EXCEPT ![p] = "sleep"]
          /\ UNCHANGED outstanding
     ELSE /\ pc' = [pc EXCEPT ![p] = "op"]
          /\ outstanding' = outstanding + 1
  /\ UNCHANGED <<disk, cache, pins, lh, committing, tail, wrote, panicked>>

Pin(b) == [pins EXCEPT ![b] = @ + 1]

(* bread(b), a change of its data, log_write(b), brelse(b): the buffer's     *)
(* lock is held throughout.                                                  *)
LogWrite(p, b, v) ==
  /\ ~panicked
  /\ pc[p] = "op"
  /\ Cardinality(wrote[p] \cup {b}) <= OpBlocks
  /\ cache' = [cache EXCEPT ![b] = v]
  /\ wrote' = [wrote EXCEPT ![p] = @ \cup {b}]
  /\ IF \/ Len(lh) >= LOGSIZE
        \/ Len(lh) >= NLOG - 1
        \/ outstanding < 1
     THEN panicked' = TRUE /\ UNCHANGED <<lh, pins>>
     ELSE /\ panicked' = panicked
          /\ IF In(b, lh)
             THEN UNCHANGED <<lh, pins>>
             ELSE /\ lh' = Append(lh, b)
                  /\ pins' = Pin(b)
  /\ UNCHANGED <<disk, outstanding, committing, pc, tail>>

EndOp(p) ==
  /\ ~panicked
  /\ pc[p] = "op"
  /\ outstanding' = outstanding - 1
  /\ wrote' = [wrote EXCEPT ![p] = {}]
  /\ panicked' = committing
  /\ IF outstanding' = 0
     THEN /\ committing' = TRUE
          /\ pc' = [pc EXCEPT ![p] = IF lh = <<>> THEN "committed" ELSE "write_log"]
     ELSE /\ pc' = Wakeup([pc EXCEPT ![p] = "user"])
          /\ UNCHANGED committing
  /\ tail' = 1
  /\ UNCHANGED <<disk, cache, pins, lh>>

-----------------------------------------------------------------------------
(* commit(), without log.lock. *)

WriteLog(p) ==
  /\ ~panicked
  /\ pc[p] = "write_log"
  /\ ~Copied
  /\ dlog' = [dlog EXCEPT ![tail] = cache[lh[tail]]]
  /\ tail' = tail + 1
  /\ UNCHANGED <<home, dhead, cache, pins, lh, outstanding, committing, pc,
                 wrote, panicked>>

(* The commit point. *)
WriteHead(p) ==
  /\ ~panicked
  /\ pc[p] = "write_log"
  /\ Copied
  /\ dhead' = lh
  /\ tail' = 1
  /\ pc' = [pc EXCEPT ![p] = "install"]
  /\ UNCHANGED <<home, dlog, cache, pins, lh, outstanding, committing, wrote,
                 panicked>>

EndCommit(p) ==
  /\ ~panicked
  /\ pc[p] = "committed"
  /\ committing' = FALSE
  /\ pc' = Wakeup([pc EXCEPT ![p] = "user"])
  /\ UNCHANGED <<disk, cache, pins, lh, outstanding, tail, wrote, panicked>>

-----------------------------------------------------------------------------
(* bget() may recycle the buffer of an unpinned block; the next bread() of   *)
(* it reads the disk.                                                        *)
Recycle(b) ==
  /\ ~panicked
  /\ pins[b] = 0
  /\ cache' = [cache EXCEPT ![b] = home[b]]
  /\ UNCHANGED <<disk, pins, lh, outstanding, committing, pc, tail, wrote,
                 panicked>>

(* Power failure and restart: all memory is lost, the disk stays. *)
Crash ==
  /\ cache' = home /\ pins' = [b \in Block |-> 0]
  /\ lh' = <<>> /\ outstanding' = 0 /\ committing' = FALSE
  /\ pc' = Booting /\ tail' = 1
  /\ wrote' = [p \in Proc |-> {}] /\ panicked' = FALSE
  /\ UNCHANGED disk

-----------------------------------------------------------------------------
Recover(p) == ReadHead(p) \/ InstallTrans(p) \/ ClearHead(p)
Commit(p) == WriteLog(p) \/ WriteHead(p) \/ EndCommit(p)
Write(p) == \E b \in Block, v \in Value : LogWrite(p, b, v)

Next ==
  \/ \E p \in Proc : \/ Recover(p) \/ BeginOp(p) \/ Write(p)
                      \/ EndOp(p) \/ Commit(p)
  \/ \E b \in Block : Recycle(b)
  \/ Crash

Spec == Init /\ [][Next]_vars

(* A process that runs in the kernel keeps running: a woken begin_op() looks *)
(* again, an operation ends, a commit and a recovery go on.  Nobody has to   *)
(* start an operation.                                                       *)
Fairness ==
  \A p \in Proc :
    /\ WF_vars(pc[p] = "begin" /\ BeginOp(p))
    /\ WF_vars(EndOp(p))
    /\ WF_vars(Recover(p) \/ Commit(p))

FairSpec == Spec /\ Fairness

-----------------------------------------------------------------------------
(* Properties. *)

(* What a crash at this moment leaves once recovery has run: the blocks      *)
(* named by the header on disk come from the log, the others from home.      *)
Durable ==
  [b \in Block |-> IF In(b, dhead)
                   THEN dlog[CHOOSE i \in 1..Len(dhead) : dhead[i] = b]
                   ELSE home[b]]

InRecovery == \E p \in Proc : pc[p] \in Recovering
Active == {p \in Proc : pc[p] = "op"}
Mem == IF InRecovery THEN Durable ELSE cache

Abs == INSTANCE AtomicDisk WITH mem <- Mem, durable <- Durable, active <- Active

(* log.c:10-31, write_head(): a group of operations reaches the disk         *)
(* entirely or not at all, wherever a crash or a second crash during         *)
(* recovery falls, and a new group starts only on a durable one.             *)
RefinesAtomicDisk == Abs!Spec

(* commit() runs without log.lock: nobody may be inside an operation, or     *)
(* enter one, and so change the cached blocks write_log() copies, and there  *)
(* is one committer.                                                         *)
CommitExcludesOps ==
  \A p \in Proc : pc[p] \in Committing =>
    /\ committing
    /\ \A q \in Proc \ {p} : pc[q] \notin {"op"} \cup Committing

(* bpin()/bunpin(): a buffer bget() may recycle holds what the disk holds,   *)
(* so no update is lost between log_write() and install_trans().             *)
UnpinnedClean == ~panicked => \A b \in Block : pins[b] = 0 => cache[b] = home[b]

(* begin_op() sleeps on &log: a process that waits for space or for a commit *)
(* is woken, unless log_write() has panicked.                                *)
SleeperWakes == \A p \in Proc : pc[p] = "sleep" ~> pc[p] # "sleep" \/ panicked

-----------------------------------------------------------------------------
(* The inductive invariant behind the properties above. *)

Distinct(s) == \A i, j \in 1..Len(s) : s[i] = s[j] => i = j

(* log_write() absorbs, and panics before it overruns the log. *)
LogShape ==
  /\ Distinct(lh) /\ Distinct(dhead)
  /\ Len(lh) < NLOG /\ Len(dhead) < NLOG

(* Before the file system is up there is only the recovering process, and    *)
(* what it has installed is what the header promises.                        *)
RecoveryInv ==
  InRecovery =>
    /\ \A p \in Proc : pc[p] = "off" \/ (p = Boot /\ pc[p] \in Recovering)
    /\ outstanding = 0 /\ ~committing /\ cache = home
    /\ \A b \in Block : pins[b] = 0
    /\ pc[Boot] = "read_head" => lh = <<>>
    /\ pc[Boot] = "install_recovered" =>
         lh = dhead /\ \A i \in 1..Len(lh) : i < tail => home[lh[i]] = dlog[i]

(* The header on disk is empty except while the committed blocks go home.    *)
CommitInv ==
  ~InRecovery =>
    /\ \A p \in Proc : pc[p] # "off"
    /\ outstanding = Cardinality(Active)
    /\ committing => outstanding = 0 /\ \E p \in Proc : pc[p] \in Committing
    /\ outstanding = 0 /\ ~committing => lh = <<>>
    /\ \A p, q \in Proc : pc[p] \in Committing =>
         committing /\ (pc[q] \in Committing => p = q)
    /\ (\A p \in Proc : pc[p] # "install") => dhead = <<>>
    /\ \A p \in Proc :
         /\ pc[p] = "write_log" =>
              \A i \in 1..Len(lh) : i < tail => dlog[i] = cache[lh[i]]
         /\ pc[p] = "install" =>
              /\ dhead = lh
              /\ \A i \in 1..Len(lh) :
                   /\ dlog[i] = cache[lh[i]]
                   /\ i < tail => home[lh[i]] = cache[lh[i]]
         /\ pc[p] = "committed" => lh = <<>>

(* A block is pinned from log_write() until it is installed, once however    *)
(* often it is written, and only a pinned block differs from the disk.       *)
PinInv ==
  ~InRecovery =>
    \A b \in Block :
      LET pinned == \E i \in 1..Len(lh) :
                      lh[i] = b /\ ((\E p \in Proc : pc[p] = "install") => i >= tail)
      IN  /\ pins[b] = IF pinned THEN 1 ELSE 0
          /\ ~panicked /\ ~pinned => cache[b] = home[b]

(* Together: what log.c maintains between any two steps. *)
LogInv == LogShape /\ RecoveryInv /\ CommitInv /\ PinInv
=============================================================================
