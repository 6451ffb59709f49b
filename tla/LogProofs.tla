----------------------------- MODULE LogProofs ------------------------------
(* The invariant of Log, what it says, and that Log implements AtomicDisk.    *)
EXTENDS Log, FiniteSetTheorems, TLAPS

IInv == TypeOK /\ LogInv

(* The set of processes inside an operation is finite, so outstanding, its   *)
(* size, counts it.                                                          *)
LEMMA ActiveFinite ==
  ASSUME TypeOK
  PROVE  IsFiniteSet(Active) /\ Cardinality(Active) \in Nat
<1>1. Active \in SUBSET Proc
  BY ZenonT(30) DEF Active
<1>. QED
  BY ZenonT(30), <1>1, ProcAssumption, FS_Subset, FS_CardinalityType

(* What a crash leaves once write_head() has copied lh to the disk. *)
LEMMA DurableNext ==
  ASSUME dhead' = lh, dlog' = dlog, home' = home
  PROVE  Durable' = [b \in Block |-> IF In(b, lh)
                                    THEN dlog[CHOOSE i \in 1..Len(lh) : lh[i] = b]
                                    ELSE home[b]]
  BY DEF Durable

LEMMA InitInv == Init => IInv
<1>. SUFFICES ASSUME Init PROVE IInv
  BY ZenonT(30)
<1>1. TypeOK
  <2>1. pc \in [Proc -> PC]
    BY ZenonT(30) DEF Init, Booting, PC, Recovering
  <2>2. pins \in [Block -> Nat] /\ wrote \in [Proc -> SUBSET Block]
    BY ZenonT(30) DEF Init
  <2>3. dhead \in Seq(Block) /\ lh \in Seq(Block) /\ outstanding \in Nat /\ tail \in Nat \ {0}
    BY DEF Init
  <2>. QED
    BY <2>1, <2>2, <2>3, Zenon DEF Init, TypeOK
<1>2. InRecovery
  BY ZenonT(30), ProcAssumption DEF Init, Booting, InRecovery, Recovering
<1>3. LogShape
  BY SizeAssumption DEF Init, LogShape, Distinct
<1>4. RecoveryInv
  BY ZenonT(30), ProcAssumption DEF Init, Booting, RecoveryInv, Recovering
<1>. QED
  BY ZenonT(30), <1>1, <1>2, <1>3, <1>4 DEF IInv, LogInv, CommitInv, PinInv

LEMMA CrashInv ==
  ASSUME IInv, Crash
  PROVE  IInv'
<1>. USE DEF IInv, LogInv
<1>1. TypeOK'
  <2>1. pc' \in [Proc -> PC]
    BY ZenonT(30) DEF Crash, Booting, PC, Recovering
  <2>2. pins' \in [Block -> Nat] /\ wrote' \in [Proc -> SUBSET Block]
    BY ZenonT(30) DEF Crash
  <2>3. lh' \in Seq(Block) /\ outstanding' \in Nat /\ tail' \in Nat \ {0}
    BY DEF Crash
  <2>4. home' = home /\ cache' = home /\ dlog' = dlog /\ dhead' = dhead
    BY ZenonT(30) DEF Crash, disk
  <2>5. committing' \in BOOLEAN /\ panicked' \in BOOLEAN
    BY Zenon DEF Crash
  <2>. QED
    BY ZenonT(30), <2>1, <2>2, <2>3, <2>4, <2>5 DEF TypeOK
<1>2. InRecovery'
  BY ZenonT(30), ProcAssumption DEF Crash, Booting, InRecovery, Recovering
<1>3. LogShape'
  BY SizeAssumption DEF Crash, LogShape, Distinct, disk
<1>4. RecoveryInv'
  <2>1. pc'[Boot] = "read_head" /\ \A q \in Proc : pc'[q] = "off" \/ q = Boot
    BY ZenonT(30), ProcAssumption DEF Crash, Booting
  <2>2. outstanding' = 0 /\ cache' = home' /\ lh' = <<>> /\ \A b \in Block : pins'[b] = 0
    BY ZenonT(30) DEF Crash, disk
  <2>3. ~committing'
    BY Zenon DEF Crash
  <2>. QED
    BY ZenonT(30), <2>1, <2>2, <2>3 DEF RecoveryInv, Recovering
<1>. QED
  BY ZenonT(30), <1>1, <1>2, <1>3, <1>4 DEF CommitInv, PinInv

LEMMA ReadHeadInv ==
  ASSUME IInv, NEW p \in Proc, ReadHead(p)
  PROVE  IInv'
<1>. USE DEF IInv, LogInv
<1>0. InRecovery /\ p = Boot
  BY ZenonT(30) DEF ReadHead, InRecovery, Recovering, RecoveryInv
<1>1. TypeOK'
  BY DEF ReadHead, TypeOK, PC, Recovering, disk
<1>2. InRecovery'
  BY ZenonT(30) DEF ReadHead, InRecovery, Recovering, TypeOK
<1>3. LogShape'
  BY ZenonT(30) DEF ReadHead, LogShape, Distinct, disk
<1>4. RecoveryInv'
  BY <1>0, ProcAssumption DEF ReadHead, RecoveryInv, Recovering, TypeOK, disk
<1>. QED
  BY ZenonT(30), <1>1, <1>2, <1>3, <1>4 DEF CommitInv, PinInv

(* Whoever commits is alone: the file system is up, nobody is inside an      *)
(* operation and nobody else commits.                                        *)
LEMMA Committer ==
  ASSUME IInv, NEW p \in Proc, pc[p] \in Committing
  PROVE  /\ ~InRecovery /\ committing /\ outstanding = 0 /\ Active = {}
         /\ \A q \in Proc : pc[q] \in Committing => q = p
<1>1. ~InRecovery
  BY ZenonT(30) DEF IInv, LogInv, RecoveryInv, Recovering, Committing
<1>2. committing /\ outstanding = 0 /\ outstanding = Cardinality(Active)
  BY ZenonT(30), <1>1 DEF IInv, LogInv, CommitInv
<1>3. Active = {}
  BY ZenonT(30), <1>2, ActiveFinite, FS_EmptySet DEF IInv
<1>. QED
  BY ZenonT(30), <1>1, <1>2, <1>3 DEF IInv, LogInv, CommitInv

LEMMA BeginOpInv ==
  ASSUME IInv, NEW p \in Proc, BeginOp(p)
  PROVE  IInv'
<1>. USE DEF IInv, LogInv
<1>0. ~InRecovery /\ ~InRecovery'
  BY ZenonT(30) DEF BeginOp, MustWait, InRecovery, Recovering, RecoveryInv, TypeOK
<1>1. TypeOK'
  <2>1. pc' \in [Proc -> PC] /\ outstanding' \in Nat
    <3>1. \/ pc' = [pc EXCEPT ![p] = "sleep"] /\ outstanding' = outstanding
          \/ pc' = [pc EXCEPT ![p] = "op"] /\ outstanding' = outstanding + 1
      BY Zenon DEF BeginOp, MustWait
    <3>2. pc \in [Proc -> PC] /\ outstanding \in Nat
      BY ZenonT(30) DEF TypeOK
    <3>3. CASE pc' = [pc EXCEPT ![p] = "sleep"] /\ outstanding' = outstanding
      BY ZenonT(30), <3>2, <3>3 DEF PC
    <3>4. CASE pc' = [pc EXCEPT ![p] = "op"] /\ outstanding' = outstanding + 1
      BY <3>2, <3>4 DEF PC
    <3>. QED
      BY ZenonT(30), <3>1, <3>3, <3>4
  <2>2. UNCHANGED <<home, dhead, dlog, cache, pins, lh, committing, tail, wrote, panicked>>
    BY ZenonT(30) DEF BeginOp, MustWait, disk
  <2>. QED
    BY ZenonT(30), <2>1, <2>2 DEF TypeOK
<1>3. LogShape'
  BY ZenonT(30) DEF BeginOp, MustWait, LogShape, Distinct, disk
<1>4. CommitInv'
  <2>1. outstanding' = Cardinality(Active')
    <3>1. CASE pc' = [pc EXCEPT ![p] = "sleep"]
      BY <3>1, <1>0, ZenonT(30) DEF BeginOp, MustWait, TypeOK, Active, CommitInv
    <3>2. CASE pc' = [pc EXCEPT ![p] = "op"] /\ outstanding' = outstanding + 1
      <4>1. Active' = Active \cup {p} /\ p \notin Active
        BY ZenonT(30), <3>2 DEF BeginOp, MustWait, TypeOK, Active
      <4>. QED
        <5>1. outstanding = Cardinality(Active)
          BY ZenonT(30), <1>0 DEF CommitInv
        <5>2. Cardinality(Active \cup {p}) = Cardinality(Active) + 1
          BY ZenonT(30), <4>1, ActiveFinite, FS_AddElement
        <5>. QED
          BY ZenonT(30), <4>1, <3>2, <5>1, <5>2
    <3>. QED
      BY ZenonT(30), <3>1, <3>2 DEF BeginOp, MustWait
  <2>2. committing => outstanding' = outstanding
    BY ZenonT(30) DEF BeginOp, MustWait
  <2>3. \A q \in Proc : pc'[q] \in Committing <=> pc[q] \in Committing
    BY ZenonT(30) DEF BeginOp, MustWait, TypeOK, Committing
  <2>4. \A q \in Proc : pc'[q] # "off"
    BY ZenonT(30), <1>0 DEF BeginOp, MustWait, TypeOK, CommitInv
  <2>5. \A q \in Proc, l \in Committing : pc'[q] = l <=> pc[q] = l
    BY ZenonT(30) DEF BeginOp, MustWait, TypeOK, Committing
  <2>6. outstanding' = outstanding \/ outstanding' # 0
    BY DEF BeginOp, MustWait, TypeOK
  <2>7. UNCHANGED <<home, dhead, dlog, cache, lh, committing, tail>>
    BY ZenonT(30) DEF BeginOp, MustWait, disk
  <2>. QED
    BY ZenonT(30), <1>0, <2>1, <2>2, <2>3, <2>4, <2>5, <2>6, <2>7 DEF CommitInv, Committing
<1>5. PinInv'
  <2>1. \A q \in Proc : pc'[q] = "install" <=> pc[q] = "install"
    BY ZenonT(30) DEF BeginOp, MustWait, TypeOK
  <2>. QED
    BY ZenonT(30), <1>0, <2>1 DEF BeginOp, MustWait, PinInv, disk
<1>. QED
  BY ZenonT(30), <1>0, <1>1, <1>3, <1>4, <1>5 DEF RecoveryInv

LEMMA WriteLogInv ==
  ASSUME IInv, NEW p \in Proc, WriteLog(p)
  PROVE  IInv'
<1>. USE DEF IInv, LogInv
<1>0. ~InRecovery /\ ~InRecovery' /\ \A q \in Proc : pc[q] \in Committing => q = p
  BY ZenonT(30), Committer DEF WriteLog, Copied, InRecovery, Committing
<1>1. TypeOK'
  <2>1. lh[tail] \in Block /\ tail' \in Nat \ {0}
    BY DEF WriteLog, Copied, TypeOK
  <2>2. dlog' \in [Slot -> Value]
    BY <2>1, Zenon DEF WriteLog, Copied, TypeOK
  <2>. QED
    BY ZenonT(30), <2>1, <2>2 DEF WriteLog, Copied, TypeOK, disk
<1>3. LogShape'
  BY ZenonT(30) DEF WriteLog, Copied, LogShape, Distinct, disk
<1>4. CommitInv'
  <2>1. \A i \in 1..Len(lh) : i < tail' => dlog'[i] = cache[lh[i]]
    <3>. SUFFICES ASSUME NEW i \in 1..Len(lh), i < tail' PROVE dlog'[i] = cache[lh[i]]
      BY ZenonT(30)
    <3>1. i \in Slot /\ tail \in Slot
      BY SizeAssumption DEF WriteLog, Copied, TypeOK, LogShape, Slot
    <3>2. CASE i = tail
      BY ZenonT(30), <3>1, <3>2 DEF WriteLog, Copied, TypeOK
    <3>3. CASE i # tail
      <4>1. i < tail
        BY <3>3 DEF WriteLog, Copied, TypeOK
      <4>. QED
        BY ZenonT(30), <4>1, <3>1, <3>3, <1>0 DEF WriteLog, Copied, TypeOK, CommitInv
    <3>. QED
      BY ZenonT(30), <3>2, <3>3
  <2>2. \A q \in Proc : pc[q] # "install" /\ (q # p => pc[q] # "write_log")
    BY ZenonT(30), <1>0 DEF WriteLog, Copied, Committing
  <2>3. Active' = Active /\ UNCHANGED <<dhead, cache, lh, outstanding, committing, pc>>
    BY ZenonT(30) DEF WriteLog, Copied, Active
  <2>. QED
    BY ZenonT(30), <1>0, <2>1, <2>2, <2>3 DEF CommitInv
<1>5. PinInv'
  BY ZenonT(30), <1>0, Committer DEF WriteLog, Copied, PinInv, Committing
<1>. QED
  BY ZenonT(30), <1>0, <1>1, <1>3, <1>4, <1>5 DEF RecoveryInv

LEMMA WriteHeadInv ==
  ASSUME IInv, NEW p \in Proc, WriteHead(p)
  PROVE  IInv'
<1>. USE DEF IInv, LogInv
<1>0. ~InRecovery /\ ~InRecovery' /\ \A q \in Proc : pc[q] \in Committing => q = p
  BY ZenonT(30), Committer DEF WriteHead, Copied, InRecovery, Recovering, Committing, TypeOK
<1>1. TypeOK'
  <2>1. pc' \in [Proc -> PC]
    BY ZenonT(30) DEF WriteHead, Copied, TypeOK, PC, Committing
  <2>. QED
    BY <2>1 DEF WriteHead, Copied, TypeOK, disk
<1>3. LogShape'
  BY ZenonT(30) DEF WriteHead, Copied, LogShape, Distinct
<1>4. \A q \in Proc : /\ pc'[q] = IF q = p THEN "install" ELSE pc[q]
                      /\ pc'[q] \in Committing <=> pc[q] \in Committing
  BY ZenonT(30) DEF WriteHead, Copied, TypeOK, Committing
<1>5. CommitInv'
  <2>1. Active' = Active
    BY <1>4 DEF WriteHead, Copied, Active
  <2>2. \A i \in 1..Len(lh) : dlog[i] = cache[lh[i]]
    <3>1. \A i \in 1..Len(lh) : i < tail
      BY DEF WriteHead, Copied, TypeOK
    <3>. QED
      BY ZenonT(30), <3>1, <1>0 DEF WriteHead, Copied, CommitInv
  <2>3. dhead' = lh' /\ \A q \in Proc : pc'[q] \in Committing => q = p /\ pc'[q] = "install"
    BY ZenonT(30), <1>0, <1>4 DEF WriteHead, Copied
  <2>4. \A i \in 1..Len(lh) : ~(i < tail')
    BY SMTT(30) DEF WriteHead, Copied
  <2>. QED
    BY <1>0, <1>4, <2>1, <2>2, <2>3, <2>4 DEF WriteHead, Copied, CommitInv, Committing
<1>6. PinInv'
  <2>1. \A q \in Proc : pc[q] # "install"
    BY ZenonT(30), <1>0 DEF WriteHead, Copied, Committing
  <2>2. \A i \in 1..Len(lh) : i >= tail'
    BY DEF WriteHead, Copied
  <2>. QED
    BY ZenonT(30), <1>0, <2>1, <2>2 DEF WriteHead, Copied, PinInv
<1>. QED
  BY ZenonT(30), <1>0, <1>1, <1>3, <1>5, <1>6 DEF RecoveryInv

LEMMA EndCommitInv ==
  ASSUME IInv, NEW p \in Proc, EndCommit(p)
  PROVE  IInv'
<1>. USE DEF IInv, LogInv
<1>0. /\ ~InRecovery /\ outstanding = 0 /\ Active = {}
      /\ \A q \in Proc : pc[q] \in Committing => q = p
  BY ZenonT(30), Committer DEF EndCommit, Committing
<1>1. \A q \in Proc : pc'[q] = IF q = p THEN "user"
                              ELSE IF pc[q] = "sleep" THEN "begin" ELSE pc[q]
  BY ZenonT(30) DEF EndCommit, Wakeup, TypeOK
<1>2. ~InRecovery' /\ Active' = {}
  BY ZenonT(30), <1>0, <1>1 DEF InRecovery, Recovering, Active
<1>3. TypeOK'
  <2>1. pc' \in [Proc -> PC]
    BY ZenonT(30) DEF EndCommit, Wakeup, TypeOK, PC
  <2>2. committing' \in BOOLEAN
    BY Zenon DEF EndCommit
  <2>. QED
    BY <2>1, <2>2, Zenon DEF EndCommit, TypeOK, disk
<1>4. LogShape'
  BY ZenonT(30) DEF EndCommit, LogShape, Distinct, disk
<1>5. \A q \in Proc : pc'[q] \notin Committing /\ pc'[q] # "off"
  BY <1>0, <1>1 DEF Committing, CommitInv
<1>6. CommitInv'
  <2>1. dhead = <<>>
    BY ZenonT(30), <1>0 DEF EndCommit, CommitInv, Committing
  <2>2. ~committing'
    BY Zenon DEF EndCommit
  <2>3. outstanding' = Cardinality(Active')
    BY ZenonT(30), <1>0, <1>2, FS_EmptySet DEF EndCommit
  <2>4. lh' = <<>>
    BY ZenonT(30), <1>0 DEF EndCommit, CommitInv
  <2>. QED
    BY <1>5, <2>1, <2>2, <2>3, <2>4, ZenonT(30) DEF EndCommit, CommitInv, Committing, disk
<1>7. PinInv'
  <2>1. \A q \in Proc : pc[q] # "install" /\ pc'[q] # "install"
    BY <1>0, <1>5, Zenon DEF EndCommit, Committing
  <2>. QED
    BY <1>0, <2>1, ZenonT(30) DEF EndCommit, PinInv, disk
<1>. QED
  BY ZenonT(30), <1>2, <1>3, <1>4, <1>6, <1>7 DEF RecoveryInv

LEMMA RecycleInv ==
  ASSUME IInv, NEW b \in Block, Recycle(b)
  PROVE  IInv'
<1>. USE DEF IInv, LogInv
<1>1. cache' = cache
  <2>1. cache[b] = home[b]
    <3>1. CASE InRecovery
      BY ZenonT(30), <3>1 DEF RecoveryInv
    <3>2. CASE ~InRecovery
      BY <3>2 DEF Recycle, PinInv
    <3>. QED
      BY ZenonT(30), <3>1, <3>2
  <2>. QED
    BY ZenonT(30), <2>1 DEF Recycle, TypeOK
<1>2. UNCHANGED vars
  BY <1>1, ZenonT(30) DEF Recycle, vars, disk
<1>. QED
  BY <1>2 DEF vars, TypeOK, LogShape, RecoveryInv, CommitInv, PinInv, InRecovery, Active, Distinct

LEMMA LogWriteInv ==
  ASSUME IInv, NEW p \in Proc, NEW b \in Block, NEW v \in Value, LogWrite(p, b, v)
  PROVE  IInv'
<1>. USE DEF IInv, LogInv
<1>0. /\ ~InRecovery /\ ~InRecovery' /\ p \in Active
      /\ \A q \in Proc : pc[q] \notin Committing
  BY ZenonT(30), Committer DEF LogWrite, Pin, InRecovery, Recovering, RecoveryInv, TypeOK, Active
<1>1. UNCHANGED <<home, dhead, dlog, outstanding, committing, pc, tail>>
  BY ZenonT(30) DEF LogWrite, Pin, disk
<1>2. cache' = [cache EXCEPT ![b] = v]
  BY ZenonT(30) DEF LogWrite, Pin
<1>3. \/ panicked' /\ UNCHANGED <<lh, pins>>
      \/ /\ ~panicked' /\ Len(lh) < NLOG - 1
         /\ \/ In(b, lh) /\ UNCHANGED <<lh, pins>>
            \/ ~In(b, lh) /\ lh' = Append(lh, b) /\ pins' = [pins EXCEPT ![b] = @ + 1]
  <2>1. CASE Len(lh) >= LOGSIZE \/ Len(lh) >= NLOG - 1 \/ outstanding < 1
    BY <2>1, Zenon DEF LogWrite, Pin
  <2>2. CASE ~(Len(lh) >= LOGSIZE \/ Len(lh) >= NLOG - 1 \/ outstanding < 1)
    <3>1. Len(lh) < NLOG - 1
      BY <2>2, SizeAssumption DEF TypeOK
    <3>2. ~panicked'
      BY <2>2, Zenon DEF LogWrite, Pin
    <3>. QED
      BY <2>2, <3>1, <3>2, Zenon DEF LogWrite, Pin
  <2>. QED
    BY ZenonT(30), <2>1, <2>2
<1>4. TypeOK'
  <2>1. cache' \in [Block -> Value] /\ wrote' \in [Proc -> SUBSET Block]
    BY ZenonT(30) DEF LogWrite, Pin, TypeOK
  <2>2. lh' \in Seq(Block) /\ pins' \in [Block -> Nat]
    <3>1. lh \in Seq(Block) /\ pins \in [Block -> Nat]
      BY ZenonT(30) DEF TypeOK
    <3>2. CASE UNCHANGED <<lh, pins>>
      BY ZenonT(30), <3>1, <3>2
    <3>3. CASE lh' = Append(lh, b) /\ pins' = [pins EXCEPT ![b] = @ + 1]
      BY <3>1, <3>3
    <3>. QED
      BY ZenonT(30), <1>3, <3>2, <3>3
  <2>3. panicked' \in BOOLEAN
    BY Zenon DEF LogWrite, Pin, TypeOK
  <2>. QED
    BY ZenonT(30), <1>1, <2>1, <2>2, <2>3 DEF TypeOK
<1>5. LogShape'
  <2>1. CASE UNCHANGED <<lh, pins>>
    BY ZenonT(30), <2>1, <1>1 DEF LogShape, Distinct
  <2>2. CASE Len(lh) < NLOG - 1 /\ ~In(b, lh) /\ lh' = Append(lh, b)
    <3>1. /\ Len(lh) \in Nat /\ Len(lh') = Len(lh) + 1 /\ lh'[Len(lh) + 1] = b
          /\ \A i \in 1..Len(lh) : lh'[i] = lh[i] /\ lh[i] # b
      BY <2>2 DEF In, TypeOK
    <3>2. Len(lh') < NLOG
      BY <2>2, <3>1, SizeAssumption
    <3>3. \A i \in 1..Len(lh') : i \in 1..Len(lh) \/ i = Len(lh) + 1
      BY <3>1
    <3>4. Distinct(lh')
      BY ZenonT(60), SMT, <3>1, <3>3 DEF LogShape, Distinct
    <3>. QED
      BY ZenonT(30), <1>1, <3>2, <3>4 DEF LogShape, Distinct
  <2>. QED
    BY ZenonT(30), <1>3, <2>1, <2>2
<1>6. CommitInv'
  <2>1. outstanding # 0
    BY ZenonT(30), <1>0, ActiveFinite, FS_EmptySet DEF CommitInv
  <2>2. Active' = Active
    BY ZenonT(30), <1>1 DEF Active
  <2>. QED
    BY ZenonT(30), <1>0, <1>1, <2>1, <2>2 DEF CommitInv, Committing
<1>7. PinInv'
  <2>0. \A q \in Proc : pc'[q] # "install" /\ pc[q] # "install"
    BY ZenonT(30), <1>0, <1>1 DEF Committing
  <2>1. \A c \in Block : /\ pins[c] = IF In(c, lh) THEN 1 ELSE 0
                         /\ ~panicked /\ ~In(c, lh) => cache[c] = home[c]
    BY ZenonT(30), <1>0, <2>0 DEF PinInv, In
  <2>2. SUFFICES \A c \in Block : /\ pins'[c] = IF In(c, lh') THEN 1 ELSE 0
                                  /\ ~panicked' /\ ~In(c, lh') => cache'[c] = home'[c]
    BY ZenonT(30), <1>0, <2>0 DEF PinInv, In
  <2>3. ~panicked
    BY ZenonT(30) DEF LogWrite, Pin
  <2>4. CASE panicked' /\ UNCHANGED <<lh, pins>>
    BY ZenonT(30), <2>4, <2>1
  <2>5. CASE In(b, lh) /\ UNCHANGED <<lh, pins>>
    BY ZenonT(30), <2>5, <2>1, <2>3, <1>1, <1>2 DEF TypeOK
  <2>6. CASE ~In(b, lh) /\ lh' = Append(lh, b) /\ pins' = [pins EXCEPT ![b] = @ + 1]
    <3>1. \A c \in Block : In(c, lh') <=> In(c, lh) \/ c = b
      <4>. SUFFICES ASSUME NEW c \in Block
                    PROVE  In(c, lh') <=> In(c, lh) \/ c = b
        BY ZenonT(30)
      <4>1. Len(lh') = Len(lh) + 1 /\ lh'[Len(lh) + 1] = b
            /\ \A i \in 1..Len(lh) : lh'[i] = lh[i]
        BY <2>6 DEF TypeOK
      <4>2. Len(lh) \in Nat
        BY DEF TypeOK
      <4>3. In(c, lh) \/ c = b => In(c, lh')
        BY <4>1, <4>2 DEF In
      <4>4. In(c, lh') => In(c, lh) \/ c = b
        BY <4>1, <4>2 DEF In
      <4>. QED
        BY ZenonT(30), <4>3, <4>4
    <3>. QED
      BY <2>6, <3>1, <2>1, <2>3, <1>1, <1>2 DEF TypeOK
  <2>. QED
    BY ZenonT(30), <1>3, <2>4, <2>5, <2>6
<1>. QED
  BY ZenonT(30), <1>0, <1>4, <1>5, <1>6, <1>7 DEF RecoveryInv

LEMMA EndOpInv ==
  ASSUME IInv, NEW p \in Proc, EndOp(p)
  PROVE  IInv'
<1>. USE DEF IInv, LogInv
<1>0. ~InRecovery /\ p \in Active /\ (\A q \in Proc : pc[q] \notin Committing) /\ ~committing
  BY ZenonT(30), Committer DEF EndOp, InRecovery, Recovering, RecoveryInv, CommitInv, Active
<1>1. /\ UNCHANGED <<home, dhead, dlog, cache, pins, lh>>
      /\ outstanding' = outstanding - 1 /\ tail' = 1
  BY ZenonT(30) DEF EndOp, disk
<1>2. ~panicked' /\ ~panicked
  BY <1>0, Zenon DEF EndOp
<1>3. Active' = Active \ {p} /\ ~InRecovery'
  BY <1>0, Zenon DEF EndOp, TypeOK, Active, Wakeup, InRecovery, Recovering
<1>4. outstanding' \in Nat /\ outstanding' = Cardinality(Active')
  <2>1. outstanding = Cardinality(Active)
    BY ZenonT(30), <1>0 DEF CommitInv
  <2>2. IsFiniteSet(Active) /\ Cardinality(Active \ {p}) = Cardinality(Active) - 1
    BY <1>0, ActiveFinite, FS_RemoveElement, Zenon
  <2>3. Cardinality(Active \ {p}) \in Nat
    BY ZenonT(30), <2>2, FS_RemoveElement, FS_CardinalityType
  <2>. QED
    BY ZenonT(30), <1>1, <1>3, <2>1, <2>2, <2>3
<1>5. \A q \in Proc :
        /\ pc'[q] # "off" /\ pc'[q] # "install"
        /\ pc'[q] = "committed" => lh = <<>>
        /\ pc'[q] \in Committing => outstanding' = 0 /\ q = p
  BY <1>0 DEF EndOp, Wakeup, TypeOK, CommitInv, Committing
<1>6. \/ outstanding' = 0 /\ committing' /\ pc'[p] \in Committing
      \/ outstanding' # 0 /\ ~committing'
  <2>1. CASE outstanding' = 0
    <3>1. committing'
      BY <2>1, Zenon DEF EndOp
    <3>. QED
      BY <2>1, <3>1, Zenon DEF EndOp, TypeOK, Committing
  <2>2. CASE outstanding' # 0
    BY <2>2, <1>0, Zenon DEF EndOp
  <2>. QED
    BY ZenonT(30), <2>1, <2>2
<1>7. TypeOK'
  <2>1. pc' \in [Proc -> PC]
    BY ZenonT(30) DEF EndOp, Wakeup, TypeOK, PC, Committing
  <2>2. committing' \in BOOLEAN
    BY Zenon DEF EndOp, TypeOK
  <2>3. panicked' \in BOOLEAN
    BY Zenon DEF EndOp, TypeOK
  <2>4. wrote' \in [Proc -> SUBSET Block]
    BY ZenonT(30) DEF EndOp, TypeOK
  <2>. QED
    BY <1>1, <1>4, <2>1, <2>2, <2>3, <2>4 DEF TypeOK
<1>8. LogShape'
  BY ZenonT(30), <1>1 DEF LogShape, Distinct
<1>9. CommitInv'
  <2>1. dhead' = <<>>
    BY ZenonT(30), <1>0, <1>1 DEF CommitInv, Committing
  <2>2. \A i \in 1..Len(lh') : ~(i < tail')
    BY <1>1
  <2>. QED
    BY SMTT(30), <1>1, <1>4, <1>5, <1>6, <2>1, <2>2 DEF CommitInv, Committing
<1>10. PinInv'
  BY ZenonT(30), <1>0, <1>1, <1>2, <1>3, <1>5 DEF PinInv, Committing
<1>. QED
  BY ZenonT(30), <1>3, <1>7, <1>8, <1>9, <1>10 DEF RecoveryInv

(* The installed prefix of the log grows by one block; the blocks beyond it  *)
(* are untouched because the log names no block twice.                       *)
LEMMA InstallTransInv ==
  ASSUME IInv, NEW p \in Proc, InstallTrans(p)
  PROVE  IInv'
<1>. USE DEF IInv, LogInv
<1>. DEFINE b == lh[tail]
<1>1. tail \in 1..Len(lh) /\ tail \in Slot /\ b \in Block /\ dlog[tail] \in Value
  BY SizeAssumption DEF InstallTrans, Copied, Unpin, TypeOK, LogShape, Slot
<1>2. /\ home' = [home EXCEPT ![b] = dlog[tail]] /\ cache' = [cache EXCEPT ![b] = dlog[tail]]
      /\ tail' = tail + 1 /\ UNCHANGED <<dhead, dlog, lh, outstanding, committing, pc, wrote, panicked>>
  BY ZenonT(30) DEF InstallTrans, Copied, Unpin
<1>. HIDE DEF b
<1>3. InRecovery' = InRecovery /\ Active' = Active
  BY ZenonT(30), <1>2 DEF InRecovery, Active
<1>4. LogShape'
  BY ZenonT(30), <1>2 DEF LogShape, Distinct
<1>5. \A i \in 1..Len(lh) : i < tail' /\ i # tail => i < tail
  BY <1>1, <1>2
<1>6. lh[tail] = b /\ \A i \in 1..Len(lh) : i # tail => lh[i] # b
  BY ZenonT(30), <1>1 DEF b, LogShape, Distinct
<1>7. \A i \in 1..Len(lh) : lh[i] \in Block
  BY DEF TypeOK
<1>8. home \in [Block -> Value] /\ cache \in [Block -> Value] /\ pins \in [Block -> Nat]
  BY ZenonT(30) DEF TypeOK
<1>9. CASE InRecovery
  <2>1. p = Boot /\ pc[p] = "install_recovered" /\ pins' = pins
    BY ZenonT(30), <1>9 DEF InstallTrans, Copied, Unpin, RecoveryInv, Recovering
  <2>2. TypeOK'
    <3>1. home' \in [Block -> Value] /\ cache' \in [Block -> Value] /\ tail' \in Nat \ {0}
      BY <1>1, <1>2, <1>8
    <3>. QED
      BY ZenonT(30), <3>1, <2>1, <1>2 DEF TypeOK
  <2>3. \A i \in 1..Len(lh) : i < tail' => home'[lh[i]] = dlog[i]
    BY ZenonT(30), <1>1, <1>2, <1>5, <1>6, <1>7, <1>8, <1>9, <2>1 DEF RecoveryInv
  <2>4. RecoveryInv'
    BY <1>2, <1>9, <2>1, <2>3 DEF RecoveryInv
  <2>. QED
    BY ZenonT(30), <1>3, <1>4, <1>9, <2>2, <2>4 DEF CommitInv, PinInv
<1>10. CASE ~InRecovery
  <2>1. pc[p] = "install" /\ \A q \in Proc : pc[q] \in Committing => q = p
    BY ZenonT(30), <1>10, Committer DEF InstallTrans, Copied, Unpin, InRecovery, Recovering, Committing
  <2>2. /\ \A i \in 1..Len(lh) : dlog[i] = cache[lh[i]]
        /\ \A i \in 1..Len(lh) : i < tail => home[lh[i]] = cache[lh[i]]
    BY ZenonT(30), <1>10, <2>1 DEF CommitInv
  <2>3. cache' = cache
    BY ZenonT(30), <1>1, <1>2, <1>6, <1>8, <2>2
  <2>4. pins[b] = 1 /\ pins' = [pins EXCEPT ![b] = 0]
    <3>1. pins[b] = 1
      BY <1>1, <1>6, <1>10, <2>1 DEF PinInv
    <3>. QED
      BY <3>1, <1>8, <2>1 DEF InstallTrans, Copied, Unpin, b
  <2>5. TypeOK'
    <3>1. home' \in [Block -> Value] /\ pins' \in [Block -> Nat] /\ tail' \in Nat \ {0}
      BY <1>1, <1>2, <1>8, <2>4
    <3>. QED
      BY ZenonT(30), <3>1, <2>3, <1>2 DEF TypeOK
  <2>6. \A i \in 1..Len(lh) : i < tail' => home'[lh[i]] = cache[lh[i]]
    BY ZenonT(30), <1>1, <1>2, <1>5, <1>6, <1>7, <1>8, <2>2
  <2>7. CommitInv'
    <3>1. \A q \in Proc : pc[q] # "write_log"
      BY ZenonT(30), <2>1 DEF Committing
    <3>. QED
      BY <1>2, <1>3, <1>10, <2>2, <2>3, <2>6, <3>1 DEF CommitInv
  <2>8. PinInv'
    <3>. SUFFICES ASSUME NEW c \in Block
                  PROVE  LET pinned == \E i \in 1..Len(lh) : lh[i] = c /\ i >= tail'
                         IN  /\ pins'[c] = IF pinned THEN 1 ELSE 0
                             /\ ~panicked /\ ~pinned => cache'[c] = home'[c]
      BY ZenonT(30), <1>2, <1>3, <1>10, <2>1 DEF PinInv
    <3>1. LET pinned == \E i \in 1..Len(lh) : lh[i] = c /\ i >= tail
          IN  /\ pins[c] = IF pinned THEN 1 ELSE 0
              /\ ~panicked /\ ~pinned => cache[c] = home[c]
      BY ZenonT(30), <1>10, <2>1 DEF PinInv
    <3>2. CASE c = b
      BY <1>1, <1>2, <1>6, <1>8, <2>2, <2>3, <2>4, <3>2
    <3>3. CASE c # b
      <4>1. (\E i \in 1..Len(lh) : lh[i] = c /\ i >= tail) <=>
            (\E i \in 1..Len(lh) : lh[i] = c /\ i >= tail')
        BY <1>1, <1>2, <1>6, <3>3
      <4>. QED
        BY ZenonT(30), <1>2, <1>8, <2>3, <2>4, <3>1, <3>3, <4>1
    <3>. QED
      BY ZenonT(30), <3>2, <3>3
  <2>. QED
    BY ZenonT(30), <1>3, <1>4, <1>10, <2>5, <2>7, <2>8 DEF RecoveryInv
<1>. QED
  BY ZenonT(30), <1>9, <1>10

(* Once the whole log is installed the disk is what the header promised, so  *)
(* the header may be erased.                                                 *)
LEMMA ClearHeadInv ==
  ASSUME IInv, NEW p \in Proc, ClearHead(p)
  PROVE  IInv'
<1>. USE DEF IInv, LogInv
<1>1. /\ UNCHANGED <<home, dlog, cache, pins, outstanding, committing, tail, wrote, panicked>>
      /\ lh' = <<>> /\ dhead' = <<>>
  BY ZenonT(30) DEF ClearHead, Copied
<1>2. \A i \in 1..Len(lh) : i < tail
  BY DEF ClearHead, Copied, TypeOK
<1>3. LogShape'
  BY <1>1, SizeAssumption DEF LogShape, Distinct
<1>4. ~InRecovery' /\ pc' \in [Proc -> PC] /\ \A q \in Proc : pc'[q] # "off"
  <2>1. CASE InRecovery
    <3>1. pc' = [q \in Proc |-> "user"]
      BY ZenonT(30), <2>1 DEF ClearHead, Copied, RecoveryInv, Recovering
    <3>. QED
      BY ZenonT(30), <3>1 DEF InRecovery, Recovering, PC
  <2>2. CASE ~InRecovery
    <3>1. pc' = [pc EXCEPT ![p] = "committed"]
      BY ZenonT(30), <2>2 DEF ClearHead, Copied, InRecovery, Recovering
    <3>2. pc \in [Proc -> PC] /\ \A q \in Proc : pc[q] # "off"
      BY ZenonT(30), <2>2 DEF TypeOK, CommitInv
    <3>. QED
      BY ZenonT(30), <2>2, <3>1, <3>2 DEF InRecovery, Recovering, PC, Committing
  <2>. QED
    BY ZenonT(30), <2>1, <2>2
<1>5. TypeOK'
  BY SMTT(30), <1>1, <1>4 DEF TypeOK
<1>6. CASE InRecovery
  <2>1. pc' = [q \in Proc |-> "user"]
    BY ZenonT(30), <1>6 DEF ClearHead, Copied, RecoveryInv, Recovering
  <2>2. Active' = {} /\ \A q \in Proc : pc'[q] \notin Committing
    BY ZenonT(30), <2>1 DEF Active, Committing
  <2>3. outstanding = 0 /\ ~committing /\ cache = home /\ \A b \in Block : pins[b] = 0
    BY ZenonT(30), <1>6 DEF RecoveryInv
  <2>4. CommitInv'
    BY ZenonT(30), <1>1, <1>4, <2>2, <2>3, FS_EmptySet DEF CommitInv, Committing
  <2>5. PinInv'
    BY <1>1, <2>3, SMTT(30) DEF PinInv
  <2>. QED
    BY ZenonT(30), <1>3, <1>4, <1>5, <2>4, <2>5 DEF RecoveryInv
<1>7. CASE ~InRecovery
  <2>1. /\ pc[p] = "install" /\ pc' = [pc EXCEPT ![p] = "committed"]
        /\ \A q \in Proc : pc[q] \in Committing => q = p
        /\ committing /\ outstanding = 0 /\ Active = {}
    BY ZenonT(30), <1>7, Committer DEF ClearHead, Copied, InRecovery, Recovering, Committing
  <2>2. \A q \in Proc : pc'[q] = IF q = p THEN "committed" ELSE pc[q]
    BY ZenonT(30), <2>1 DEF TypeOK
  <2>3. Active' = {}
    BY <2>1, <2>2, SMTT(30) DEF Active
  <2>4. CommitInv'
    BY ZenonT(60), <1>1, <1>4, <2>1, <2>2, <2>3, FS_EmptySet DEF CommitInv, Committing
  <2>5. PinInv'
    <3>1. \A i \in 1..Len(lh) : ~(i >= tail)
      BY <1>2 DEF TypeOK
    <3>. QED
      BY <1>1, <1>7, <2>1, <3>1 DEF PinInv
  <2>. QED
    BY ZenonT(30), <1>3, <1>4, <1>5, <2>4, <2>5 DEF RecoveryInv
<1>. QED
  BY ZenonT(30), <1>6, <1>7

(* IInv holds in every state of every behaviour of the log.                  *)
THEOREM Invariance == Spec => []IInv
<1>1. IInv /\ [Next]_vars => IInv'
  <2>. SUFFICES ASSUME IInv, [Next]_vars PROVE IInv'
    BY ZenonT(30)
  <2>1. CASE UNCHANGED vars
    BY <2>1 DEF vars, IInv, LogInv, TypeOK, LogShape, RecoveryInv, CommitInv, PinInv,
                InRecovery, Active, Distinct
  <2>2. CASE Next
    BY ZenonT(30), <2>2, ReadHeadInv, InstallTransInv, ClearHeadInv, BeginOpInv, LogWriteInv,
       EndOpInv, WriteLogInv, WriteHeadInv, EndCommitInv, RecycleInv, CrashInv
       DEF Next, Recover, Write, Commit
  <2>. QED
    BY ZenonT(30), <2>1, <2>2
<1>. QED
  BY <1>1, InitInv, PTL DEF Spec

-----------------------------------------------------------------------------
(* The variables keep their types: in particular outstanding and the pin     *)
(* counts never go below zero, and the log never names a block outside the   *)
(* file system.                                                              *)
THEOREM TypeCorrect == Spec => []TypeOK
<1>1. IInv => TypeOK
  BY ZenonT(30) DEF IInv
<1>. QED
  BY <1>1, Invariance, PTL

(* Between any two steps, a crash among them: the header lists distinct       *)
(* blocks and fits, recovery redoes what commit() may have left half done,    *)
(* commit() works on a log nobody changes, and the pins are log_write()'s.    *)
THEOREM LogSound == Spec => []LogInv
<1>1. IInv => LogInv
  BY ZenonT(30) DEF IInv
<1>. QED
  BY <1>1, Invariance, PTL

(* commit(), which holds no lock, runs alone.                                *)
THEOREM CommitExclusion == Spec => []CommitExcludesOps
<1>1. IInv => CommitExcludesOps
  BY ZenonT(30), Committer DEF CommitExcludesOps, Active
<1>. QED
  BY <1>1, Invariance, PTL

(* Recycling a buffer loses no update.                                       *)
THEOREM PinningSuffices == Spec => []UnpinnedClean
<1>1. IInv => UnpinnedClean
  <2>. SUFFICES ASSUME IInv, ~panicked, NEW b \in Block, pins[b] = 0
                PROVE  cache[b] = home[b]
    BY ZenonT(30) DEF UnpinnedClean
  <2>1. CASE InRecovery
    BY ZenonT(30), <2>1 DEF IInv, LogInv, RecoveryInv
  <2>2. CASE ~InRecovery
    <3>. DEFINE pinned == \E i \in 1..Len(lh) :
                            lh[i] = b /\ ((\E p \in Proc : pc[p] = "install") => i >= tail)
    <3>1. (pins[b] = IF pinned THEN 1 ELSE 0) /\ (~pinned => cache[b] = home[b])
      BY ZenonT(60), <2>2 DEF IInv, LogInv, PinInv
    <3>. HIDE DEF pinned
    <3>. QED
      BY <3>1
  <2>. QED
    BY ZenonT(30), <2>1, <2>2
<1>. QED
  BY <1>1, Invariance, PTL

-----------------------------------------------------------------------------
(* Log implements AtomicDisk. *)

(* What a crash leaves, block by block. *)
LEMMA DurableBlocks ==
  ASSUME IInv
  PROVE  /\ Durable = [b \in Block |-> Durable[b]]
         /\ \A i \in 1..Len(dhead) : Durable[dhead[i]] = dlog[i]
         /\ \A b \in Block : ~In(b, dhead) => Durable[b] = home[b]
<1>1. \A b \in Block : Durable[b] = IF In(b, dhead)
                   THEN dlog[CHOOSE i \in 1..Len(dhead) : dhead[i] = b]
                   ELSE home[b]
  BY ZenonT(30) DEF Durable
<1>2. ASSUME NEW i \in 1..Len(dhead)
      PROVE  Durable[dhead[i]] = dlog[i]
  <2>1. dhead[i] \in Block /\ In(dhead[i], dhead)
    BY DEF IInv, TypeOK, In
  <2>2. (CHOOSE j \in 1..Len(dhead) : dhead[j] = dhead[i]) = i
    BY ZenonT(30) DEF IInv, LogInv, LogShape, Distinct
  <2>. QED
    BY <1>1, <2>1, <2>2, Zenon
<1>3. Durable = [b \in Block |-> Durable[b]]
  <2>. DEFINE D(b) == IF In(b, dhead)
                      THEN dlog[CHOOSE i \in 1..Len(dhead) : dhead[i] = b]
                      ELSE home[b]
  <2>1. Durable = [b \in Block |-> D(b)]
    BY ZenonT(30) DEF Durable
  <2>. HIDE DEF D
  <2>. QED
    BY ZenonT(30), <2>1
<1>. QED
  BY ZenonT(30), <1>1, <1>2, <1>3

LEMMA DurableHome ==
  ASSUME IInv,
         \A i \in 1..Len(dhead) : home[dhead[i]] = dlog[i]
  PROVE  Durable = home
<1>1. \A b \in Block : Durable[b] = home[b]
  BY DurableBlocks DEF In
<1>2. home = [b \in Block |-> home[b]]
  BY ZenonT(30) DEF IInv, TypeOK
<1>. QED
  BY ZenonT(30), <1>1, <1>2, DurableBlocks

LEMMA EmptyHeadDurable ==
  ASSUME IInv, dhead = <<>>
  PROVE  Durable = home
<1>1. \A i \in 1..Len(dhead) : home[dhead[i]] = dlog[i]
  OBVIOUS
<1>. QED
  BY ZenonT(30), <1>1, DurableHome

(* Installing a block the header names changes nothing that a crash leaves.  *)
LEMMA InstallKeepsDurable ==
  ASSUME IInv, NEW p \in Proc, InstallTrans(p)
  PROVE  Durable' = Durable /\ Mem' = Mem /\ Active' = Active
<1>1. tail \in 1..Len(lh) /\ tail \in Slot /\ lh[tail] \in Block
  BY SMTT(30), SizeAssumption DEF InstallTrans, Copied, Unpin, IInv, LogInv, TypeOK, LogShape, Slot
<1>2. /\ home' = [home EXCEPT ![lh[tail]] = dlog[tail]]
      /\ UNCHANGED <<dhead, dlog, lh, pc>>
  BY ZenonT(30) DEF InstallTrans, Copied, Unpin
<1>3. lh = dhead
  BY ZenonT(30), Committer DEF InstallTrans, Copied, Unpin, IInv, LogInv, RecoveryInv, CommitInv, InRecovery,
                   Recovering, Committing
<1>4. In(lh[tail], dhead)
  BY ZenonT(30), <1>1, <1>3 DEF In
<1>5. \A b \in Block : ~In(b, dhead) => home'[b] = home[b]
  BY ZenonT(30), <1>2, <1>4 DEF IInv, TypeOK
<1>6. Durable' = Durable
  BY ZenonT(30), <1>2, <1>5 DEF Durable, In
<1>7. ~InRecovery => cache' = cache
  <2>. SUFFICES ASSUME ~InRecovery PROVE cache' = cache
    BY ZenonT(30)
  <2>1. pc[p] = "install"
    BY ZenonT(30) DEF InstallTrans, Copied, Unpin, InRecovery, Recovering
  <2>2. dlog[tail] = cache[lh[tail]]
    BY ZenonT(30), <1>1, <2>1 DEF IInv, LogInv, CommitInv
  <2>. QED
    BY ZenonT(30), <2>2 DEF InstallTrans, Copied, Unpin, IInv, TypeOK
<1>8. InRecovery' = InRecovery /\ Active' = Active
  BY ZenonT(30), <1>2 DEF InRecovery, Active
<1>. QED
  BY ZenonT(30), <1>6, <1>7, <1>8 DEF Mem

LEMMA ClearKeepsDurable ==
  ASSUME IInv, IInv', NEW p \in Proc, ClearHead(p)
  PROVE  Durable' = Durable /\ Mem' = Mem /\ Active' = Active
<1>0. UNCHANGED <<home, cache>> /\ dhead' = <<>> /\ tail > Len(lh)
  BY Zenon DEF ClearHead, Copied
<1>a. tail \in Nat /\ Len(lh) \in Nat
  BY DEF IInv, TypeOK
<1>1. UNCHANGED <<home, cache>> /\ dhead' = <<>> /\ \A i \in 1..Len(lh) : i < tail
  BY <1>0, <1>a
<1>2. lh = dhead /\ \A i \in 1..Len(dhead) : home[dhead[i]] = dlog[i]
  <2>1. CASE InRecovery
    <3>1. pc[Boot] = "install_recovered"
      BY <2>1, ZenonT(30) DEF ClearHead, IInv, LogInv, RecoveryInv, Recovering
    <3>. QED
      BY <1>1, <2>1, <3>1, ZenonT(30) DEF IInv, LogInv, RecoveryInv
  <2>2. CASE ~InRecovery
    <3>1. pc[p] = "install"
      BY ZenonT(30), <2>2 DEF ClearHead, InRecovery, Recovering
    <3>. QED
      BY ZenonT(30), <1>1, <2>2, <3>1 DEF IInv, LogInv, CommitInv
  <2>. QED
    BY <2>1, <2>2, ZenonT(30)
<1>3. Durable = home
  BY ZenonT(30), <1>2, DurableHome
<1>4. Durable' = home'
  BY <1>1 DEF Durable, In, IInv, TypeOK
<1>5. InRecovery => cache = home
  BY ZenonT(30) DEF IInv, LogInv, RecoveryInv
<1>6. ~InRecovery' /\ Active' = Active
  <2>1. CASE InRecovery
    <3>1. pc' = [q \in Proc |-> "user"] /\ Active = {}
      BY ZenonT(30), <2>1 DEF ClearHead, Copied, IInv, LogInv, RecoveryInv, Recovering, Active
    <3>. QED
      BY ZenonT(30), <3>1 DEF InRecovery, Recovering, Active
  <2>2. CASE ~InRecovery
    <3>1. pc[p] = "install" /\ pc' = [pc EXCEPT ![p] = "committed"]
      BY ZenonT(30), <2>2 DEF ClearHead, Copied, InRecovery, Recovering
    <3>. QED
      BY ZenonT(30), <2>2, <3>1 DEF InRecovery, Recovering, Active, IInv, TypeOK
  <2>. QED
    BY ZenonT(30), <2>1, <2>2
<1>. QED
  BY ZenonT(30), <1>1, <1>3, <1>4, <1>5, <1>6 DEF Mem

(* The commit point: the one write of the header makes the blocks the        *)
(* operations left in the cache, and no others, the durable ones.            *)
LEMMA WriteHeadCommits ==
  ASSUME IInv, NEW p \in Proc, WriteHead(p)
  PROVE  Abs!Commit
<1>1. ~InRecovery /\ Active = {} /\ ~panicked /\ \A q \in Proc : pc[q] # "install"
  BY ZenonT(30), Committer DEF WriteHead, Copied, Committing
<1>2. /\ pc' = [pc EXCEPT ![p] = "install"]
      /\ dhead' = lh /\ UNCHANGED <<home, dlog, cache>>
  BY ZenonT(30) DEF WriteHead, Copied
<1>3. ~InRecovery' /\ Active' = Active
  BY ZenonT(30), <1>1, <1>2 DEF InRecovery, Recovering, Active, WriteHead, IInv, TypeOK
<1>4. \A i \in 1..Len(lh) : dlog[i] = cache[lh[i]]
  BY <1>1 DEF WriteHead, Copied, IInv, LogInv, CommitInv, TypeOK
<1>5. \A b \in Block : ~In(b, lh) => cache[b] = home[b]
  BY ZenonT(30), <1>1 DEF IInv, LogInv, PinInv, In
<1>6. Durable' = cache
  <2>. DEFINE D(b) == IF In(b, lh)
                      THEN dlog[CHOOSE i \in 1..Len(lh) : lh[i] = b]
                      ELSE home[b]
  <2>1. Durable' = [b \in Block |-> D(b)]
    BY ZenonT(30), <1>2, DurableNext
  <2>2. ASSUME NEW b \in Block PROVE D(b) = cache[b]
    BY ZenonT(30), <1>4, <1>5 DEF In
  <2>. HIDE DEF D
  <2>. QED
    BY ZenonT(30), <2>1, <2>2 DEF IInv, TypeOK
<1>. QED
  BY ZenonT(30), <1>1, <1>2, <1>3, <1>6 DEF Abs!Commit, Mem

(* A new group starts only on a durable one.                                 *)
LEMMA BeginOpBegins ==
  ASSUME IInv, NEW p \in Proc, BeginOp(p)
  PROVE  Abs!Begin(p) \/ UNCHANGED Abs!vars
<1>1. ~InRecovery /\ ~InRecovery'
  BY ZenonT(30) DEF BeginOp, MustWait, InRecovery, Recovering, RecoveryInv, IInv, LogInv, TypeOK
<1>2. UNCHANGED <<home, dhead, dlog, cache, lh>>
  BY ZenonT(30) DEF BeginOp, MustWait, disk
<1>3. Durable' = Durable /\ Mem' = Mem
  BY ZenonT(30), <1>1, <1>2 DEF Durable, In, Mem
<1>4. CASE pc' = [pc EXCEPT ![p] = "sleep"]
  <2>1. Active' = Active
    BY ZenonT(30), <1>4 DEF BeginOp, MustWait, Active, IInv, TypeOK
  <2>. QED
    BY ZenonT(30), <1>3, <2>1 DEF Abs!vars
<1>5. CASE pc' = [pc EXCEPT ![p] = "op"] /\ ~committing
  <2>1. Active' = Active \cup {p} /\ p \notin Active
    BY ZenonT(30), <1>5 DEF BeginOp, MustWait, Active, IInv, TypeOK
  <2>2. ASSUME Active = {} PROVE Durable = Mem
    <3>1. outstanding = 0
      BY ZenonT(30), <2>2, <1>1, FS_EmptySet DEF IInv, LogInv, CommitInv
    <3>2. lh = <<>> /\ dhead = <<>>
      BY ZenonT(30), <1>1, <1>5, <3>1 DEF IInv, LogInv, CommitInv, Committing
    <3>3. ~panicked
      BY ZenonT(30) DEF BeginOp, MustWait
    <3>4. \A b \in Block : cache[b] = home[b]
      BY <1>1, <3>2, <3>3 DEF IInv, LogInv, PinInv
    <3>5. cache = home
      BY <3>4 DEF IInv, TypeOK
    <3>. QED
      BY ZenonT(30), <1>1, <3>2, <3>5, EmptyHeadDurable DEF Mem
  <2>. QED
    BY ZenonT(30), <1>3, <2>1, <2>2 DEF Abs!Begin
<1>. QED
  BY <1>4, <1>5, Zenon DEF BeginOp, MustWait

(* Every step of log.c is a step of the atomic disk, or invisible to it.     *)
LEMMA StepRefines ==
  ASSUME IInv, IInv', [Next]_vars
  PROVE  [Abs!Next]_(Abs!vars)
<1>1. CASE UNCHANGED vars
  BY ZenonT(30), <1>1 DEF vars, Abs!vars, Mem, Durable, Active, InRecovery, In
<1>2. ASSUME NEW p \in Proc, ReadHead(p)
      PROVE  UNCHANGED Abs!vars
  <2>1. InRecovery /\ InRecovery' /\ Active' = Active
    BY ZenonT(30), <1>2 DEF ReadHead, InRecovery, Recovering, Active, IInv, TypeOK
  <2>2. Durable' = Durable
    BY ZenonT(30), <1>2 DEF ReadHead, disk, Durable, In
  <2>. QED
    BY ZenonT(30), <2>1, <2>2 DEF Abs!vars, Mem
<1>3. ASSUME NEW p \in Proc, InstallTrans(p) \/ ClearHead(p)
      PROVE  UNCHANGED Abs!vars
  BY ZenonT(30), <1>3, InstallKeepsDurable, ClearKeepsDurable DEF Abs!vars
<1>4. ASSUME NEW p \in Proc, NEW b \in Block, NEW v \in Value, LogWrite(p, b, v)
      PROVE  Abs!Write(p, b, v)
  <2>1. ~InRecovery /\ ~InRecovery' /\ p \in Active /\ Active' = Active
    BY <1>4, Zenon DEF LogWrite, Pin, InRecovery, Recovering, RecoveryInv, IInv, LogInv, TypeOK, Active
  <2>2. Durable' = Durable /\ cache' = [cache EXCEPT ![b] = v]
    BY <1>4, Zenon DEF LogWrite, Pin, disk, Durable, In
  <2>. QED
    BY ZenonT(30), <2>1, <2>2 DEF Abs!Write, Mem
<1>5. ASSUME NEW p \in Proc, EndOp(p)
      PROVE  Abs!End(p)
  <2>1. ~InRecovery /\ ~InRecovery' /\ p \in Active /\ Active' = Active \ {p}
    BY ZenonT(30), <1>5 DEF EndOp, Wakeup, InRecovery, Recovering, RecoveryInv, IInv, LogInv, TypeOK, Active
  <2>2. Durable' = Durable /\ cache' = cache
    BY ZenonT(30), <1>5 DEF EndOp, disk, Durable, In
  <2>. QED
    BY ZenonT(30), <2>1, <2>2 DEF Abs!End, Mem
<1>6. ASSUME NEW p \in Proc, WriteLog(p)
      PROVE  UNCHANGED Abs!vars
  <2>1. ~InRecovery /\ dhead = <<>>
    BY <1>6, Committer, ZenonT(30) DEF WriteLog, Copied, IInv, LogInv, CommitInv, Committing
  <2>2. ~InRecovery' /\ Active' = Active /\ UNCHANGED <<home, dhead, cache>>
    BY <1>6, <2>1, Zenon DEF WriteLog, Copied, InRecovery, Active
  <2>3. Durable' = Durable
    <3>1. Durable = home
      BY ZenonT(30), <2>1, EmptyHeadDurable
    <3>2. Durable' = home'
      BY <2>1, <2>2 DEF Durable, In, IInv, TypeOK
    <3>. QED
      BY ZenonT(30), <3>1, <3>2, <2>2
  <2>. QED
    BY ZenonT(30), <2>1, <2>2, <2>3 DEF Abs!vars, Mem
<1>7. ASSUME NEW p \in Proc, EndCommit(p)
      PROVE  UNCHANGED Abs!vars
  <2>1. ~InRecovery
    BY ZenonT(30), <1>7, Committer DEF EndCommit, Committing
  <2>2. ~InRecovery' /\ Active' = Active
    BY ZenonT(30), <1>7, <2>1 DEF EndCommit, Wakeup, InRecovery, Recovering, Active, IInv, TypeOK
  <2>3. Durable' = Durable /\ cache' = cache
    BY <1>7, Zenon DEF EndCommit, disk, Durable, In
  <2>. QED
    BY ZenonT(30), <2>1, <2>2, <2>3 DEF Abs!vars, Mem
<1>8. ASSUME NEW b \in Block, Recycle(b)
      PROVE  UNCHANGED Abs!vars
  <2>1. cache[b] = home[b]
    BY <1>8 DEF Recycle, IInv, LogInv, RecoveryInv, PinInv
  <2>2. cache' = cache /\ InRecovery' = InRecovery /\ Active' = Active
    BY ZenonT(30), <1>8, <2>1 DEF Recycle, IInv, TypeOK, InRecovery, Active
  <2>3. Durable' = Durable
    BY ZenonT(30), <1>8 DEF Recycle, disk, Durable, In
  <2>. QED
    BY ZenonT(30), <2>2, <2>3 DEF Abs!vars, Mem
<1>9. CASE Crash
  <2>1. InRecovery' /\ Active' = {}
    BY ZenonT(30), <1>9, ProcAssumption DEF Crash, Booting, InRecovery, Recovering, Active
  <2>2. Durable' = Durable
    BY ZenonT(30), <1>9 DEF Crash, disk, Durable, In
  <2>. QED
    BY ZenonT(30), <2>1, <2>2 DEF Abs!Next, Abs!Crash, Mem
<1>. QED
  BY ZenonT(30), <1>1, <1>2, <1>3, <1>4, <1>5, <1>6, <1>7, <1>8, <1>9, BeginOpBegins, WriteHeadCommits
     DEF Next, Recover, Write, Commit, Abs!Next

(* The redo log implements the atomic disk: a group of operations reaches    *)
(* the disk entirely or not at all, at whatever step of whichever commit or  *)
(* recovery the machine stops, for any number of processes and blocks.       *)
THEOREM Refinement == Spec => RefinesAtomicDisk
<1>1. Init => Abs!Init
  <2>. SUFFICES ASSUME Init PROVE Abs!Init
    BY ZenonT(30)
  <2>1. IInv /\ InRecovery /\ Active = {}
    BY ZenonT(30), InitInv, ProcAssumption DEF Init, Booting, InRecovery, Recovering, Active
  <2>2. Durable = home
    BY ZenonT(30), <2>1, EmptyHeadDurable DEF Init
  <2>. QED
    BY ZenonT(30), <2>1, <2>2 DEF Abs!Init, Mem, Init
<1>2. IInv /\ IInv' /\ [Next]_vars => [Abs!Next]_(Abs!vars)
  BY ZenonT(30), StepRefines
<1>. QED
  BY <1>1, <1>2, Invariance, PTL DEF Spec, RefinesAtomicDisk, Abs!Spec
=============================================================================
