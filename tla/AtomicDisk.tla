----------------------------- MODULE AtomicDisk -----------------------------
(* What the logging layer promises its callers: file system operations     *)
(* (the code between begin_op and end_op) run in groups, a group becomes    *)
(* durable in one step once all of its operations have ended, and a crash   *)
(* loses exactly the groups that are not yet durable.                       *)

CONSTANTS Proc, Block, Value

VARIABLES
  mem,        \* what a reader of the file system sees
  durable,    \* what a crash now would leave
  active      \* the processes between begin_op and end_op

vars == <<mem, durable, active>>

Init ==
  /\ mem \in [Block -> Value]
  /\ durable = mem
  /\ active = {}

(* A group starts only when the previous one is durable. *)
Begin(p) ==
  /\ p \notin active
  /\ active = {} => durable = mem
  /\ active' = active \cup {p}
  /\ UNCHANGED <<mem, durable>>

Write(p, b, v) ==
  /\ p \in active
  /\ mem' = [mem EXCEPT ![b] = v]
  /\ UNCHANGED <<durable, active>>

End(p) ==
  /\ p \in active
  /\ active' = active \ {p}
  /\ UNCHANGED <<mem, durable>>

Commit ==
  /\ active = {}
  /\ durable' = mem
  /\ UNCHANGED <<mem, active>>

Crash ==
  /\ mem' = durable
  /\ active' = {}
  /\ UNCHANGED durable

Next ==
  \/ \E p \in Proc : Begin(p) \/ End(p)
  \/ \E p \in Proc, b \in Block, v \in Value : Write(p, b, v)
  \/ Commit
  \/ Crash

Spec == Init /\ [][Next]_vars
=============================================================================
