------------------------------ MODULE Console -------------------------------
(* Console input (kernel/console.c): consoleread() hands out by lines what    *)
(* consoleintr() has edited and stored.  cons.lock is held from acquire() to  *)
(* release(); sleep() gives it up.                                            *)
EXTENDS Uart

CONSTANTS
  Reader,      \* processes in read()
  Letter,      \* ordinary characters
  INPUT_BUF,
  UINT,        \* number of values of a uint
  MaxRead      \* largest n of a read()

(* 2^32 is a multiple of INPUT_BUF. *)
ASSUME InputAssumption ==
  INPUT_BUF \in Nat \ {0} /\ MaxRead \in Nat /\ \E k \in 2..UINT : UINT = k * INPUT_BUF
ASSUME ReaderAssumption == {None, Intr} \cap Reader = {} /\ Letter \cap {"newline", "C-D", "C-H", "C-U"} = {}

Char == Letter \cup {"newline", "C-D"}

VARIABLES
  buf, r, w, e,   \* cons
  conslock,       \* who holds cons.lock
  rpc,            \* where each reader is
  left, got,      \* n, and what the read has copied out
  killed

cons == <<buf, r, w, e>>
readers == <<rpc, left, got, killed>>
consvars == <<cons, conslock, readers>>

ConsInit ==
  /\ buf = [i \in 0..(INPUT_BUF - 1) |-> "newline"]
  /\ r = 0 /\ w = 0 /\ e = 0 /\ conslock = None
  /\ rpc = [p \in Reader |-> "idle"] /\ left = [p \in Reader |-> 0]
  /\ got = [p \in Reader |-> <<>>] /\ killed = [p \in Reader |-> FALSE]

Plus(x, k) == (x + k) % UINT
Incr(x) == Plus(x, 1)

-----------------------------------------------------------------------------
(* consoleread() *)

ReadCall(p, n) ==
  /\ rpc[p] = "idle" /\ ~killed[p]
  /\ rpc' = [rpc EXCEPT ![p] = "lock"]
  /\ left' = [left EXCEPT ![p] = n]
  /\ UNCHANGED <<cons, conslock, got, killed>>

ReadLock(p) ==
  /\ rpc[p] = "lock" /\ conslock = None
  /\ conslock' = p
  /\ rpc' = [rpc EXCEPT ![p] = "read"]
  /\ UNCHANGED <<cons, left, got, killed>>

Return(p) ==
  /\ conslock' = None
  /\ rpc' = [rpc EXCEPT ![p] = "idle"]
  /\ left' = [left EXCEPT ![p] = 0]
  /\ got' = [got EXCEPT ![p] = <<>>]

ReadWaits(p) ==
  /\ rpc[p] = "read" /\ left[p] > 0 /\ r = w
  /\ IF killed[p] THEN Return(p)
     ELSE rpc' = [rpc EXCEPT ![p] = "wait"] /\ UNCHANGED <<conslock, left, got>>
  /\ UNCHANGED <<cons, killed>>

(* A kill() since that check does not keep it from sleeping. *)
Sleep(p) ==
  /\ rpc[p] = "wait"
  /\ conslock' = None
  /\ rpc' = [rpc EXCEPT ![p] = "sleep"]
  /\ UNCHANGED <<cons, left, got, killed>>

(* The next character: an end-of-file stays unless it is the first. *)
EofLeft(p) == got[p] = <<>>

(* A place that has been read or erased is dead and set to "newline". *)
Forget(i) == buf' = [buf EXCEPT ![i % INPUT_BUF] = "newline"]

ReadChar(p) ==
  LET c == buf[r % INPUT_BUF]
  IN  /\ rpc[p] = "read" /\ left[p] > 0 /\ r # w
      /\ IF c # "C-D" \/ EofLeft(p) THEN r' = Incr(r) /\ Forget(r) ELSE UNCHANGED <<r, buf>>
      /\ IF c = "C-D" \/ c = "newline" THEN Return(p)
         ELSE /\ left' = [left EXCEPT ![p] = @ - 1]
              /\ got' = [got EXCEPT ![p] = Append(@, c)]
              /\ UNCHANGED <<conslock, rpc>>
      /\ UNCHANGED <<w, e, killed>>

(* either_copyout() fails. *)
ReadBreaks(p) ==
  /\ rpc[p] = "read" /\ left[p] > 0 /\ r # w /\ buf[r % INPUT_BUF] # "C-D"
  /\ r' = Incr(r) /\ Forget(r)
  /\ Return(p)
  /\ UNCHANGED <<w, e, killed>>

ReadDone(p) ==
  /\ rpc[p] = "read" /\ left[p] = 0
  /\ Return(p)
  /\ UNCHANGED <<cons, killed>>

Kill(p) ==
  /\ ~killed[p] \/ rpc[p] = "sleep"
  /\ killed' = [killed EXCEPT ![p] = TRUE]
  /\ rpc' = [rpc EXCEPT ![p] = IF @ = "sleep" THEN "lock" ELSE @]
  /\ UNCHANGED <<cons, conslock, left, got>>

(* usertrap(): a killed process exits; another one may read after it. *)
Exit(p) ==
  /\ rpc[p] = "idle" /\ killed[p]
  /\ killed' = [killed EXCEPT ![p] = FALSE]
  /\ UNCHANGED <<cons, conslock, rpc, left, got>>

Read(p) ==
  \/ \E n \in 0..MaxRead : ReadCall(p, n)
  \/ ReadLock(p) \/ ReadWaits(p) \/ Sleep(p) \/ ReadChar(p) \/ ReadBreaks(p) \/ ReadDone(p)
  \/ Kill(p) \/ Exit(p)

-----------------------------------------------------------------------------
(* What consoleintr() does to cons. *)
WakeupNot == UNCHANGED rpc
Wakeup == rpc' = [p \in Reader |-> IF rpc[p] = "sleep" THEN "lock" ELSE rpc[p]]

HasRoom == Plus(e, UINT - r) < INPUT_BUF

(* Newline and end-of-file end the line, and so does the last free place. *)
EndsInput(c) == c \in {"newline", "C-D"} \/ Incr(e) = Plus(r, INPUT_BUF)

Store(c) ==
  /\ buf' = [buf EXCEPT ![e % INPUT_BUF] = c]
  /\ e' = Incr(e)
  /\ IF EndsInput(c) THEN w' = Incr(e) /\ Wakeup ELSE UNCHANGED <<w, rpc>>
  /\ UNCHANGED <<r, left, got, killed>>

(* Backspace; kill-line goes back to the end of the line before. *)
ErasesAll(c) == e # r
Erases(c) == e # w /\ (c = "C-U" => buf[Plus(e, UINT - 1) % INPUT_BUF] # "newline")
Erase == e' = Plus(e, UINT - 1) /\ Forget(Plus(e, UINT - 1)) /\ UNCHANGED <<r, w, readers>>
=============================================================================
