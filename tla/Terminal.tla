------------------------------ MODULE Terminal ------------------------------
(* The console's two halves together: uartintr() takes what is typed to       *)
(* consoleintr(), which echoes it past the output queue and stores it under   *)
(* cons.lock, then sends what is queued (kernel/console.c, kernel/uart.c).    *)
EXTENDS Console

VARIABLE typed    \* consoleintr()'s argument

vars == <<consvars, uartvars, typed>>
outvars == <<ring, txlock, wpc, hand>>

Init == ConsInit /\ UartInit /\ typed = None

Key == Char \cup {"C-H", "C-U"}

(* A character comes in, which interrupts too. *)
Receive ==
  /\ ~irq
  /\ irq' = TRUE
  /\ UNCHANGED <<consvars, outvars, ipc, fifo, typed>>

Uartintr ==
  /\ ipc = "idle" /\ irq
  /\ irq' = FALSE
  /\ ipc' = "getc"
  /\ UNCHANGED <<consvars, outvars, fifo, typed>>

(* A character may have come at any time, with its interrupt or before it.    *)
Uartgetc(c) ==
  /\ ipc = "getc"
  /\ typed' = c
  /\ ipc' = IF c = None THEN "lock" ELSE "cons"
  /\ UNCHANGED <<consvars, outvars, fifo, irq>>

(* consoleintr() *)
IntrLock ==
  /\ ipc = "cons" /\ conslock = None
  /\ conslock' = Intr
  /\ ipc' = "edit"
  /\ UNCHANGED <<cons, readers, outvars, fifo, irq, typed>>

(* A character is echoed before it is stored, and erased before the echo.     *)
Edit ==
  /\ ipc = "edit"
  /\ \/ typed \in Char /\ HasRoom /\ UNCHANGED <<cons, readers>>
     \/ typed \notin Char /\ Erases(typed) /\ Erase
  /\ ipc' = "echo"
  /\ UNCHANGED <<conslock, outvars, fifo, irq, typed>>

IntrRelease == conslock' = None /\ ipc' = "getc" /\ typed' = None

EditNothing ==
  /\ ipc = "edit"
  /\ IF typed \in Char THEN ~HasRoom ELSE ~Erases(typed)
  /\ IntrRelease
  /\ UNCHANGED <<cons, readers, outvars, fifo, irq>>

EchoWait ==
  /\ ipc = "echo" /\ SyncReady
  /\ ipc' = "thr"
  /\ UNCHANGED <<consvars, outvars, fifo, irq, typed>>

(* The echo of an erased character is three bytes, here one. *)
EchoSend ==
  /\ ipc = "thr"
  /\ fifo' = Append(fifo, SyncByte)
  /\ IF typed \in Char THEN Store(typed) ELSE UNCHANGED <<cons, readers>>
  /\ IF typed = "C-U" THEN ipc' = "edit" /\ UNCHANGED <<conslock, typed>> ELSE IntrRelease
  /\ UNCHANGED <<outvars, irq>>

Next ==
  \/ (\E p \in Reader : Read(p)) /\ UNCHANGED <<uartvars, typed>>
  \/ Output /\ UNCHANGED <<consvars, typed>>
  \/ Receive \/ Uartintr \/ \E c \in Key \cup {None} : Uartgetc(c)
  \/ IntrLock \/ Edit \/ EditNothing \/ EchoWait \/ EchoSend

Spec == Init /\ [][Next]_vars

-----------------------------------------------------------------------------
(* Properties. *)

(* cons: the ring with its three wrapping indexes behaves as finished input   *)
(* and a line that is being edited.                                           *)
Ring(a, b) == [i \in 1..Plus(b, UINT - a) |-> buf[(a + i - 1) % INPUT_BUF]]
Input == INSTANCE LineInput WITH done <- Ring(r, w), line <- Ring(w, e),
           Ends <- {"newline", "C-D"}, Capacity <- INPUT_BUF
RefinesLineInput == Input!LSpec

(* consoleintr()'s wakeup: nobody sleeps when there is input to hand out, nor *)
(* when the ring is full and nothing more can be typed.                       *)
SleepsWithoutInput ==
  conslock = None /\ (\E p \in Reader : rpc[p] = "sleep") => r = w /\ HasRoom

(* What write() has queued leaves the machine once and in order, between what *)
(* printf() and echo send: uartputc() adds a byte, the device takes one away, *)
(* and nothing else that uartstart() does changes what is on its way.         *)
Queued == SelectSeq(fifo, LAMBDA b : b # SyncByte) \o (IF hand = None THEN <<>> ELSE <<hand>>) \o ring

(* uartstart() returns with bytes left only because the device "will          *)
(* interrupt when it's ready": queued output is never forgotten.              *)
OutputGoesOn ==
  ring # <<>> /\ txlock = None => fifo # <<>> \/ irq \/ ipc \notin {"idle", "start"}
=============================================================================
