-------------------------------- MODULE Uart --------------------------------
(* Console output (kernel/uart.c): consolewrite() queues bytes with uartputc(),*)
(* uartstart() hands them to the device, also from the interrupt, and         *)
(* uartputc_sync() writes echo and printf() past the queue, without the lock. *)
EXTENDS Integers, Sequences

CONSTANTS
  Writer,            \* processes in write()
  None, Intr,        \* nobody; the interrupt handler
  Byte, SyncByte,
  UART_TX_BUF_SIZE

ASSUME SizeAssumption == UART_TX_BUF_SIZE \in Nat \ {0}
ASSUME NamesAssumption == SyncByte \notin Byte /\ None # Intr /\ {None, Intr} \cap Writer = {}

VARIABLES
  ring,        \* uart_tx_buf from uart_tx_r to uart_tx_w
  txlock,      \* who holds uart_tx_lock
  wpc,         \* where each writer is
  ipc,         \* where the interrupt handler is
  hand,        \* the byte that uartstart() is about to write to THR
  fifo, irq    \* the device: bytes to send, interrupt pending

uartvars == <<ring, txlock, wpc, ipc, hand, fifo, irq>>

UartInit ==
  /\ ring = <<>> /\ txlock = None /\ hand = None /\ ipc = "idle"
  /\ wpc = [p \in Writer |-> "idle"] /\ fifo = <<>> /\ irq = FALSE

-----------------------------------------------------------------------------
(* uartputc() of every byte of consolewrite(). *)

Full == Len(ring) = UART_TX_BUF_SIZE

Write(p) ==
  /\ wpc[p] = "idle"
  /\ wpc' = [wpc EXCEPT ![p] = "copy"]
  /\ UNCHANGED <<ring, txlock, ipc, hand, fifo, irq>>

(* either_copyin(), which may fail: consolewrite() then returns early. *)
Copyin(p) ==
  /\ wpc[p] = "copy"
  /\ wpc' \in {[wpc EXCEPT ![p] = "putc"], [wpc EXCEPT ![p] = "idle"]}
  /\ UNCHANGED <<ring, txlock, ipc, hand, fifo, irq>>

PutcSleeps(p) ==
  /\ wpc[p] = "putc" /\ txlock = None /\ Full
  /\ wpc' = [wpc EXCEPT ![p] = "sleep"]
  /\ UNCHANGED <<ring, txlock, ipc, hand, fifo, irq>>

Putc(p, b) ==
  /\ wpc[p] = "putc" /\ txlock = None /\ ~Full
  /\ txlock' = p
  /\ ring' = Append(ring, b)
  /\ wpc' = [wpc EXCEPT ![p] = "start"]
  /\ UNCHANGED <<ipc, hand, fifo, irq>>

-----------------------------------------------------------------------------
(* uartstart(), by whoever holds the lock. *)

WakeWriters == wpc' = [p \in Writer |-> IF wpc[p] = "sleep" THEN "putc" ELSE wpc[p]]

Starts == ring # <<>> /\ fifo = <<>>


(* LSR says that THR is empty: take a byte and wake the writers. *)
Take ==
  /\ txlock # None /\ hand = None /\ Starts
  /\ hand' = Head(ring)
  /\ ring' = Tail(ring)
  /\ WakeWriters
  /\ UNCHANGED <<txlock, ipc, fifo, irq>>

Send ==
  /\ hand # None
  /\ fifo' = Append(fifo, hand)
  /\ hand' = None
  /\ UNCHANGED <<ring, txlock, wpc, ipc, irq>>

(* Nothing to send, or a device that will interrupt when it is ready; then    *)
(* the next byte, if there is one.                                            *)
Started(p) ==
  /\ txlock = p /\ wpc[p] = "start" /\ hand = None /\ ~Starts
  /\ txlock' = None
  /\ wpc' \in {[wpc EXCEPT ![p] = "copy"], [wpc EXCEPT ![p] = "idle"]}
  /\ UNCHANGED <<ring, ipc, hand, fifo, irq>>

(* The second half of uartintr(). *)
UartintrLock ==
  /\ ipc = "lock" /\ txlock = None
  /\ txlock' = Intr
  /\ ipc' = "start"
  /\ UNCHANGED <<ring, wpc, hand, fifo, irq>>

UartintrForgets ==
  /\ txlock = Intr /\ hand = None
  /\ txlock' = None
  /\ ipc' = "idle"
  /\ UNCHANGED <<ring, wpc, hand, fifo, irq>>

UartintrDone ==
  /\ txlock = Intr /\ hand = None /\ ~Starts
  /\ txlock' = None
  /\ ipc' = "idle"
  /\ UNCHANGED <<ring, wpc, hand, fifo, irq>>

-----------------------------------------------------------------------------
(* uartputc_sync() waits for this and then writes THR. *)
SyncReady == fifo = <<>>

(* The device sends a byte and interrupts when it has none left. *)
Transmit ==
  /\ fifo # <<>>
  /\ fifo' = Tail(fifo)
  /\ irq' = (irq \/ Len(fifo) = 1)
  /\ UNCHANGED <<ring, txlock, wpc, ipc, hand>>

Output ==
  \/ \E p \in Writer :
       Write(p) \/ Copyin(p) \/ PutcSleeps(p) \/ (\E b \in Byte : Putc(p, b)) \/ Started(p)
  \/ Take \/ Send \/ UartintrLock \/ UartintrDone \/ Transmit
=============================================================================
