--------------------------- MODULE TerminalProofs ---------------------------
(* Proofs about Terminal, for any readers, writers, characters, ring sizes    *)
(* and counter width: queued output goes on, nobody sleeps beside input, and  *)
(* the input ring implements LineInput.                                       *)
EXTENDS Terminal, SequenceTheorems, TLAPS

-----------------------------------------------------------------------------
(* Output. *)

UartTypeOK ==
  /\ ring \in Seq(Byte) /\ fifo \in Seq(Byte \cup {SyncByte})
  /\ hand \in Byte \cup {None} /\ irq \in BOOLEAN

OutInv == UartTypeOK /\ OutputGoesOn

LEMMA OutTypeStep == UartTypeOK /\ [Next]_vars => UartTypeOK'
<1>. SUFFICES ASSUME UartTypeOK, [Next]_vars PROVE UartTypeOK'
  OBVIOUS
<1>. USE DEF UartTypeOK
<1>1. ASSUME UNCHANGED <<ring, fifo, hand, irq>> PROVE UartTypeOK'
  BY <1>1, Zenon
<1>2. ASSUME UNCHANGED vars PROVE UartTypeOK'
  BY <1>2, Zenon DEF vars, uartvars
<1>3. ASSUME NEW p \in Reader, Read(p), UNCHANGED <<uartvars, typed>> PROVE UartTypeOK'
  BY <1>3, Zenon DEF uartvars
<1>4. ASSUME NEW p \in Writer, Write(p) \/ Copyin(p) \/ PutcSleeps(p) \/ Started(p) PROVE UartTypeOK'
  BY <1>1, <1>4, Zenon DEF Write, Copyin, PutcSleeps, Started
<1>5. ASSUME NEW p \in Writer, NEW b \in Byte, Putc(p, b) PROVE UartTypeOK'
  BY <1>5 DEF Putc
<1>6. ASSUME Take PROVE UartTypeOK'
  <2>1. Head(ring) \in Byte /\ Tail(ring) \in Seq(Byte)
    BY <1>6, HeadTailProperties, Zenon DEF Take, Starts
  <2>. QED
    BY <1>6, <2>1, Zenon DEF Take
<1>7. ASSUME Send PROVE UartTypeOK'
  <2>1. Append(fifo, hand) \in Seq(Byte \cup {SyncByte})
    BY <1>7, AppendProperties, Zenon DEF Send
  <2>. QED
    BY <1>7, <2>1, Zenon DEF Send
<1>8. ASSUME UartintrLock \/ UartintrDone PROVE UartTypeOK'
  BY <1>1, <1>8, Zenon DEF UartintrLock, UartintrDone
<1>9. ASSUME Transmit PROVE UartTypeOK'
  <2>1. Tail(fifo) \in Seq(Byte \cup {SyncByte})
    BY <1>9, HeadTailProperties, Zenon DEF Transmit
  <2>2. irq' \in BOOLEAN
    BY <1>9, Zenon DEF Transmit
  <2>. QED
    BY <1>9, <2>1, <2>2, Zenon DEF Transmit
<1>10. ASSUME Receive \/ Uartintr PROVE UartTypeOK'
  BY <1>10, Zenon DEF Receive, Uartintr, outvars
<1>11. ASSUME NEW c \in Key \cup {None}, Uartgetc(c) PROVE UartTypeOK'
  BY <1>1, <1>11, Zenon DEF Uartgetc, outvars
<1>12. ASSUME IntrLock \/ Edit \/ EditNothing \/ EchoWait PROVE UartTypeOK'
  BY <1>1, <1>12, Zenon DEF IntrLock, Edit, EditNothing, EchoWait, outvars
<1>13. ASSUME EchoSend PROVE UartTypeOK'
  <2>1. Append(fifo, SyncByte) \in Seq(Byte \cup {SyncByte})
    BY AppendProperties, Zenon
  <2>. QED
    BY <1>13, <2>1, Zenon DEF EchoSend, outvars
<1>. QED
  BY <1>2, <1>3, <1>4, <1>5, <1>6, <1>7, <1>8, <1>9, <1>10, <1>11, <1>12, <1>13, Zenon DEF Next, Output

LEMMA OutStep == OutInv /\ [Next]_vars => OutInv'
<1>. SUFFICES ASSUME UartTypeOK, OutputGoesOn, [Next]_vars PROVE OutputGoesOn'
  BY OutTypeStep, Zenon DEF OutInv
<1>. USE NamesAssumption DEF OutputGoesOn
<1>1. ASSUME txlock' # None PROVE OutputGoesOn'
  BY <1>1, Zenon
<1>2. ASSUME UNCHANGED <<ring, txlock, fifo, irq, ipc>> PROVE OutputGoesOn'
  BY <1>2, Zenon
<1>3. ASSUME UNCHANGED vars PROVE OutputGoesOn'
  BY <1>3, Zenon DEF vars, uartvars
<1>4. ASSUME NEW p \in Reader, Read(p), UNCHANGED <<uartvars, typed>> PROVE OutputGoesOn'
  BY <1>4, Zenon DEF uartvars
<1>5. ASSUME NEW p \in Writer, Write(p) \/ Copyin(p) \/ PutcSleeps(p) PROVE OutputGoesOn'
  BY <1>2, <1>5, Zenon DEF Write, Copyin, PutcSleeps
<1>6. ASSUME NEW p \in Writer, NEW b \in Byte, Putc(p, b) PROVE OutputGoesOn'
  BY <1>1, <1>6, Zenon DEF Putc
<1>7. ASSUME Take \/ UartintrLock PROVE OutputGoesOn'
  BY <1>1, <1>7, Zenon DEF Take, UartintrLock
<1>8. ASSUME NEW p \in Writer, Started(p) PROVE OutputGoesOn'
  BY <1>8, Zenon DEF Started, Starts
<1>9. ASSUME UartintrDone PROVE OutputGoesOn'
  BY <1>9, Zenon DEF UartintrDone, Starts
<1>10. ASSUME Send PROVE OutputGoesOn'
  <2>1. hand \in Byte \cup {SyncByte} /\ fifo \in Seq(Byte \cup {SyncByte})
    BY <1>10, Zenon DEF Send, UartTypeOK
  <2>2. Append(fifo, hand) # <<>>
    BY <2>1
  <2>. QED
    BY <1>10, <2>2, Zenon DEF Send
<1>11. ASSUME Transmit PROVE OutputGoesOn'
  <2>1. Len(fifo) \in Nat /\ Len(Tail(fifo)) = Len(fifo) - 1
    <3>1. fifo \in Seq(Byte \cup {SyncByte}) /\ fifo # <<>>
      BY <1>11, Zenon DEF Transmit, UartTypeOK
    <3>. QED
      BY <3>1, HeadTailProperties, LenProperties, Zenon
  <2>2. Tail(fifo) = <<>> => Len(fifo) = 1
    <3>1. \A s : s = <<>> => Len(s) = 0
      OBVIOUS
    <3>2. Tail(fifo) = <<>> => Len(Tail(fifo)) = 0
      BY <3>1, Zenon
    <3>. QED
      BY <2>1, <3>2
  <2>. QED
    BY <1>11, <2>2, Zenon DEF Transmit
<1>12. ASSUME Receive \/ Uartintr PROVE OutputGoesOn'
  BY <1>12 DEF Receive, Uartintr
<1>13. ASSUME NEW c \in Key \cup {None}, Uartgetc(c) PROVE OutputGoesOn'
  BY <1>13 DEF Uartgetc
<1>14. ASSUME IntrLock \/ Edit \/ EditNothing \/ EchoWait PROVE OutputGoesOn'
  BY <1>14 DEF IntrLock, Edit, EditNothing, EchoWait, IntrRelease
<1>15. ASSUME EchoSend PROVE OutputGoesOn'
  <2>1. Append(fifo, SyncByte) # <<>>
    BY DEF UartTypeOK
  <2>. QED
    BY <1>15, <2>1, Zenon DEF EchoSend
<1>. QED
  BY <1>3, <1>4, <1>5, <1>6, <1>7, <1>8, <1>9, <1>10, <1>11, <1>12, <1>13, <1>14, <1>15, Zenon DEF Next, Output

(* uartstart() leaves bytes behind only to a device that will interrupt or to *)
(* an interrupt handler that still has to look: what consolewrite() queued is *)
(* never forgotten, whatever echo writes to THR meanwhile.                    *)
THEOREM OutputIsNotForgotten == Spec => []OutputGoesOn
<1>1. Init => OutInv
  <2>1. \A S : <<>> \in Seq(S)
    OBVIOUS
  <2>. QED
    BY <2>1, Zenon DEF Init, UartInit, OutInv, UartTypeOK, OutputGoesOn
<1>. QED
  BY <1>1, OutStep, PTL DEF Spec, OutInv

-----------------------------------------------------------------------------
(* Arithmetic of the input ring. *)

Uint == 0..(UINT - 1)

LEMMA DivMod ==
  ASSUME NEW x \in Int, NEW m \in Nat \ {0}
  PROVE  /\ x \div m \in Int /\ x % m \in 0..(m - 1)
         /\ x = m * (x \div m) + (x % m)
  OBVIOUS

LEMMA ModUnique ==
  ASSUME NEW m \in Nat \ {0}, NEW q \in Int, NEW s \in 0..(m - 1)
  PROVE  (m * q + s) % m = s
<1>1. ASSUME NEW a \in Int, NEW b \in Int, NEW t \in 0..(m - 1), m * a + s = m * b + t
      PROVE  s = t
  <2>1. m * (a - b) = t - s
    BY <1>1
  <2>2. a - b > 0 => m * (a - b) >= m
    OBVIOUS
  <2>3. a - b < 0 => m * (a - b) <= -m
    OBVIOUS
  <2>. QED
    BY <2>1, <2>2, <2>3
<1>. DEFINE x == m * q + s
<1>2. x \in Int
  OBVIOUS
<1>. HIDE DEF x
<1>3. x \div m \in Int /\ x % m \in 0..(m - 1) /\ x = m * (x \div m) + (x % m)
  BY <1>2, DivMod, Zenon
<1>4. m * q + s = m * (x \div m) + (x % m)
  BY <1>3, Zenon DEF x
<1>5. s = x % m
  BY <1>1, <1>3, <1>4, ZenonT(30)
<1>. QED
  BY <1>5, Zenon DEF x

LEMMA UintType == UINT \in Nat /\ INPUT_BUF \in Nat \ {0} /\ 2 * INPUT_BUF <= UINT
<1>1. PICK k \in 2..UINT : UINT = k * INPUT_BUF
  BY InputAssumption
<1>2. UINT \in Int /\ k >= 2
  BY <1>1, InputAssumption
<1>3. k * INPUT_BUF >= 2 * INPUT_BUF
  BY <1>2, InputAssumption
<1>. QED
  BY <1>1, <1>2, <1>3, InputAssumption

(* 2^32 is a multiple of INPUT_BUF: an index that wraps stays in its place.   *)
LEMMA PlaceWraps ==
  ASSUME NEW x \in Int
  PROVE  (x + UINT) % INPUT_BUF = x % INPUT_BUF
<1>1. PICK k \in 2..UINT : UINT = k * INPUT_BUF
  BY InputAssumption
<1>. DEFINE q == x \div INPUT_BUF
            s == x % INPUT_BUF
<1>2. q \in Int /\ s \in 0..(INPUT_BUF - 1) /\ x = INPUT_BUF * q + s
  BY DivMod, InputAssumption
<1>. HIDE DEF q, s
<1>3. k \in Int /\ INPUT_BUF \in Nat \ {0} /\ q + k \in Int
  BY <1>1, <1>2, InputAssumption
<1>4. x + UINT = INPUT_BUF * (q + k) + s
  BY <1>1, <1>2, <1>3
<1>5. (INPUT_BUF * (q + k) + s) % INPUT_BUF = s
  BY <1>2, <1>3, ModUnique, Zenon
<1>. QED
  BY <1>4, <1>5, Zenon DEF s

(* Fewer than INPUT_BUF apart, two indexes have different places. *)
LEMMA PlacesApart ==
  ASSUME NEW x \in Int, NEW j \in 1..(INPUT_BUF - 1)
  PROVE  (x + j) % INPUT_BUF # x % INPUT_BUF
<1>. DEFINE m == INPUT_BUF
<1>1. m \in Nat \ {0} /\ x + j \in Int
  BY InputAssumption
<1>. HIDE DEF m
<1>2. x \div m \in Int /\ x % m \in 0..(m - 1) /\ x = m * (x \div m) + (x % m)
  BY <1>1, DivMod, Zenon
<1>3. /\ (x + j) \div m \in Int /\ (x + j) % m \in 0..(m - 1)
      /\ x + j = m * ((x + j) \div m) + ((x + j) % m)
  BY <1>1, DivMod, Zenon
<1>4. x % m \in Int
  BY <1>1, <1>2
<1>5. ASSUME NEW a \in Int, NEW b \in Int, NEW s \in Int, x = m * a + s, x + j = m * b + s
      PROVE  FALSE
  <2>1. j = m * (b - a)
    BY <1>1, <1>5
  <2>2. b - a > 0 => m * (b - a) >= m
    BY <1>1
  <2>3. b - a <= 0 => m * (b - a) <= 0
    BY <1>1
  <2>. QED
    BY <2>1, <2>2, <2>3, <1>1 DEF m
<1>. QED
  BY <1>1, <1>2, <1>3, <1>4, <1>5, ZenonT(30) DEF m

LEMMA PlusIs ==
  ASSUME NEW x \in Nat, NEW k \in Nat, x + k < 2 * UINT
  PROVE  Plus(x, k) = IF x + k < UINT THEN x + k ELSE x + k - UINT
<1>. UINT \in Nat \ {0}
  BY UintType
<1>1. CASE x + k < UINT
  <2>1. x + k \in 0..(UINT - 1) /\ x + k = UINT * 0 + (x + k)
    BY <1>1
  <2>. QED
    BY <2>1, <1>1, ModUnique DEF Plus
<1>2. CASE x + k >= UINT
  <2>1. x + k - UINT \in 0..(UINT - 1) /\ x + k = UINT * 1 + (x + k - UINT)
    BY <1>2
  <2>. QED
    BY <2>1, <1>2, ModUnique DEF Plus
<1>. QED
  BY <1>1, <1>2

(* How many characters there are from index a to index b, without remainders. *)
Fill(a, b) == IF b >= a THEN b - a ELSE b - a + UINT

LEMMA FillIs ==
  ASSUME NEW a \in Uint, NEW b \in Uint
  PROVE  Plus(b, UINT - a) = Fill(a, b) /\ Fill(a, b) \in Uint /\ (Fill(a, b) = 0 <=> a = b)
<1>1. Plus(b, UINT - a) = IF b + (UINT - a) < UINT THEN b + (UINT - a) ELSE b + (UINT - a) - UINT
  BY PlusIs, UintType DEF Uint
<1>. QED
  BY <1>1, UintType DEF Fill, Uint

(* The three ways in which an index moves. *)
LEMMA Moves ==
  ASSUME NEW a \in Uint
  PROVE  /\ Incr(a) = (IF a + 1 = UINT THEN 0 ELSE a + 1) /\ Incr(a) \in Uint
         /\ Plus(a, UINT - 1) = (IF a = 0 THEN UINT - 1 ELSE a - 1) /\ Plus(a, UINT - 1) \in Uint
         /\ Plus(a, INPUT_BUF) = (IF a + INPUT_BUF < UINT THEN a + INPUT_BUF ELSE a + INPUT_BUF - UINT)
<1>1. Plus(a, 1) = IF a + 1 < UINT THEN a + 1 ELSE a + 1 - UINT
  BY PlusIs, UintType DEF Uint
<1>2. Plus(a, UINT - 1) = IF a + (UINT - 1) < UINT THEN a + (UINT - 1) ELSE a + (UINT - 1) - UINT
  BY PlusIs, UintType DEF Uint
<1>3. Plus(a, INPUT_BUF) = IF a + INPUT_BUF < UINT THEN a + INPUT_BUF ELSE a + INPUT_BUF - UINT
  BY PlusIs, UintType DEF Uint
<1>. QED
  BY <1>1, <1>2, <1>3, UintType DEF Incr, Uint

(* Index b has the place that is Fill(a, b) after that of a. *)
LEMMA PlaceAfter ==
  ASSUME NEW a \in Uint, NEW b \in Uint, NEW j \in Int
  PROVE  (b + j) % INPUT_BUF = (a + Fill(a, b) + j) % INPUT_BUF
<1>1. CASE b >= a
  <2>1. a + Fill(a, b) + j = b + j
    BY <1>1, UintType DEF Fill, Uint
  <2>. QED
    BY <2>1
<1>2. CASE b < a
  <2>1. a + Fill(a, b) + j = (b + j) + UINT /\ b + j \in Int
    BY <1>2, UintType DEF Fill, Uint
  <2>. QED
    BY <2>1, PlaceWraps
<1>. QED
  BY <1>1, <1>2, UintType DEF Uint

-----------------------------------------------------------------------------
(* The inductive invariant of the input. *)

ConsTypeOK ==
  /\ buf \in [0..(INPUT_BUF - 1) -> Char] /\ r \in Uint /\ w \in Uint /\ e \in Uint
  /\ rpc \in [Reader -> {"idle", "lock", "read", "wait", "sleep"}]

(* Who is where holds which lock. *)
HoldInv ==
  /\ \A p \in Reader : conslock = p <=> rpc[p] \in {"read", "wait"}
  /\ conslock = Intr <=> ipc \in {"edit", "echo", "thr"}
  /\ txlock = Intr <=> ipc = "start"

(* r, w and e follow each other round the ring, and a full ring is all        *)
(* finished input: consoleintr() ends the line at the last free place.        *)
CursorInv ==
  /\ Fill(r, w) + Fill(w, e) = Fill(r, e)
  /\ Fill(r, e) <= INPUT_BUF
  /\ Fill(r, e) = INPUT_BUF => w = e

(* A reader waits only without input, and an echoed character has its place.  *)
WaitInv ==
  /\ \A p \in Reader : rpc[p] \in {"wait", "sleep"} => r = w
  /\ ipc \in {"echo", "thr"} /\ typed \in Char => Fill(r, e) < INPUT_BUF

InInv == ConsTypeOK /\ HoldInv /\ CursorInv /\ WaitInv

LEMMA InInit == Init => InInv
<1>. SUFFICES ASSUME Init PROVE InInv
  OBVIOUS
<1>1. r = 0 /\ w = 0 /\ e = 0 /\ 0 \in Uint
  BY UintType DEF Init, ConsInit, Uint
<1>2. Fill(0, 0) = 0
  BY DEF Fill
<1>3. ConsTypeOK
  BY <1>1 DEF Init, ConsInit, ConsTypeOK, Char
<1>4. HoldInv
  BY NamesAssumption, ReaderAssumption DEF Init, ConsInit, UartInit, HoldInv
<1>5. CursorInv
  BY <1>1, <1>2, UintType DEF CursorInv
<1>6. WaitInv
  BY <1>1, Zenon DEF Init, UartInit, WaitInv
<1>. QED
  BY <1>3, <1>4, <1>5, <1>6, Zenon DEF InInv

(* The three moves of the indexes. *)
Takes == r # w /\ r' = Incr(r) /\ Forget(r) /\ UNCHANGED <<w, e>>

BufOK == buf \in [0..(INPUT_BUF - 1) -> Char] /\ r \in Uint /\ w \in Uint /\ e \in Uint

LEMMA PutKeepsType ==
  ASSUME BufOK, NEW x \in Uint, NEW c \in Char, buf' = [buf EXCEPT ![x % INPUT_BUF] = c]
  PROVE  buf' \in [0..(INPUT_BUF - 1) -> Char]
  BY Zenon DEF BufOK

LEMMA TakeMoves ==
  ASSUME BufOK, CursorInv, Takes
  PROVE  BufOK' /\ CursorInv' /\ Fill(r, w) > 0 /\ Fill(r', w) = Fill(r, w) - 1 /\ Fill(r', e) = Fill(r, e) - 1
<1>1. r' = (IF r + 1 = UINT THEN 0 ELSE r + 1) /\ r' \in Uint
  BY Moves, Zenon DEF Takes, BufOK
<1>2. buf' \in [0..(INPUT_BUF - 1) -> Char]
  BY PutKeepsType, Zenon DEF Takes, Forget, BufOK, Char
<1>3. Fill(r, w) > 0 /\ Fill(w, e) >= 0 /\ Fill(r, w) \in Int /\ Fill(w, e) \in Int
  BY UintType DEF Fill, Takes, BufOK, Uint
<1>4. Fill(r', w) = Fill(r, w) - 1
  BY <1>1, <1>3, UintType DEF Fill, BufOK, Uint
<1>5. Fill(r, e) > 0 /\ Fill(r, e) \in Int
  BY <1>3 DEF CursorInv
<1>6. Fill(r', e) = Fill(r, e) - 1
  BY <1>1, <1>5, UintType DEF Fill, BufOK, Uint
<1>7. w' = w /\ e' = e
  BY Zenon DEF Takes
<1>8. Fill(r', w') = Fill(r, w) - 1 /\ Fill(r', e') = Fill(r, e) - 1 /\ Fill(w', e') = Fill(w, e)
  BY <1>4, <1>6, <1>7, Zenon
<1>9. CursorInv'
  BY <1>3, <1>5, <1>8, UintType DEF CursorInv
<1>. QED
  BY <1>1, <1>2, <1>3, <1>4, <1>6, <1>7, <1>9, Zenon DEF BufOK

LEMMA EndsIs ==
  ASSUME BufOK, Fill(r, e) < INPUT_BUF
  PROVE  /\ Fill(r, Incr(e)) = Fill(r, e) + 1
         /\ Incr(e) = Plus(r, INPUT_BUF) <=> Fill(r, e) + 1 = INPUT_BUF
<1>1. Incr(e) = IF e + 1 = UINT THEN 0 ELSE e + 1
  BY Moves, Zenon DEF BufOK
<1>2. Plus(r, INPUT_BUF) = IF r + INPUT_BUF < UINT THEN r + INPUT_BUF ELSE r + INPUT_BUF - UINT
  BY Moves, Zenon DEF BufOK
<1>3. Fill(r, Incr(e)) = Fill(r, e) + 1
  BY <1>1, UintType DEF Fill, BufOK, Uint
<1>4. Incr(e) = Plus(r, INPUT_BUF) <=> Fill(r, e) + 1 = INPUT_BUF
  BY <1>1, <1>2, UintType DEF Fill, BufOK, Uint
<1>. QED
  BY <1>3, <1>4

LEMMA StoreMoves ==
  ASSUME BufOK, CursorInv, Fill(r, e) < INPUT_BUF, NEW c \in Char, Store(c)
  PROVE  BufOK' /\ CursorInv'
<1>1. e' = Incr(e) /\ r' = r /\ e' \in Uint
  BY Moves, Zenon DEF Store, BufOK
<1>2. w' = IF EndsInput(c) THEN Incr(e) ELSE w
  BY Zenon DEF Store
<1>3. buf' \in [0..(INPUT_BUF - 1) -> Char]
  BY PutKeepsType, Zenon DEF Store, BufOK
<1>4. BufOK'
  BY <1>1, <1>2, <1>3, Zenon DEF BufOK
<1>5. /\ Fill(r, Incr(e)) = Fill(r, e) + 1
      /\ Incr(e) = Plus(r, INPUT_BUF) <=> Fill(r, e) + 1 = INPUT_BUF
  BY EndsIs, Zenon
<1>6. Fill(r, w) \in Nat /\ Fill(w, e) \in Nat /\ Fill(r, e) \in Nat
  BY UintType DEF Fill, BufOK, Uint
<1>7. CASE EndsInput(c)
  <2>1. Fill(e', e') = 0
    BY <1>1, UintType DEF Fill, Uint
  <2>2. w' = e' /\ Fill(r', e') = Fill(r, Incr(e)) /\ Fill(r', w') = Fill(r, Incr(e)) /\ Fill(w', e') = Fill(e', e')
    BY <1>1, <1>2, <1>7, Zenon
  <2>. QED
    BY <1>4, <1>5, <1>6, <2>1, <2>2, UintType DEF CursorInv
<1>8. CASE ~EndsInput(c)
  <2>1. Fill(w, e) < INPUT_BUF
    BY <1>6, UintType DEF CursorInv
  <2>2. Fill(w, Incr(e)) = Fill(w, e) + 1
    <3>1. Incr(e) = IF e + 1 = UINT THEN 0 ELSE e + 1
      BY Moves, Zenon DEF BufOK
    <3>. QED
      BY <2>1, <3>1, UintType DEF Fill, BufOK, Uint
  <2>3. Fill(r, e) + 1 # INPUT_BUF
    BY <1>5, <1>8, Zenon DEF EndsInput
  <2>4. Fill(r', e') = Fill(r, Incr(e)) /\ Fill(r', w') = Fill(r, w) /\ Fill(w', e') = Fill(w, Incr(e))
    BY <1>1, <1>2, <1>8, Zenon
  <2>. QED
    BY <1>4, <1>5, <1>6, <2>2, <2>3, <2>4, UintType DEF CursorInv
<1>. QED
  BY <1>4, <1>7, <1>8

LEMMA EraseMoves ==
  ASSUME BufOK, CursorInv, e # w, Erase
  PROVE  BufOK' /\ CursorInv' /\ Fill(w, e') = Fill(w, e) - 1 /\ Fill(r, e') = Fill(r, e) - 1
<1>1. e' = (IF e = 0 THEN UINT - 1 ELSE e - 1) /\ e' \in Uint /\ r' = r /\ w' = w
  BY Moves, Zenon DEF Erase, BufOK
<1>2. buf' \in [0..(INPUT_BUF - 1) -> Char]
  <2>1. Plus(e, UINT - 1) \in Uint
    BY Moves, Zenon DEF BufOK
  <2>. QED
    BY <2>1, PutKeepsType, Zenon DEF Erase, Forget, Char
<1>3. Fill(w, e) > 0 /\ Fill(r, w) \in Nat /\ Fill(w, e) \in Nat
  BY UintType DEF Fill, BufOK, Uint
<1>4. Fill(w, e') = Fill(w, e) - 1
  BY <1>1, <1>3, UintType DEF Fill, BufOK, Uint
<1>5. Fill(r, e) > 0 /\ Fill(r, e) \in Nat
  BY <1>3 DEF CursorInv
<1>6. Fill(r, e') = Fill(r, e) - 1
  BY <1>1, <1>5, UintType DEF Fill, BufOK, Uint
<1>7. CursorInv'
  BY <1>1, <1>3, <1>4, <1>5, <1>6, UintType DEF CursorInv
<1>. QED
  BY <1>1, <1>2, <1>4, <1>6, <1>7, Zenon DEF BufOK

(* consoleread(): a step that leaves cons alone, and one that takes.          *)
LEMMA ReaderStays ==
  ASSUME InInv, NEW p \in Reader, Read(p), UNCHANGED <<cons, uartvars, typed>>
  PROVE  InInv'
<1>. USE NamesAssumption, ReaderAssumption DEF InInv
<1>1. UNCHANGED <<buf, r, w, e, ipc, txlock, typed>>
  BY Zenon DEF cons, uartvars
<1>. DEFINE Keeps == /\ rpc' \in [Reader -> {"idle", "lock", "read", "wait", "sleep"}]
                     /\ \A q \in Reader : conslock' = q <=> rpc'[q] \in {"read", "wait"}
                     /\ conslock' = Intr <=> conslock = Intr
                     /\ \A q \in Reader : rpc'[q] \in {"wait", "sleep"} => r = w
<1>2. ASSUME NEW n \in 0..MaxRead, ReadCall(p, n) PROVE Keeps
  BY <1>2, Zenon DEF ReadCall, ConsTypeOK, HoldInv, WaitInv
<1>3. ASSUME ReadLock(p) PROVE Keeps
  BY <1>3 DEF ReadLock, ConsTypeOK, HoldInv, WaitInv
<1>4. ASSUME ReadWaits(p) PROVE Keeps
  BY <1>4 DEF ReadWaits, Return, ConsTypeOK, HoldInv, WaitInv
<1>5. ASSUME Sleep(p) PROVE Keeps
  BY <1>5 DEF Sleep, ConsTypeOK, HoldInv, WaitInv
<1>6. ASSUME rpc[p] = "read", UNCHANGED <<conslock, rpc>> \/ Return(p) PROVE Keeps
  BY <1>6 DEF Return, ConsTypeOK, HoldInv, WaitInv
<1>7. ASSUME Kill(p) \/ Exit(p) PROVE Keeps
  BY <1>7 DEF Kill, Exit, ConsTypeOK, HoldInv, WaitInv
<1>8. Keeps
  BY <1>2, <1>3, <1>4, <1>5, <1>6, <1>7, Zenon DEF Read, ReadChar, ReadBreaks, ReadDone
<1>9. ConsTypeOK' /\ HoldInv'
  BY <1>1, <1>8, Zenon DEF ConsTypeOK, HoldInv
<1>10. CursorInv' /\ WaitInv'
  BY <1>1, <1>8, Zenon DEF CursorInv, WaitInv
<1>. QED
  BY <1>9, <1>10, Zenon

LEMMA ReaderTakes ==
  ASSUME InInv, NEW p \in Reader, rpc[p] = "read", Takes, UNCHANGED <<uartvars, typed>>,
         UNCHANGED <<conslock, rpc>> \/ Return(p)
  PROVE  InInv'
<1>. USE NamesAssumption, ReaderAssumption DEF InInv
<1>1. BufOK /\ UNCHANGED <<ipc, txlock, typed>>
  BY Zenon DEF BufOK, ConsTypeOK, uartvars
<1>2. BufOK' /\ CursorInv'
  BY <1>1, TakeMoves, Zenon
<1>3. rpc' \in [Reader -> {"idle", "lock", "read", "wait", "sleep"}]
  BY Zenon DEF Return, ConsTypeOK
<1>4. HoldInv'
  BY <1>1 DEF Return, HoldInv, ConsTypeOK
<1>5. \A q \in Reader : rpc'[q] \notin {"wait", "sleep"}
  <2>1. \A q \in Reader : rpc[q] \notin {"wait", "sleep"}
    BY Zenon DEF WaitInv, Takes
  <2>. QED
    BY <2>1, Zenon DEF Return, ConsTypeOK
<1>6. conslock = p /\ conslock # Intr
  BY Zenon DEF HoldInv
<1>7. WaitInv'
  BY <1>1, <1>5, <1>6 DEF WaitInv, HoldInv
<1>. QED
  BY <1>2, <1>3, <1>4, <1>7, Zenon DEF BufOK, ConsTypeOK

(* A step that leaves the readers and the input ring alone. *)
LEMMA InputKept ==
  ASSUME InInv, UNCHANGED <<cons, rpc>>,
         \A p \in Reader : conslock' = p <=> conslock = p,
         conslock' = Intr <=> ipc' \in {"edit", "echo", "thr"},
         txlock' = Intr <=> ipc' = "start",
         ipc' \in {"echo", "thr"} /\ typed' \in Char => Fill(r, e) < INPUT_BUF
  PROVE  InInv'
<1>1. ConsTypeOK' /\ HoldInv'
  BY Zenon DEF InInv, ConsTypeOK, HoldInv, cons
<1>2. CursorInv' /\ WaitInv'
  BY Zenon DEF InInv, CursorInv, WaitInv, cons
<1>. QED
  BY <1>1, <1>2, Zenon DEF InInv

LEMMA OutputKeeps ==
  ASSUME InInv, Output, UNCHANGED <<consvars, typed>>
  PROVE  InInv'
<1>. USE NamesAssumption DEF InInv, HoldInv
<1>1. UNCHANGED <<cons, rpc, conslock, typed>>
  BY Zenon DEF consvars, readers
<1>2. ASSUME NEW p \in Writer, Write(p) \/ Copyin(p) \/ PutcSleeps(p) PROVE UNCHANGED <<txlock, ipc>>
  BY <1>2, Zenon DEF Write, Copyin, PutcSleeps
<1>3. ASSUME NEW p \in Writer, NEW b \in Byte, Putc(p, b)
      PROVE  ipc' = ipc /\ (txlock' = Intr <=> txlock = Intr)
  BY <1>3, Zenon DEF Putc
<1>4. ASSUME NEW p \in Writer, Started(p)
      PROVE  ipc' = ipc /\ (txlock' = Intr <=> txlock = Intr)
  BY <1>4, Zenon DEF Started
<1>5. ASSUME Take \/ Send \/ Transmit PROVE UNCHANGED <<txlock, ipc>>
  BY <1>5, Zenon DEF Take, Send, Transmit
<1>6. ASSUME UartintrLock PROVE ipc = "lock" /\ ipc' = "start" /\ txlock' = Intr
  BY <1>6, Zenon DEF UartintrLock
<1>7. ASSUME UartintrDone PROVE ipc = "start" /\ ipc' = "idle" /\ txlock' # Intr
  BY <1>7, Zenon DEF UartintrDone
<1>8. \/ ipc' = ipc /\ (txlock' = Intr <=> txlock = Intr)
      \/ ipc = "lock" /\ ipc' = "start" /\ txlock' = Intr
      \/ ipc = "start" /\ ipc' = "idle" /\ txlock' # Intr
  BY <1>2, <1>3, <1>4, <1>5, <1>6, <1>7, Zenon DEF Output
<1>9. conslock' = Intr <=> ipc' \in {"edit", "echo", "thr"}
  BY <1>1, <1>8
<1>10. txlock' = Intr <=> ipc' = "start"
  BY <1>8
<1>11. ipc' \in {"echo", "thr"} /\ typed' \in Char => Fill(r, e) < INPUT_BUF
  BY <1>1, <1>8 DEF WaitInv
<1>. QED
  BY <1>1, <1>9, <1>10, <1>11, InputKept, Zenon

(* uartintr() and consoleintr(), without Erase and Store. *)
LEMMA IntrKeeps ==
  ASSUME InInv,
         \/ Receive \/ Uartintr \/ (\E c \in Key \cup {None} : Uartgetc(c))
         \/ IntrLock \/ EditNothing \/ EchoWait
         \/ Edit /\ typed \in Char
         \/ EchoSend /\ typed \notin Char
  PROVE  InInv' /\ UNCHANGED cons
<1>. USE NamesAssumption, ReaderAssumption DEF InInv, HoldInv
<1>. DEFINE Keeps ==
       /\ UNCHANGED <<cons, rpc>>
       /\ \A p \in Reader : conslock' = p <=> conslock = p
       /\ conslock' = Intr <=> ipc' \in {"edit", "echo", "thr"}
       /\ txlock' = Intr <=> ipc' = "start"
       /\ ipc' \in {"echo", "thr"} /\ typed' \in Char => Fill(r, e) < INPUT_BUF
<1>1. ASSUME Receive PROVE Keeps
  BY <1>1, Zenon DEF Receive, outvars, consvars, readers, WaitInv
<1>2. ASSUME Uartintr PROVE Keeps
  BY <1>2 DEF Uartintr, outvars, consvars, readers
<1>3. ASSUME NEW c \in Key \cup {None}, Uartgetc(c) PROVE Keeps
  BY <1>3 DEF Uartgetc, outvars, consvars, readers
<1>4. ASSUME IntrLock PROVE Keeps
  BY <1>4 DEF IntrLock, outvars, readers
<1>5. ASSUME EditNothing PROVE Keeps
  BY <1>5 DEF EditNothing, IntrRelease, outvars, readers
<1>6. ASSUME EchoWait PROVE Keeps
  BY <1>6 DEF EchoWait, outvars, consvars, readers, WaitInv
<1>7. ASSUME Edit, typed \in Char PROVE Keeps
  <2>1. Plus(e, UINT - r) = Fill(r, e)
    BY FillIs, Zenon DEF ConsTypeOK
  <2>2. Fill(r, e) < INPUT_BUF
    BY <1>7, <2>1, Zenon DEF Edit, HasRoom
  <2>. QED
    BY <1>7, <2>2 DEF Edit, outvars, readers
<1>8. ASSUME EchoSend, typed \notin Char PROVE Keeps
  BY <1>8 DEF EchoSend, IntrRelease, outvars, readers
<1>9. Keeps
  BY <1>1, <1>2, <1>3, <1>4, <1>5, <1>6, <1>7, <1>8
<1>. QED
  BY <1>9, InputKept, Zenon

LEMMA EraseKeeps ==
  ASSUME InInv, Edit, typed \notin Char
  PROVE  InInv' /\ BufOK /\ e # w /\ Erase
<1>. USE DEF InInv
<1>1. BufOK /\ e # w /\ Erase
  BY Zenon DEF Edit, Erases, BufOK, ConsTypeOK
<1>2. BufOK' /\ CursorInv'
  BY <1>1, EraseMoves, Zenon
<1>3. UNCHANGED <<rpc, r, w, conslock, txlock, typed>> /\ ipc = "edit" /\ ipc' = "echo"
  BY <1>1, Zenon DEF Edit, Erase, readers, outvars
<1>4. HoldInv'
  BY <1>3 DEF HoldInv
<1>5. WaitInv'
  BY <1>3, Zenon DEF WaitInv
<1>. QED
  BY <1>1, <1>2, <1>3, <1>4, <1>5, Zenon DEF BufOK, ConsTypeOK

LEMMA StoreKeeps ==
  ASSUME InInv, EchoSend, typed \in Char
  PROVE  InInv' /\ BufOK /\ Fill(r, e) < INPUT_BUF /\ Store(typed)
<1>. USE NamesAssumption, ReaderAssumption DEF InInv
<1>1. BufOK /\ Fill(r, e) < INPUT_BUF /\ Store(typed) /\ ipc = "thr"
  BY Zenon DEF EchoSend, BufOK, ConsTypeOK, WaitInv
<1>2. BufOK' /\ CursorInv'
  BY <1>1, StoreMoves, Zenon
<1>3. txlock' = txlock /\ IntrRelease
  BY <1>1, ReaderAssumption DEF EchoSend, outvars, Char
<1>4. \A q \in Reader : rpc'[q] = IF rpc[q] = "sleep" /\ EndsInput(typed) THEN "lock" ELSE rpc[q]
  BY <1>1, Zenon DEF Store, Wakeup
<1>5. rpc' \in [Reader -> {"idle", "lock", "read", "wait", "sleep"}]
  BY <1>1, Zenon DEF Store, Wakeup, ConsTypeOK
<1>6. conslock = Intr /\ conslock' = None /\ ipc' = "getc"
  BY <1>1, <1>3 DEF HoldInv, IntrRelease
<1>7. HoldInv'
  BY <1>1, <1>3, <1>4, <1>6 DEF HoldInv
<1>8. WaitInv'
  <2>1. ASSUME NEW q \in Reader, rpc'[q] \in {"wait", "sleep"} PROVE r' = w'
    <3>1. rpc[q] # "wait"
      BY <1>6, Zenon DEF HoldInv
    <3>2. rpc[q] = "sleep" /\ ~EndsInput(typed)
      BY <2>1, <3>1, <1>4
    <3>3. r = w /\ r' = r /\ w' = w
      BY <1>1, <3>2, Zenon DEF WaitInv, Store
    <3>. QED
      BY <3>3, Zenon
  <2>. QED
    BY <1>6, <2>1 DEF WaitInv
<1>. QED
  BY <1>1, <1>2, <1>5, <1>7, <1>8, Zenon DEF BufOK, ConsTypeOK

(* What Next does to the input: nothing, or one of the three moves. *)
LEMMA ReadIs ==
  ASSUME InInv, NEW p \in Reader, Read(p)
  PROVE  \/ UNCHANGED cons
         \/ rpc[p] = "read" /\ Takes /\ (UNCHANGED <<conslock, rpc>> \/ Return(p))
<1>1. ASSUME ReadChar(p) \/ ReadBreaks(p)
      PROVE  \/ UNCHANGED cons
             \/ rpc[p] = "read" /\ Takes /\ (UNCHANGED <<conslock, rpc>> \/ Return(p))
  BY <1>1, Zenon DEF ReadChar, ReadBreaks, cons, Takes
<1>2. ASSUME \/ \E n \in 0..MaxRead : ReadCall(p, n)
             \/ ReadLock(p) \/ ReadWaits(p) \/ Sleep(p) \/ ReadDone(p) \/ Kill(p) \/ Exit(p)
      PROVE  UNCHANGED cons
  BY <1>2, Zenon DEF ReadCall, ReadLock, ReadWaits, Sleep, ReadDone, Kill, Exit
<1>. QED
  BY <1>1, <1>2, Zenon DEF Read

LEMMA InStep ==
  ASSUME InInv, [Next]_vars
  PROVE  /\ InInv'
         /\ \/ UNCHANGED cons
            \/ Takes
            \/ e # w /\ Erase
            \/ typed \in Char /\ Fill(r, e) < INPUT_BUF /\ Store(typed)
<1>. DEFINE Moved == \/ UNCHANGED cons
                     \/ Takes
                     \/ e # w /\ Erase
                     \/ typed \in Char /\ Fill(r, e) < INPUT_BUF /\ Store(typed)
<1>1. CASE UNCHANGED vars
  <2>1. UNCHANGED <<cons, rpc, conslock, ipc, txlock, typed>>
    BY <1>1, Zenon DEF vars, consvars, readers, uartvars
  <2>. QED
    BY <2>1, InputKept, Zenon DEF InInv, HoldInv, WaitInv
<1>2. ASSUME NEW p \in Reader, Read(p), UNCHANGED <<uartvars, typed>> PROVE InInv' /\ Moved
  BY <1>2, ReadIs, ReaderStays, ReaderTakes, Zenon
<1>3. ASSUME Output, UNCHANGED <<consvars, typed>> PROVE InInv' /\ Moved
  BY <1>3, OutputKeeps, Zenon DEF consvars
<1>4. ASSUME Edit PROVE InInv' /\ Moved
  BY <1>4, IntrKeeps, EraseKeeps, Zenon
<1>5. ASSUME EchoSend PROVE InInv' /\ Moved
  BY <1>5, IntrKeeps, StoreKeeps, Zenon
<1>6. ASSUME \/ Receive \/ Uartintr \/ (\E c \in Key \cup {None} : Uartgetc(c))
             \/ IntrLock \/ EditNothing \/ EchoWait
      PROVE  InInv' /\ Moved
  BY <1>6, IntrKeeps, Zenon
<1>. QED
  BY <1>1, <1>2, <1>3, <1>4, <1>5, <1>6, Zenon DEF Next

LEMMA InInvariance == Spec => []InInv
<1>1. InInv /\ [Next]_vars => InInv'
  BY InStep, Zenon
<1>. QED
  BY <1>1, InInit, PTL DEF Spec

(* consoleintr() wakes the readers whenever it finishes input, also when the  *)
(* last free place ends the line: nobody is asleep beside input, nor before a *)
(* full ring into which nothing more can be typed.                            *)
THEOREM NobodySleepsBesideInput == Spec => []SleepsWithoutInput
<1>1. InInv => SleepsWithoutInput
  <2>. SUFFICES ASSUME InInv, NEW p \in Reader, rpc[p] = "sleep" PROVE r = w /\ HasRoom
    BY Zenon DEF SleepsWithoutInput
  <2>1. r = w
    BY Zenon DEF InInv, WaitInv
  <2>2. Plus(e, UINT - r) = Fill(r, e) /\ (Fill(r, e) = 0 <=> r = e)
    BY FillIs, Zenon DEF InInv, ConsTypeOK
  <2>3. Fill(r, e) \in Int
    BY UintType DEF Fill, InInv, ConsTypeOK, Uint
  <2>4. Fill(r, e) < INPUT_BUF
    BY <2>1, <2>2, <2>3, UintType DEF InInv, CursorInv
  <2>. QED
    BY <2>1, <2>2, <2>4, Zenon DEF HasRoom
<1>. QED
  BY <1>1, InInvariance, PTL

-----------------------------------------------------------------------------
(* The ring as a sequence. *)

Bufs == [0..(INPUT_BUF - 1) -> Char]
RingOf(f, a, b) == [i \in 1..Fill(a, b) |-> f[(a + i - 1) % INPUT_BUF]]

LEMMA PlaceType ==
  ASSUME NEW x \in Int
  PROVE  x % INPUT_BUF \in 0..(INPUT_BUF - 1)
  BY DivMod, UintType, Zenon

LEMMA FillNat ==
  ASSUME NEW a \in Uint, NEW b \in Uint
  PROVE  Fill(a, b) \in Nat /\ a \in Int
  BY UintType DEF Fill, Uint

LEMMA RingOfType ==
  ASSUME NEW f \in Bufs, NEW a \in Uint, NEW b \in Uint
  PROVE  RingOf(f, a, b) \in Seq(Char) /\ Len(RingOf(f, a, b)) = Fill(a, b)
<1>. DEFINE n == Fill(a, b)
            at(i) == f[(a + i - 1) % INPUT_BUF]
<1>1. n \in Nat /\ a \in Int
  BY FillNat, Zenon
<1>2. ASSUME NEW i \in 1..n PROVE at(i) \in Char
  <2>1. a + i - 1 \in Int
    BY <1>1
  <2>2. (a + i - 1) % INPUT_BUF \in 0..(INPUT_BUF - 1)
    BY <2>1, PlaceType, Zenon
  <2>. QED
    BY <2>2, Zenon DEF Bufs
<1>3. RingOf(f, a, b) = [i \in 1..n |-> at(i)]
  BY Zenon DEF RingOf
<1>4. \A i \in 1..n : at(i) \in Char
  BY <1>2, Zenon
<1>. HIDE DEF at, n
<1>5. [i \in 1..n |-> at(i)] \in Seq(Char) /\ Len([i \in 1..n |-> at(i)]) = n
  BY <1>1, <1>4
<1>. QED
  BY <1>3, <1>5, Zenon DEF n

(* Writing a place that is not between a and b. *)
Elsewhere(x) == \A z \in 0..(INPUT_BUF - 1) : z # x % INPUT_BUF => buf'[z] = buf[z]

LEMMA KeepAfter ==
  ASSUME NEW x \in Uint, Elsewhere(x), NEW a \in Uint, Fill(a, x) < INPUT_BUF,
         NEW b \in Uint, Fill(a, b) <= Fill(a, x)
  PROVE  RingOf(buf', a, b) = RingOf(buf, a, b)
<1>1. x \in Int
  BY UintType DEF Uint
<1>2. ASSUME NEW i \in 1..Fill(a, b) PROVE buf'[(a + i - 1) % INPUT_BUF] = buf[(a + i - 1) % INPUT_BUF]
  <2>. DEFINE j == Fill(a, x) - (i - 1)
  <2>1. Fill(a, b) \in Nat /\ Fill(a, x) \in Nat /\ a \in Int
    BY FillNat, Zenon
  <2>2. a + i - 1 \in Int /\ j \in 1..(INPUT_BUF - 1) /\ (a + i - 1) + j = a + Fill(a, x) + 0 /\ x + 0 = x
    BY <1>1, <2>1, UintType
  <2>3. ((a + i - 1) + j) % INPUT_BUF # (a + i - 1) % INPUT_BUF
    BY <2>2, PlacesApart, Zenon
  <2>4. (x + 0) % INPUT_BUF = (a + Fill(a, x) + 0) % INPUT_BUF
    BY PlaceAfter
  <2>5. (a + i - 1) % INPUT_BUF # x % INPUT_BUF /\ a + i - 1 \in Int
    BY <2>2, <2>3, <2>4, Zenon
  <2>. QED
    BY <2>5, PlaceType, Zenon DEF Elsewhere
<1>. QED
  BY <1>2, Zenon DEF RingOf

LEMMA KeepBefore ==
  ASSUME NEW x \in Uint, Elsewhere(x), NEW a \in Uint, Fill(x, a) > 0,
         NEW b \in Uint, Fill(x, a) + Fill(a, b) <= INPUT_BUF
  PROVE  RingOf(buf', a, b) = RingOf(buf, a, b)
<1>1. x \in Int
  BY UintType DEF Uint
<1>2. ASSUME NEW i \in 1..Fill(a, b) PROVE buf'[(a + i - 1) % INPUT_BUF] = buf[(a + i - 1) % INPUT_BUF]
  <2>. DEFINE j == Fill(x, a) + (i - 1)
  <2>1. Fill(a, b) \in Nat /\ Fill(x, a) \in Nat /\ a \in Int
    BY FillNat, Zenon
  <2>2. j \in 1..(INPUT_BUF - 1) /\ x + j = x + Fill(x, a) + (i - 1) /\ a + (i - 1) = a + i - 1 /\ i - 1 \in Int
    BY <1>1, <2>1, UintType
  <2>3. (x + j) % INPUT_BUF # x % INPUT_BUF
    BY <1>1, <2>2, PlacesApart, Zenon
  <2>4. (a + (i - 1)) % INPUT_BUF = (x + Fill(x, a) + (i - 1)) % INPUT_BUF
    BY <2>2, PlaceAfter, Zenon
  <2>5. (a + i - 1) % INPUT_BUF # x % INPUT_BUF /\ a + i - 1 \in Int
    BY <2>1, <2>2, <2>3, <2>4
  <2>. QED
    BY <2>5, PlaceType, Zenon DEF Elsewhere
<1>. QED
  BY <1>2, Zenon DEF RingOf

(* The characters from a to c are those from a to b and those from b to c.    *)
LEMMA RingOfSplit ==
  ASSUME NEW f \in Bufs, NEW a \in Uint, NEW b \in Uint, NEW c \in Uint,
         Fill(a, b) + Fill(b, c) = Fill(a, c)
  PROVE  RingOf(f, a, c) = RingOf(f, a, b) \o RingOf(f, b, c)
<1>. DEFINE s == RingOf(f, a, b)
            t == RingOf(f, b, c)
            u == RingOf(f, a, c)
<1>1. /\ s \in Seq(Char) /\ t \in Seq(Char) /\ u \in Seq(Char)
      /\ Len(s) = Fill(a, b) /\ Len(t) = Fill(b, c) /\ Len(u) = Fill(a, c)
  BY RingOfType, Zenon
<1>2. Fill(a, b) \in Nat /\ Fill(b, c) \in Nat /\ a \in Int /\ b \in Int
  BY FillNat, Zenon
<1>3. ASSUME NEW i \in 1..Fill(a, b) PROVE u[i] = s[i]
  <2>1. i \in 1..Fill(a, c)
    BY <1>2
  <2>. QED
    BY <2>1, Zenon DEF RingOf
<1>4. ASSUME NEW i \in 1..Fill(b, c) PROVE u[Fill(a, b) + i] = t[i]
  <2>1. Fill(a, b) + i \in 1..Fill(a, c) /\ i - 1 \in Int
    BY <1>2
  <2>2. a + (Fill(a, b) + i) - 1 = a + Fill(a, b) + (i - 1) /\ b + i - 1 = b + (i - 1)
    BY <1>2
  <2>3. (b + (i - 1)) % INPUT_BUF = (a + Fill(a, b) + (i - 1)) % INPUT_BUF
    BY <2>1, PlaceAfter, Zenon
  <2>4. u[Fill(a, b) + i] = f[(a + (Fill(a, b) + i) - 1) % INPUT_BUF]
    BY <2>1, Zenon DEF RingOf
  <2>5. t[i] = f[(b + i - 1) % INPUT_BUF]
    BY Zenon DEF RingOf
  <2>. QED
    BY <2>2, <2>3, <2>4, <2>5, Zenon
<1>. HIDE DEF s, t, u
<1>5. /\ s \o t \in Seq(Char) /\ Len(s \o t) = Len(u)
      /\ \A i \in 1..(Len(s) + Len(t)) : (s \o t)[i] = IF i <= Len(s) THEN s[i] ELSE t[i - Len(s)]
  BY <1>1, ConcatProperties, Zenon
<1>6. ASSUME NEW i \in 1..Len(u) PROVE u[i] = (s \o t)[i]
  <2>1. CASE i <= Fill(a, b)
    BY <1>1, <1>2, <1>3, <1>5, <2>1
  <2>2. CASE i > Fill(a, b)
    <3>1. i - Fill(a, b) \in 1..Fill(b, c) /\ Fill(a, b) + (i - Fill(a, b)) = i
      BY <1>1, <1>2, <2>2
    <3>2. u[i] = t[i - Fill(a, b)]
      BY <1>4, <3>1, Zenon
    <3>3. i \in 1..(Len(s) + Len(t)) /\ ~(i <= Len(s))
      BY <1>1, <1>2, <2>2
    <3>4. (s \o t)[i] = t[i - Len(s)]
      BY <1>5, <3>3, Zenon
    <3>. QED
      BY <1>1, <3>2, <3>4, Zenon
  <2>. QED
    BY <1>1, <1>2, <2>1, <2>2
<1>7. u = s \o t
  BY <1>1, <1>5, <1>6, SeqEqual, Zenon
<1>. QED
  BY <1>7, Zenon DEF s, t, u

(* One index further: the first character goes, or a last one comes.          *)
LEMMA RingOfTail ==
  ASSUME NEW f \in Bufs, NEW a \in Uint, NEW b \in Uint, a # b
  PROVE  RingOf(f, a, b) # <<>> /\ Tail(RingOf(f, a, b)) = RingOf(f, Incr(a), b)
<1>. DEFINE s == RingOf(f, a, b)
            t == RingOf(f, Incr(a), b)
<1>1. Incr(a) \in Uint /\ Incr(a) = IF a + 1 = UINT THEN 0 ELSE a + 1
  BY Moves, Zenon
<1>2. /\ Fill(a, b) > 0 /\ Fill(Incr(a), b) = Fill(a, b) - 1 /\ Fill(a, Incr(a)) = 1
      /\ Fill(a, b) \in Nat /\ a \in Int /\ Incr(a) \in Int
  BY <1>1, UintType DEF Fill, Uint
<1>3. s \in Seq(Char) /\ Len(s) = Fill(a, b) /\ t \in Seq(Char) /\ Len(t) = Fill(Incr(a), b)
  BY <1>1, RingOfType, Zenon
<1>4. ASSUME NEW i \in 1..Len(t) PROVE t[i] = s[i + 1]
  <2>1. i \in 1..Fill(Incr(a), b) /\ i + 1 \in 1..Fill(a, b) /\ i - 1 \in Int
    BY <1>2, <1>3
  <2>2. Incr(a) + i - 1 = Incr(a) + (i - 1) /\ a + (i + 1) - 1 = a + Fill(a, Incr(a)) + (i - 1)
    BY <1>2
  <2>3. (Incr(a) + (i - 1)) % INPUT_BUF = (a + Fill(a, Incr(a)) + (i - 1)) % INPUT_BUF
    BY <1>1, <2>1, PlaceAfter, Zenon
  <2>4. t[i] = f[(Incr(a) + i - 1) % INPUT_BUF]
    BY <2>1, Zenon DEF RingOf
  <2>5. s[i + 1] = f[(a + (i + 1) - 1) % INPUT_BUF]
    BY <2>1, Zenon DEF RingOf
  <2>. QED
    BY <2>2, <2>3, <2>4, <2>5, Zenon
<1>. HIDE DEF s, t
<1>5. s # <<>>
  <2>1. \A u : u = <<>> => Len(u) = 0
    OBVIOUS
  <2>. QED
    BY <1>2, <1>3, <2>1
<1>6. Tail(s) \in Seq(Char) /\ Len(Tail(s)) = Len(s) - 1 /\ \A i \in 1..Len(Tail(s)) : Tail(s)[i] = s[i + 1]
  BY <1>3, <1>5, HeadTailProperties, Zenon
<1>7. Len(t) = Len(Tail(s))
  BY <1>2, <1>3, <1>6, Zenon
<1>8. \A i \in 1..Len(t) : t[i] = Tail(s)[i]
  BY <1>4, <1>6, <1>7, Zenon
<1>9. t = Tail(s)
  BY <1>3, <1>6, <1>7, <1>8, SeqEqual, Zenon
<1>. QED
  BY <1>5, <1>9, Zenon DEF s, t

LEMMA RingOfAppend ==
  ASSUME NEW f \in Bufs, NEW a \in Uint, NEW b \in Uint, Fill(a, b) < INPUT_BUF
  PROVE  RingOf(f, a, Incr(b)) = Append(RingOf(f, a, b), f[b % INPUT_BUF])
<1>. DEFINE s == RingOf(f, a, b)
            t == RingOf(f, a, Incr(b))
            c == f[b % INPUT_BUF]
<1>1. Incr(b) \in Uint /\ Incr(b) = IF b + 1 = UINT THEN 0 ELSE b + 1
  BY Moves, Zenon
<1>2. Fill(a, Incr(b)) = Fill(a, b) + 1 /\ Fill(a, b) \in Nat /\ a \in Int /\ b \in Int
  BY <1>1, UintType DEF Fill, Uint
<1>3. s \in Seq(Char) /\ Len(s) = Fill(a, b) /\ t \in Seq(Char) /\ Len(t) = Fill(a, Incr(b))
  BY <1>1, RingOfType, Zenon
<1>4. c \in Char
  BY <1>2, PlaceType, Zenon DEF Bufs
<1>5. ASSUME NEW i \in 1..Len(s) PROVE t[i] = s[i]
  <2>1. i \in 1..Fill(a, b) /\ i \in 1..Fill(a, Incr(b))
    BY <1>2, <1>3
  <2>. QED
    BY <2>1, Zenon DEF RingOf
<1>6. t[Len(s) + 1] = c
  <2>1. /\ Len(s) + 1 \in 1..Fill(a, Incr(b)) /\ b + 0 = b
        /\ a + (Len(s) + 1) - 1 = a + Fill(a, b) + 0
    BY <1>2, <1>3
  <2>2. t[Len(s) + 1] = f[(a + (Len(s) + 1) - 1) % INPUT_BUF]
    BY <2>1, Zenon DEF RingOf
  <2>3. (b + 0) % INPUT_BUF = (a + Fill(a, b) + 0) % INPUT_BUF
    BY PlaceAfter
  <2>. QED
    BY <2>1, <2>2, <2>3, Zenon
<1>. HIDE DEF s, t, c
<1>7. /\ Append(s, c) \in Seq(Char) /\ Len(Append(s, c)) = Len(s) + 1
      /\ \A i \in 1..Len(s) : Append(s, c)[i] = s[i]
      /\ Append(s, c)[Len(s) + 1] = c
  BY <1>3, <1>4
<1>8. Len(t) = Len(Append(s, c)) /\ Len(t) = Len(s) + 1 /\ Len(s) \in Nat
  BY <1>2, <1>3, <1>7
<1>9. \A i \in 1..Len(t) : t[i] = Append(s, c)[i]
  <2>1. \A i \in 1..Len(t) : i \in 1..Len(s) \/ i = Len(s) + 1
    BY <1>8
  <2>. QED
    BY <1>5, <1>6, <1>7, <2>1, Zenon
<1>10. t = Append(s, c)
  BY <1>3, <1>7, <1>8, <1>9, SeqEqual, Zenon
<1>. QED
  BY <1>10, Zenon DEF s, t, c

LEMMA FrontOfAppend ==
  ASSUME NEW s \in Seq(Char), NEW c \in Char
  PROVE  SubSeq(Append(s, c), 1, Len(Append(s, c)) - 1) = s /\ Append(s, c) # <<>>
<1>. DEFINE t == Append(s, c)
<1>1. t \in Seq(Char) /\ t # <<>> /\ Len(t) = Len(s) + 1 /\ \A i \in 1..Len(s) : t[i] = s[i]
  BY AppendProperties
<1>2. Len(s) \in Nat /\ s = [i \in 1..Len(s) |-> s[i]]
  BY LenProperties, Zenon
<1>. HIDE DEF t
<1>3. Len(t) - 1 = Len(s)
  BY <1>1, <1>2
<1>4. SubSeq(t, 1, Len(s)) = s
  BY <1>1, <1>2
<1>. QED
  BY <1>1, <1>3, <1>4, Zenon DEF t

-----------------------------------------------------------------------------
(* The refinement: finished input from r to w, the line from w to e.          *)

LEMMA RingIs ==
  ASSUME BufOK
  PROVE  Ring(r, w) = RingOf(buf, r, w) /\ Ring(w, e) = RingOf(buf, w, e)
<1>1. Plus(w, UINT - r) = Fill(r, w) /\ Plus(e, UINT - w) = Fill(w, e)
  BY FillIs, Zenon DEF BufOK
<1>. QED
  BY <1>1, Zenon DEF Ring, RingOf

LEMMA RingIsNext ==
  ASSUME BufOK'
  PROVE  Ring(r, w)' = RingOf(buf', r', w') /\ Ring(w, e)' = RingOf(buf', w', e')
<1>1. Plus(w', UINT - r') = Fill(r', w') /\ Plus(e', UINT - w') = Fill(w', e')
  BY FillIs, Zenon DEF BufOK
<1>. QED
  BY <1>1, Zenon DEF Ring, RingOf

LEMMA TakesIsTaken ==
  ASSUME BufOK, CursorInv, Takes
  PROVE  Input!Taken
<1>1. /\ BufOK' /\ Fill(r, w) > 0
      /\ Fill(r', w) = Fill(r, w) - 1 /\ Fill(r', e) = Fill(r, e) - 1
  BY TakeMoves, Zenon
<1>2. /\ buf \in Bufs /\ r \in Uint /\ w \in Uint /\ e \in Uint /\ r' \in Uint /\ r # w
      /\ r' = Incr(r) /\ w' = w /\ e' = e /\ Elsewhere(r)
  BY <1>1, Zenon DEF BufOK, Bufs, Takes, Forget, Elsewhere
<1>3. Ring(r, w) # <<>> /\ Tail(Ring(r, w)) = RingOf(buf, r', w)
  <2>1. Ring(r, w) = RingOf(buf, r, w)
    BY RingIs, Zenon
  <2>2. RingOf(buf, r, w) # <<>> /\ Tail(RingOf(buf, r, w)) = RingOf(buf, Incr(r), w)
    BY <1>2, RingOfTail
  <2>. QED
    BY <1>2, <2>1, <2>2, Zenon
<1>4. Fill(r, w) + Fill(w, e) <= INPUT_BUF /\ Fill(r, w) \in Nat /\ Fill(w, e) \in Nat
  BY FillNat, Zenon DEF CursorInv, BufOK
<1>5. RingOf(buf', w, e) = RingOf(buf, w, e)
  BY <1>1, <1>2, <1>4, KeepBefore, Zenon
<1>6. RingOf(buf', r', w) = RingOf(buf, r', w)
  <2>1. r' = IF r + 1 = UINT THEN 0 ELSE r + 1
    BY <1>2, Moves, Zenon
  <2>2. Fill(r, r') = 1
    BY <1>2, <2>1, UintType DEF Fill, Uint
  <2>3. Fill(r, r') > 0 /\ Fill(r, r') + Fill(r', w) <= INPUT_BUF
    BY <1>1, <1>4, <2>2, UintType
  <2>. QED
    BY <1>2, <2>3, KeepBefore, Zenon
<1>7. Ring(r, w)' = Tail(Ring(r, w))
  BY <1>1, <1>2, <1>3, <1>6, RingIsNext, Zenon
<1>8. Ring(w, e)' = Ring(w, e)
  BY <1>1, <1>2, <1>5, RingIs, RingIsNext, Zenon
<1>. QED
  BY <1>3, <1>7, <1>8 DEF Input!Taken

LEMMA EraseIsErased ==
  ASSUME BufOK, CursorInv, e # w, Erase
  PROVE  Input!Erased
<1>1. BufOK' /\ Fill(w, e') = Fill(w, e) - 1 /\ Fill(r, e') = Fill(r, e) - 1
  BY EraseMoves, Zenon
<1>2. /\ buf \in Bufs /\ r \in Uint /\ w \in Uint /\ e \in Uint /\ e' \in Uint
      /\ r' = r /\ w' = w /\ e' = Plus(e, UINT - 1) /\ Elsewhere(e')
  BY <1>1, Zenon DEF BufOK, Bufs, Erase, Forget, Elsewhere
<1>3. Incr(e') = e
  <2>1. /\ Incr(e') = IF e' + 1 = UINT THEN 0 ELSE e' + 1
        /\ e' = IF e = 0 THEN UINT - 1 ELSE e - 1
    BY <1>2, Moves, Zenon
  <2>. QED
    BY <1>2, <2>1, UintType DEF Uint
<1>4. Fill(r, w) \in Nat /\ Fill(w, e) \in Nat /\ Fill(r, e) \in Nat /\ Fill(w, e) > 0
  BY <1>2, UintType DEF Fill, Uint
<1>5. Fill(w, e') < INPUT_BUF /\ Fill(r, e') < INPUT_BUF /\ Fill(r, w) <= Fill(r, e') /\ Fill(w, e') <= Fill(w, e')
  BY <1>1, <1>4, UintType DEF CursorInv
<1>6. RingOf(buf', r, w) = RingOf(buf, r, w)
  BY <1>2, <1>5, KeepAfter, Zenon
<1>7. RingOf(buf', w, e') = RingOf(buf, w, e')
  BY <1>2, <1>5, KeepAfter, Zenon
<1>8. RingOf(buf, w, e) = Append(RingOf(buf, w, e'), buf[e' % INPUT_BUF])
  <2>1. RingOf(buf, w, Incr(e')) = Append(RingOf(buf, w, e'), buf[e' % INPUT_BUF])
    BY <1>2, <1>5, RingOfAppend, Zenon
  <2>. QED
    BY <1>3, <2>1, Zenon
<1>9. RingOf(buf, w, e') \in Seq(Char) /\ buf[e' % INPUT_BUF] \in Char
  <2>1. e' \in Int
    BY <1>2, UintType DEF Uint
  <2>. QED
    BY <1>2, <2>1, RingOfType, PlaceType, Zenon DEF Bufs
<1>10. /\ RingOf(buf, w, e) # <<>>
       /\ SubSeq(RingOf(buf, w, e), 1, Len(RingOf(buf, w, e)) - 1) = RingOf(buf, w, e')
  BY <1>8, <1>9, FrontOfAppend, Zenon
<1>11. Ring(w, e) # <<>> /\ Ring(w, e)' = SubSeq(Ring(w, e), 1, Len(Ring(w, e)) - 1)
  BY <1>1, <1>2, <1>7, <1>10, RingIs, RingIsNext, Zenon
<1>12. Ring(r, w)' = Ring(r, w)
  BY <1>1, <1>2, <1>6, RingIs, RingIsNext, Zenon
<1>. QED
  BY <1>11, <1>12 DEF Input!Erased

LEMMA StoreIsTyped ==
  ASSUME BufOK, CursorInv, Fill(r, e) < INPUT_BUF, NEW c \in Char, Store(c)
  PROVE  Input!Typed(c)
<1>1. BufOK'
  BY StoreMoves, Zenon
<1>2. /\ buf \in Bufs /\ buf' \in Bufs /\ r \in Uint /\ w \in Uint /\ e \in Uint
      /\ r' = r /\ e' = Incr(e) /\ w' = (IF EndsInput(c) THEN Incr(e) ELSE w)
      /\ buf' = [buf EXCEPT ![e % INPUT_BUF] = c] /\ Elsewhere(e)
  BY <1>1, Zenon DEF BufOK, Bufs, Store, Elsewhere
<1>3. Fill(r, w) \in Nat /\ Fill(w, e) \in Nat /\ Fill(r, e) \in Nat
  BY <1>2, FillNat, Zenon
<1>4. Fill(w, e) < INPUT_BUF /\ Fill(r, w) <= Fill(r, e) /\ Fill(w, e) <= Fill(w, e) /\ Fill(r, e) <= Fill(r, e)
  BY <1>3, UintType DEF CursorInv
<1>5. RingOf(buf', r, w) = RingOf(buf, r, w)
  BY <1>2, <1>4, KeepAfter, Zenon
<1>6. RingOf(buf', w, e) = RingOf(buf, w, e)
  BY <1>2, <1>4, KeepAfter, Zenon
<1>7. buf'[e % INPUT_BUF] = c
  <2>1. e \in Int
    BY <1>2, UintType DEF Uint
  <2>. QED
    BY <1>2, <2>1, PlaceType, Zenon DEF Bufs
<1>8. RingOf(buf', w, Incr(e)) = Append(Ring(w, e), c)
  <2>1. RingOf(buf', w, Incr(e)) = Append(RingOf(buf', w, e), buf'[e % INPUT_BUF])
    BY <1>2, <1>4, RingOfAppend, Zenon
  <2>. QED
    BY <2>1, <1>6, <1>7, RingIs, Zenon
<1>9. /\ Ring(r, w) \in Seq(Char) /\ Len(Ring(r, w)) = Fill(r, w)
      /\ Ring(w, e) \in Seq(Char) /\ Len(Ring(w, e)) = Fill(w, e)
  <2>1. Ring(r, w) = RingOf(buf, r, w) /\ Ring(w, e) = RingOf(buf, w, e)
    BY RingIs, Zenon
  <2>2. /\ RingOf(buf, r, w) \in Seq(Char) /\ Len(RingOf(buf, r, w)) = Fill(r, w)
        /\ RingOf(buf, w, e) \in Seq(Char) /\ Len(RingOf(buf, w, e)) = Fill(w, e)
    BY <1>2, RingOfType, Zenon
  <2>. QED
    BY <2>1, <2>2, Zenon
<1>10. Len(Ring(r, w)) + Len(Ring(w, e)) < INPUT_BUF
  BY <1>9, Zenon DEF CursorInv
<1>11. EndsInput(c) <=> c \in {"newline", "C-D"} \/ Len(Ring(r, w)) + Len(Append(Ring(w, e), c)) = INPUT_BUF
  <2>1. Incr(e) = Plus(r, INPUT_BUF) <=> Fill(r, e) + 1 = INPUT_BUF
    BY EndsIs, Zenon
  <2>2. Len(Append(Ring(w, e), c)) = Fill(w, e) + 1
    BY <1>9
  <2>3. Len(Ring(r, w)) + Len(Append(Ring(w, e), c)) = Fill(r, e) + 1
    BY <1>3, <1>9, <2>2 DEF CursorInv
  <2>. QED
    BY <2>1, <2>3, Zenon DEF EndsInput
<1>12. CASE EndsInput(c)
  <2>1. w' = Incr(e)
    BY <1>2, <1>12, Zenon
  <2>2. Ring(w, e)' = <<>>
    <3>1. Ring(w, e)' \in Seq(Char) /\ Len(Ring(w, e)') = Fill(w', e')
      <4>1. Ring(w, e)' = RingOf(buf', w', e')
        BY <1>1, RingIsNext, Zenon
      <4>2. buf' \in Bufs /\ w' \in Uint /\ e' \in Uint
        BY <1>1, Zenon DEF BufOK, Bufs
      <4>. QED
        BY <4>1, <4>2, RingOfType, Zenon
    <3>2. Fill(w', e') = 0
      BY <1>1, <1>2, <2>1, UintType DEF Fill, BufOK, Uint
    <3>. QED
      BY <3>1, <3>2, EmptySeq, Zenon
  <2>3. Ring(r, w)' = RingOf(buf', r, Incr(e))
    BY <1>1, <1>2, <2>1, RingIsNext, Zenon
  <2>4. RingOf(buf', r, Incr(e)) = Append(RingOf(buf', r, e), c)
    <3>1. RingOf(buf', r, Incr(e)) = Append(RingOf(buf', r, e), buf'[e % INPUT_BUF])
      BY <1>2, RingOfAppend, Zenon
    <3>. QED
      BY <3>1, <1>7, ZenonT(60)
  <2>5. RingOf(buf', r, e) = Ring(r, w) \o Ring(w, e)
    <3>1. RingOf(buf', r, e) = RingOf(buf', r, w) \o RingOf(buf', w, e)
      BY <1>2, RingOfSplit, Zenon DEF CursorInv
    <3>. QED
      BY <3>1, <1>5, <1>6, RingIs, Zenon
  <2>6. Append(Ring(r, w) \o Ring(w, e), c) = Ring(r, w) \o Append(Ring(w, e), c)
    BY <1>9
  <2>. QED
    BY <1>10, <1>11, <1>12, <2>2, <2>3, <2>4, <2>5, <2>6 DEF Input!Typed
<1>13. CASE ~EndsInput(c)
  <2>1. Ring(r, w)' = Ring(r, w) /\ Ring(w, e)' = Append(Ring(w, e), c)
    BY <1>1, <1>2, <1>5, <1>8, <1>13, RingIs, RingIsNext, Zenon
  <2>. QED
    BY <1>10, <1>11, <1>13, <2>1 DEF Input!Typed
<1>. QED
  BY <1>12, <1>13

(* cons.buf with its three wrapping indexes is finished input and a line that *)
(* is being edited: whatever the readers and the interrupts do to each other, *)
(* no character is lost, doubled or overtaken, and nothing finished is edited.*)
THEOREM ConsoleIsLineInput == Spec => RefinesLineInput
<1>1. Init => Input!LInit
  <2>. SUFFICES ASSUME Init PROVE Input!LInit
    OBVIOUS
  <2>1. r = 0 /\ w = 0 /\ e = 0
    BY DEF Init, ConsInit
  <2>2. Plus(0, UINT - 0) = 0
    BY PlusIs, UintType
  <2>. QED
    BY <2>1, <2>2 DEF Ring, Input!LInit
<1>2. InInv /\ [Next]_vars => [Input!LNext]_(Input!lvars)
  <2>. SUFFICES ASSUME InInv, [Next]_vars PROVE [Input!LNext]_(Input!lvars)
    OBVIOUS
  <2>1. BufOK /\ CursorInv
    BY Zenon DEF InInv, ConsTypeOK, BufOK
  <2>2. CASE UNCHANGED cons
    BY <2>2 DEF cons, Ring, Input!lvars
  <2>3. CASE Takes
    BY <2>1, <2>3, TakesIsTaken, Zenon DEF Input!LNext
  <2>4. CASE e # w /\ Erase
    BY <2>1, <2>4, EraseIsErased, Zenon DEF Input!LNext
  <2>5. CASE typed \in Char /\ Fill(r, e) < INPUT_BUF /\ Store(typed)
    BY <2>1, <2>5, StoreIsTyped, Zenon DEF Input!LNext
  <2>. QED
    BY <2>2, <2>3, <2>4, <2>5, InStep, Zenon
<1>. QED
  BY <1>1, <1>2, InInvariance, PTL DEF Spec, RefinesLineInput, Input!LSpec
=============================================================================
