----------------------------- MODULE LineInput ------------------------------
(* What the console promises to read(): typed characters come out once and in *)
(* order.  The line being typed can be edited until a newline, an end-of-file *)
(* or the lack of room ends it; nothing that was ended is edited.             *)
EXTENDS Naturals, Sequences

CONSTANTS Char, Ends, Capacity    \* Ends: the characters that end a line

VARIABLES done, line
lvars == <<done, line>>

LInit == done = <<>> /\ line = <<>>

Typed(c) ==
  /\ Len(done) + Len(line) < Capacity
  /\ LET typed == Append(line, c)
     IN  IF c \in Ends \/ Len(done) + Len(typed) = Capacity
         THEN done' = done \o typed /\ line' = <<>>
         ELSE line' = typed /\ UNCHANGED done

Erased == line # <<>> /\ line' = SubSeq(line, 1, Len(line) - 1) /\ UNCHANGED done
Killed == line' = <<>> /\ UNCHANGED done
Taken == done # <<>> /\ done' = Tail(done) /\ UNCHANGED line

LNext == (\E c \in Char : Typed(c)) \/ Erased \/ Killed \/ Taken

LSpec == LInit /\ [][LNext]_lvars
=============================================================================
