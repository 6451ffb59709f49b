------------------------------- MODULE Filters -------------------------------
(* grep and wc (user/grep.c, user/wc.c): programs that read a stream by        *)
(* read() calls that return as much as there is at the time.  A character is   *)
(* a string of length one; NL and blanks are told apart, and no text has NULs. *)
EXTENDS Integers, SequencesExt, FiniteSetsExt

CONSTANT BUFSZ     \* sizeof(buf)

ASSUME BufferAssumption == BUFSZ \in Nat \ {0, 1}

NL == "n"
Blank == {" ", NL}

-----------------------------------------------------------------------------
(* The matcher: what is left of the pattern and of the line. *)

RECURSIVE Matchhere(_, _)
RECURSIVE Matchstar(_, _, _)

StarGoesOn(c, text) == text # <<>> /\ (Head(text) = c \/ c = ".")
Matchstar(c, re, text) ==
  Matchhere(re, text) \/ (StarGoesOn(c, text) /\ Matchstar(c, re, Tail(text)))

Matchhere(re, text) ==
  IF re = <<>> THEN TRUE
  ELSE IF Len(re) > 1 /\ re[2] = "*" THEN Matchstar(re[1], SubSeq(re, 3, Len(re)), text)
  ELSE IF re = <<"$">> THEN text = <<>>
  ELSE text # <<>> /\ (re[1] = "." \/ re[1] = text[1]) /\ Matchhere(Tail(re), Tail(text))

(* match() tries the empty end of the line too. *)
Starts(text) == 1..(Len(text) + 1)
Match(re, text) ==
  IF re # <<>> /\ re[1] = "^" THEN Matchhere(Tail(re), text)
  ELSE \E i \in Starts(text) : Matchhere(re, SubSeq(text, i, Len(text)))

(* What patterns mean.  An item takes a piece of the line; a match cuts the   *)
(* line into one piece for each item.                                         *)
RECURSIVE Items(_)
Items(re) ==
  IF re = <<>> THEN <<>>
  ELSE IF Len(re) > 1 /\ re[2] = "*" THEN <<[c |-> re[1], star |-> TRUE]>> \o Items(SubSeq(re, 3, Len(re)))
  ELSE <<[c |-> re[1], star |-> FALSE]>> \o Items(Tail(re))

Takes(item, piece) ==
  (item.star \/ Len(piece) = 1) /\ \A i \in DOMAIN piece : item.c = "." \/ piece[i] = item.c
Accepts(re, text) ==
  LET fromStart == re # <<>> /\ re[1] = "^"
      all == Items(IF fromStart THEN Tail(re) ELSE re)
      toEnd == all # <<>> /\ Last(all) = [c |-> "$", star |-> FALSE]
      items == IF toEnd THEN Front(all) ELSE all
      n == Len(items)
  IN  \E cut \in [0..n -> 0..Len(text)] :
        /\ fromStart => cut[0] = 0
        /\ toEnd => cut[n] = Len(text)
        /\ \A i \in 1..n : cut[i - 1] <= cut[i] /\ Takes(items[i], SubSeq(text, cut[i - 1] + 1, cut[i]))

-----------------------------------------------------------------------------
VARIABLES
  filter,      \* "grep", "wc", or "none"
  pattern, text,
  unread,      \* what read() has not returned
  buf,         \* grep: the line that is not complete
  shown,       \* grep: what it has written
  count        \* wc: its counters, and inword

filtervars == <<filter, pattern, text, unread, buf, shown, count>>

Zeroed == [l |-> 0, w |-> 0, c |-> 0, inword |-> FALSE]
FilterInit(prog, re, txt) ==
  /\ filter = prog /\ pattern = re /\ text = txt /\ unread = txt
  /\ buf = <<>> /\ shown = <<>> /\ count = Zeroed
FilterIdle == FilterInit("none", <<>>, <<>>)

GetsChunk(k, room) == k \in 1..Min({Len(unread), room}) /\ unread' = SubSeq(unread, k + 1, Len(unread))
GetsNothing(room) == unread = <<>> \/ room = 0

(* grep(): after each read(), the lines that are complete. *)
RECURSIVE Scan(_, _)
Scan(b, o) ==
  LET q == Min({i \in DOMAIN b : b[i] = NL})
  IN  IF NL \notin Range(b) THEN [buf |-> b, shown |-> o]
      ELSE Scan(SubSeq(b, q + 1, Len(b)), IF Match(pattern, SubSeq(b, 1, q - 1)) THEN o \o SubSeq(b, 1, q) ELSE o)

Kept(rest) == rest
Room == BUFSZ - Len(buf) - 1

GrepRead(k) ==
  LET x == Scan(buf \o SubSeq(unread, 1, k), shown)
  IN  /\ filter = "grep" /\ GetsChunk(k, Room)
      /\ buf' = Kept(x.buf) /\ shown' = x.shown
      /\ UNCHANGED <<filter, pattern, text, count>>

(* read() returns 0 at the end of the file, and if the buffer is full. *)
GrepEnd ==
  /\ filter = "grep" /\ GetsNothing(Room)
  /\ filter' = "grepped" /\ buf' = <<>>
  /\ UNCHANGED <<pattern, text, unread, shown, count>>

(* wc(): a character. *)
CountChar(x, ch) ==
  [l |-> x.l + (IF ch = NL THEN 1 ELSE 0), w |-> x.w + (IF ch \notin Blank /\ ~x.inword THEN 1 ELSE 0),
   c |-> x.c + 1, inword |-> ch \notin Blank]

(* The flag is kept from one read() to the next. *)
AtChunkReset(x) == [x EXCEPT !.inword = FALSE]
AtChunk(x) == x

WcRead(k) ==
  /\ filter = "wc" /\ GetsChunk(k, BUFSZ)
  /\ count' = FoldLeft(CountChar, AtChunk(count), SubSeq(unread, 1, k))
  /\ UNCHANGED <<filter, pattern, text, buf, shown>>

WcEnd ==
  /\ filter = "wc" /\ GetsNothing(BUFSZ)
  /\ filter' = "counted"
  /\ UNCHANGED <<pattern, text, unread, buf, shown, count>>

FilterNext == GrepEnd \/ WcEnd \/ \E k \in 1..Len(unread) : GrepRead(k) \/ WcRead(k)

-----------------------------------------------------------------------------
(* Where a line starts, and where it ends. *)
LineStarts == {i \in DOMAIN text : i = 1 \/ text[i - 1] = NL}
LineEnd(i) == Min({j \in i..(Len(text) + 1) : j > Len(text) \/ text[j] = NL})
TooLong(i) == LineEnd(i) - i >= BUFSZ - 1

Grepped ==
  LET hits == {i \in LineStarts : /\ LineEnd(i) <= Len(text) /\ \A j \in LineStarts : j <= i => ~TooLong(j)
                                  /\ Accepts(pattern, SubSeq(text, i, LineEnd(i) - 1))}
      lines == SetToSortSeq(hits, <)
  IN  FlattenSeq([n \in DOMAIN lines |-> SubSeq(text, lines[n], LineEnd(lines[n]))])
WordStarts == {i \in DOMAIN text : text[i] \notin Blank /\ (i = 1 \/ text[i - 1] \in Blank)}

(* grep(), its matcher, and wc(): however the stream is cut into reads, grep  *)
(* prints the lines that the pattern describes, in order, up to the first     *)
(* line that does not fit the buffer and without a last line that is not      *)
(* ended; and wc counts the text's lines, words and characters.               *)
FiltersRight ==
  /\ filter = "grepped" => shown = Grepped
  /\ filter = "counted" =>
       /\ count.c = Len(text)
       /\ count.l = Cardinality({i \in DOMAIN text : text[i] = NL})
       /\ count.w = Cardinality(WordStarts)
=============================================================================
