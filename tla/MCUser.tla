------------------------------- MODULE MCUser -------------------------------
(* The programs that run in user mode, or on the host, each by itself: what   *)
(* one does, and with which input, is chosen at the start.                    *)
EXTENDS Shell, Umalloc, Filters, Mkfs, Library

VARIABLES tokens, spaced     \* ShellParser: a line, and whether it has blanks

uservars == <<shellvars, heapvars, filtervars, mkfsvars, libvars, tokens, spaced>>

-----------------------------------------------------------------------------
(* What is typed to the shell *)

MCFileName == {<<"f">>, <<"g">>}
MCDir == {<<"q">>}

EchoX == <<"e", " ", "x">>
EchoXY == <<"e", " ", "x", " ", "y">>
EchoY == <<"e", " ", "y">>
CatF == <<"c", "<", "f">>

Typed(lines) == [lines |-> lines, nproc |-> NPROC, nfile |-> NFILE]
MCSession == {
  Typed(<<EchoX \o <<">", "f">>, CatF>>),
  Typed(<<EchoX \o <<";">> \o EchoY, <<"x">>, <<"|", "|", ")">>>>),
  Typed(<<EchoXY \o <<"|", "c">>, <<";">>>>),
  Typed(<<EchoXY \o <<"|", "c", "|", "c">>>>),
  Typed(<<<<"(">> \o EchoX \o <<";">> \o EchoY \o <<")", "|", "c", ">", "f">>,
          EchoY \o <<">", ">", "f">>, <<"c", " ", "f", " ", "f">>, <<"c", " ", "g", " ", "f">>>>),
  Typed(<<EchoX \o <<">", "f", "&">>, EchoY>>),
  Typed(<<<<"c">>, <<"x">>, EOF, EchoY>>),
  Typed(<<<<"c", "d", " ", "q">>, EchoX \o <<">", "f">>, EOF, <<"c", "<", "g">>, CatF>>),
  Typed(<<EchoX \o <<">", "f", ">", "g">>, CatF, <<"c", " ", "g">>>>),
  Typed(<<EchoX \o <<"|">> \o EchoY>>),
  Typed(<<EchoXY \o <<"|", "x">>, EchoXY \o <<"|", "c", "<", "f">>>>),
  [Typed(<<EchoX \o <<"|", "c">>, EchoY>>) EXCEPT !.nproc = 4],
  [Typed(<<EchoX \o <<"|", "c">>, EchoY>>) EXCEPT !.nproc = 3],
  [Typed(<<EchoX \o <<";">> \o EchoY, EchoX \o <<"&">>, EchoY>>) EXCEPT !.nproc = 3],
  [Typed(<<EchoX, EchoY>>) EXCEPT !.nproc = 2],
  [Typed(<<EchoX \o <<"|", "c">>, EchoY \o <<">", "f">>>>) EXCEPT !.nfile = 2],
  [Typed(<<EchoY \o <<">", "f">>>>) EXCEPT !.nfile = 1] }

ShellIdle ==
  /\ session = Typed(<<>>) /\ typed = <<>> /\ proc = [q \in Process |-> NoProc]
  /\ ftable = [s \in Slot |-> NoFile] /\ pipe = [g \in Page |-> NoPipe] /\ fs = NoFiles /\ out = <<>> /\ failed = FALSE

-----------------------------------------------------------------------------
(* Lines for the parser: up to MAXTOKENS tokens, with blanks between all of   *)
(* them or only where they would run together.                                *)
CONSTANT MAXTOKENS
Words == <<<<"a">>, <<"b", "c">>, <<"d">>, <<"e", "f">>, <<"g">>>>
Spelled(ts) == [i \in DOMAIN ts |-> IF ts[i] = <<"w">> THEN Words[i] ELSE ts[i]]
UpTo(S, n) == UNION {[1..m -> S] : m \in 0..n}
TokenSeqs == {Spelled(ts) : ts \in UpTo(Ops \cup {<<"w">>}, MAXTOKENS)}

RunTogether(t, u) == (IsWord(t) /\ IsWord(u)) \/ (Last(t) = ">" /\ Head(u) = ">")
Rendered(ts, sp) ==
  FlattenSeq([i \in DOMAIN ts |-> IF i < Len(ts) /\ (sp \/ RunTogether(ts[i], ts[i + 1])) THEN Append(ts[i], " ") ELSE ts[i]])

(* parsecmd(): a line means what the grammar says of its tokens, blanks or    *)
(* none, or is refused if the grammar has nothing for it.                     *)
Agrees(c) == Lines(tokens) = IF c.ok THEN {c.cmd} ELSE {}
ParsesRight == Agrees(Parsecmd(Rendered(tokens, spaced)))

-----------------------------------------------------------------------------
(* Inputs of the others *)

MCFileSets ==
  {f \in UpTo({0, 1, 3, 4, 7, 9}, 3) :
     FoldLeft(LAMBDA n, m : n + BlocksFor(m), NMETA + BlocksFor(Len(f) + 2), f) <= FSSIZE}

(* Three pages of user memory over two frames, paths, and all ints. *)
Room5(d, s) == 5 - Max({d, s})
Frames(C) == [1..2 -> [0..(LPGSIZE - 1) -> C]]
Named == [f \in 1..2 |-> [o \in 0..(LPGSIZE - 1) |-> IF f = 1 THEN IF o = 0 THEN "a" ELSE "b" ELSE IF o = 0 THEN "c" ELSE "d"]]
Tables == [0..2 -> 0..2]
Moves == UNION {[op : {"memmove", "umemmove"}, m : {[a \in 0..4 |-> a]}, d : {x[1]}, s : {x[2]}, n : 0..Room5(x[1], x[2])] : x \in (0..4) \X (0..4)}
MCLibcall ==
  Moves
  \cup [op : {"copyin"}, pt : Tables, ph : {Named}, va : 0..5, n : 0..4]
  \cup [op : {"copyout"}, pt : Tables, ph : {Named}, va : 0..5, src : {SubSeq(<<"p", "q", "r", "s">>, 1, k) : k \in 0..4}]
  \cup [op : {"copyinstr"}, pt : Tables, ph : Frames({"a", NUL0}), va : {0, 1, 3}, n : {0, 1, 2, 4}]
  \cup [op : {"lookup"}, p : UpTo({"a", "b", "/"}, 4), q : UpTo({"a", "b", "/"}, 3)]
  \cup [op : {"printint"}, x : (-LINT \div 2)..((LINT \div 2) - 1), base : {10, 16}, sign : BOOLEAN]

Line(ts, sp) == tokens = ts /\ spaced = sp
NoLine == Line(<<>>, TRUE)

Init ==
  \/ (\E x \in Session : ShellInit(x)) /\ HeapIdle /\ FilterIdle /\ MkfsIdle /\ LibIdle /\ NoLine
  \/ ShellIdle /\ HeapIdle /\ FilterIdle /\ MkfsIdle /\ LibIdle /\ \E ts \in TokenSeqs, sp \in BOOLEAN : Line(ts, sp)
  \/ ShellIdle /\ HeapInit /\ FilterIdle /\ MkfsIdle /\ LibIdle /\ NoLine
  \/ /\ ShellIdle /\ HeapIdle /\ MkfsIdle /\ LibIdle /\ NoLine
     /\ \/ \E re \in UpTo({"a", ".", "*", "^", "$"}, 3), t \in UpTo({"a", "b", "*"}, 2) : FilterInit("grep", re, Append(t, NL))
        \/ \E re \in {<<"a">>, <<>>, <<"^", "b", "*", "$">>}, t \in UpTo({"a", "b", NL}, 5) : FilterInit("grep", re, t)
        \/ \E t \in UpTo({"a", " ", NL}, 5) : FilterInit("wc", <<>>, t)
  \/ ShellIdle /\ HeapIdle /\ FilterIdle /\ (\E f \in FileSets : MkfsInit(f)) /\ LibIdle /\ NoLine
  \/ ShellIdle /\ HeapIdle /\ FilterIdle /\ MkfsIdle /\ (\E c \in Libcall : LibInit(c)) /\ NoLine

Next ==
  \/ ShellNext /\ UNCHANGED <<heapvars, filtervars, mkfsvars, libvars, tokens, spaced>>
  \/ HeapNext /\ UNCHANGED <<shellvars, filtervars, mkfsvars, libvars, tokens, spaced>>
  \/ FilterNext /\ UNCHANGED <<shellvars, heapvars, mkfsvars, libvars, tokens, spaced>>
  \/ MkfsNext /\ UNCHANGED <<shellvars, heapvars, filtervars, libvars, tokens, spaced>>
  \/ LibNext /\ UNCHANGED <<shellvars, heapvars, filtervars, mkfsvars, tokens, spaced>>

Spec == Init /\ [][Next]_uservars /\ ShellFairness
=============================================================================
