----------------------------- MODULE ShellParser ----------------------------
(* The shell's parser (user/sh.c): a line is a sequence of characters, a      *)
(* position in it the code's pointer, and a parsed command a record.  A       *)
(* parsing function returns [ok, s, cmd]: ok is FALSE after a panic(), s is    *)
(* where it has come to.  Strings are pairs <<q, eq>> until nulterminate().    *)
(* XFrom() is the rest of parsex() when its first call has returned.          *)
EXTENDS Integers, SequencesExt, FiniteSetsExt

CONSTANT MAXARGS

ASSUME MaxargsAssumption == MAXARGS \in Nat \ {0}

White == {" "}
Symbols == {"<", "|", ">", "&", ";", "(", ")"}
NUL == "nul"

Execcmd(argv) == [type |-> "EXEC", argv |-> argv]
Redircmd(cmd, file, mode) == [type |-> "REDIR", cmd |-> cmd, file |-> file, mode |-> mode, fd |-> IF mode = "read" THEN 0 ELSE 1]
Pipecmd(l, r) == [type |-> "PIPE", left |-> l, right |-> r]
Listcmd(l, r) == [type |-> "LIST", left |-> l, right |-> r]
Backcmd(cmd) == [type |-> "BACK", cmd |-> cmd]

Failed == [ok |-> FALSE, s |-> 0, cmd |-> Execcmd(<<>>)]

-----------------------------------------------------------------------------
CharAt(b, s) == IF s <= Len(b) THEN b[s] ELSE NUL

(* The first place from s on that has a character of C, or the end.           *)
Find(b, s, C) == Min({i \in s..(Len(b) + 1) : CharAt(b, i) \in C \cup {NUL}})
Skip(b, s) == Find(b, s, Range(b) \ White)
WordEnd(b, s) == Find(b, s, White \cup Symbols)

(* The token at q, and where it ends. *)
Kind(b, q) ==
  IF CharAt(b, q) = ">" /\ CharAt(b, q + 1) = ">" THEN "+" ELSE IF CharAt(b, q) \in Symbols \cup {NUL} THEN CharAt(b, q) ELSE "a"
TokenEnd(b, q, tok) ==
  CASE tok = NUL -> q [] tok = "a" -> WordEnd(b, q) [] tok = "+" -> q + 2 [] OTHER -> q + 1

TokenAt(b, q, tok) == [tok |-> tok, word |-> <<q, TokenEnd(b, q, tok)>>, s |-> Skip(b, TokenEnd(b, q, tok))]
Gettoken(b, s) == TokenAt(b, Skip(b, s), Kind(b, Skip(b, s)))

Peek(b, s, toks) == CharAt(b, Skip(b, s)) \in toks
After(b, s) == Gettoken(b, s).s

(* parseredirs() wraps a command again for every redirection: rs are those.   *)
WrapsInner(rs) == Reverse(rs)
Wraps(rs) == rs
Redirected(cmd, rs) == FoldLeft(LAMBDA c, x : Redircmd(c, x.file, x.mode), cmd, Wraps(rs))

Mode(tok) == CASE tok = "<" -> "read" [] tok = ">" -> "trunc" [] tok = "+" -> "write"

RECURSIVE Parseredirs(_, _, _)
Redir(b, s, rs, tok, name) ==
  IF name.tok # "a" THEN [ok |-> FALSE, s |-> s, rs |-> <<>>]
  ELSE Parseredirs(b, name.s, Append(rs, [file |-> name.word, mode |-> Mode(tok)]))
Parseredirs(b, s, rs) ==
  IF Peek(b, s, {"<", ">"}) THEN Redir(b, s, rs, Gettoken(b, s).tok, Gettoken(b, After(b, s))) ELSE [ok |-> TRUE, s |-> s, rs |-> rs]

(* The loop of parseexec(): one argument, then redirections. *)
TooMany(argv) == Len(argv) >= MAXARGS

RECURSIVE Parseargs(_, _, _, _)
Argument(b, argv, d) == IF TooMany(argv) \/ ~d.ok THEN Failed ELSE Parseargs(b, d.s, argv, d.rs)
ArgumentFrom(b, t, argv, rs) ==
  IF t.tok # "a" THEN Failed ELSE Argument(b, Append(argv, t.word), Parseredirs(b, t.s, rs))
Parseargs(b, s, argv, rs) ==
  IF Peek(b, s, {"|", ")", "&", ";", NUL}) THEN [ok |-> TRUE, s |-> s, cmd |-> Redirected(Execcmd(argv), rs)]
  ELSE ArgumentFrom(b, Gettoken(b, s), argv, rs)

RECURSIVE Parseline(_, _)
RECURSIVE Parsepipe(_, _)

BlockEnd(l, d) == IF d.ok THEN [l EXCEPT !.s = d.s, !.cmd = Redirected(@, d.rs)] ELSE Failed
BlockFrom(b, l) ==
  IF ~l.ok \/ ~Peek(b, l.s, {")"}) THEN Failed ELSE BlockEnd(l, Parseredirs(b, After(b, l.s), <<>>))
Parseblock(b, s) == BlockFrom(b, Parseline(b, After(b, s)))

ExecFrom(b, d) == IF d.ok THEN Parseargs(b, d.s, <<>>, d.rs) ELSE Failed
Parseexec(b, s) == IF Peek(b, s, {"("}) THEN Parseblock(b, s) ELSE ExecFrom(b, Parseredirs(b, s, <<>>))

PipeTo(e, r) == IF r.ok THEN [r EXCEPT !.cmd = Pipecmd(e.cmd, @)] ELSE Failed
PipeFrom(b, e) == IF e.ok /\ Peek(b, e.s, {"|"}) THEN PipeTo(e, Parsepipe(b, After(b, e.s))) ELSE e
Parsepipe(b, s) == PipeFrom(b, Parseexec(b, s))

(* Every & makes one more background command. *)
RECURSIVE Parsebacks(_, _)
Parsebacks(b, p) ==
  IF p.ok /\ Peek(b, p.s, {"&"}) THEN Parsebacks(b, [p EXCEPT !.s = After(b, p.s), !.cmd = Backcmd(p.cmd)]) ELSE p

ListTo(p, r) == IF r.ok THEN [r EXCEPT !.cmd = Listcmd(p.cmd, @)] ELSE Failed
ListFrom(b, p) == IF p.ok /\ Peek(b, p.s, {";"}) THEN ListTo(p, Parseline(b, After(b, p.s))) ELSE p
Parseline(b, s) == ListFrom(b, Parsebacks(b, Parsepipe(b, s)))

-----------------------------------------------------------------------------
(* nulterminate(): the places that become 0. *)
RECURSIVE Ends(_)
Ends(cmd) ==
  CASE cmd.type = "EXEC" -> {cmd.argv[i][2] : i \in DOMAIN cmd.argv}
    [] cmd.type = "REDIR" -> Ends(cmd.cmd) \cup {cmd.file[2]}
    [] cmd.type = "BACK" -> Ends(cmd.cmd)
    [] OTHER -> Ends(cmd.left) \cup Ends(cmd.right)

Nulterminate(b, cmd) == [i \in 1..Len(b) |-> IF i \in Ends(cmd) THEN NUL ELSE b[i]]

(* A C string, and a command with the strings that exec() and open() read.    *)
String(b, q) == SubSeq(b, q, Find(b, q, {}) - 1)

RECURSIVE Strings(_, _)
Strings(b, cmd) ==
  CASE cmd.type = "EXEC" -> Execcmd([i \in DOMAIN cmd.argv |-> String(b, cmd.argv[i][1])])
    [] cmd.type = "REDIR" -> [cmd EXCEPT !.cmd = Strings(b, @), !.file = String(b, @[1])]
    [] cmd.type = "BACK" -> Backcmd(Strings(b, cmd.cmd))
    [] OTHER -> [cmd EXCEPT !.left = Strings(b, @), !.right = Strings(b, @)]

Terminated(b, l) ==
  IF l.ok /\ Skip(b, l.s) = Len(b) + 1 THEN [l EXCEPT !.cmd = Strings(Nulterminate(b, @), @)] ELSE Failed
Parsecmd(b) == Terminated(b, Parseline(b, 1))

-----------------------------------------------------------------------------
(* The reference: the commands that a sequence of tokens stands for.  A token *)
(* is a sequence of characters: a symbol, two of them (>>), or a word.        *)
Ops == {<<c>> : c \in Symbols} \cup {<<">", ">">>}
IsWord(t) == t \notin Ops
TokenMode(t) == CASE t = <<"<">> -> "read" [] t = <<">">> -> "trunc" [] t = <<">", ">">> -> "write"
IsRedir(t) == t \in {<<"<">>, <<">">>, <<">", ">">>}

IsRedirs(ts) == Len(ts) % 2 = 0 /\ \A i \in DOMAIN ts : IF i % 2 = 1 THEN IsRedir(ts[i]) ELSE IsWord(ts[i])
RedirectedBy(cmd, ts) ==
  FoldLeft(LAMBDA c, i : Redircmd(c, ts[2 * i], TokenMode(ts[2 * i - 1])), cmd, [i \in 1..(Len(ts) \div 2) |-> i])

(* Words that follow no redirection are arguments. *)
IsSimple(ts) ==
  /\ \A i \in DOMAIN ts : IsWord(ts[i]) \/ IsRedir(ts[i])
  /\ \A i \in DOMAIN ts : IsRedir(ts[i]) => i < Len(ts) /\ IsWord(ts[i + 1])
IsArgument(ts, i) == IsWord(ts[i]) /\ (i > 1 => IsWord(ts[i - 1]))
Picks(ts, P(_)) == LET S == SetToSortSeq({i \in DOMAIN ts : P(i)}, <) IN [k \in DOMAIN S |-> ts[S[k]]]
Simples(ts) ==
  LET argv == Picks(ts, LAMBDA i : IsArgument(ts, i))
      redirs == Picks(ts, LAMBDA i : ~IsArgument(ts, i))
  IN  IF IsSimple(ts) /\ Len(argv) < MAXARGS THEN {RedirectedBy(Execcmd(argv), redirs)} ELSE {}

Before(ts, i) == SubSeq(ts, 1, i - 1)
Past(ts, i) == SubSeq(ts, i + 1, Len(ts))
Places(ts, t) == {i \in DOMAIN ts : ts[i] = t}

RECURSIVE Lines(_)
Blocks(ts) ==
  IF ts = <<>> \/ Head(ts) # <<"(">> THEN {}
  ELSE UNION {{RedirectedBy(c, Past(ts, i)) : c \in Lines(Tail(Before(ts, i)))} : i \in {j \in Places(ts, <<")">>) : IsRedirs(Past(ts, j))}}

RECURSIVE Pipes(_)
Pipes(ts) ==
  Simples(ts) \cup Blocks(ts)
  \cup UNION {{Pipecmd(l, r) : l \in Simples(Before(ts, i)) \cup Blocks(Before(ts, i)), r \in Pipes(Past(ts, i))} : i \in Places(ts, <<"|">>)}

RECURSIVE Backs(_)
Backs(ts) == Pipes(ts) \cup (IF ts # <<>> /\ Last(ts) = <<"&">> THEN {Backcmd(c) : c \in Backs(Front(ts))} ELSE {})

Lines(ts) ==
  Backs(ts) \cup UNION {{Listcmd(l, r) : l \in Backs(Before(ts, i)), r \in Lines(Past(ts, i))} : i \in Places(ts, <<";">>)}
=============================================================================
