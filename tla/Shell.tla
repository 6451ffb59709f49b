-------------------------------- MODULE Shell -------------------------------
(* The shell at work (user/sh.c), with init (user/init.c), and echo and cat   *)
(* as the programs it runs: processes, descriptors, open files and pipes      *)
(* (kernel/sysfile.c, kernel/file.c, kernel/pipe.c).  A system call is one    *)
(* step, and read(), write() and wait() block.  A word is one unit of data;   *)
(* messages on descriptor 2 are left out.                                     *)
EXTENDS ShellParser, TLC

CONSTANTS
  NPROC, NFILE, NOFILE, NPIPE, PIPESIZE,
  FileName, Dir,   \* words: names of files, and of directories in the root
  Session          \* [lines, nproc, nfile]: what is typed, and the slots that others leave

ASSUME LimitAssumption == {NPROC, NFILE, NOFILE, NPIPE, PIPESIZE} \subseteq Nat \ {0} /\ NOFILE > 3
ASSUME SessionAssumption == \A x \in Session : x.nproc \in 2..NPROC /\ x.nfile \in 1..NFILE

Process == 1..NPROC
Slot == 1..NFILE
Fd == 0..(NOFILE - 1)
Page == 1..NPIPE
Root == <<>>
EOF == <<>>              \* ^D at the start of a line
Echo == <<"e">>
Cat == <<"c">>
Nothing == Execcmd(<<>>)

NoFile == [ref |-> 0, type |-> "none", obj |-> 0, name |-> <<Root, Root>>, readable |-> FALSE, writable |-> FALSE, off |-> 0]
NoPipe == [buf |-> <<>>, readopen |-> FALSE, writeopen |-> FALSE]
NoProc == [st |-> "unused", parent |-> 0, pc |-> "none", todo |-> <<>>, cmd |-> Nothing, ofile |-> [d \in Fd |-> 0],
           p |-> <<>>, line |-> <<>>, rfd |-> 0, data |-> <<>>, cwd |-> Root]

VARIABLES
  session,     \* which one it is
  typed,       \* the lines that have not been read
  proc, ftable, pipe,
  fs,          \* files: whether they exist, and their words
  out,         \* what the console has shown
  failed       \* whether a table was full

shellvars == <<session, typed, proc, ftable, pipe, fs, out, failed>>
tables == <<ftable, pipe, fs, out>>

Gone == [there |-> FALSE, data |-> <<>>]
NoFiles == [n \in ({Root} \cup Dir) \X FileName |-> Gone]

ShellInit(x) ==
  /\ session = x /\ typed = x.lines
  /\ proc = [q \in Process |-> IF q = 1 THEN [NoProc EXCEPT !.st = "run", !.pc = "init", !.todo = <<<<"open">>, <<"dup", 0>>, <<"dup", 0>>>>]
                               ELSE IF q > x.nproc THEN [NoProc EXCEPT !.st = "other"] ELSE NoProc]
  /\ ftable = [s \in Slot |-> IF s > x.nfile THEN [NoFile EXCEPT !.ref = 1, !.type = "other"] ELSE NoFile]
  /\ pipe = [g \in Page |-> NoPipe] /\ fs = NoFiles /\ out = <<>> /\ failed = FALSE

Ready(q, l) == proc[q].st = "run" /\ proc[q].todo = <<>> /\ proc[q].pc = l
Calls(q, call) == proc[q].st = "run" /\ proc[q].todo # <<>> /\ Head(proc[q].todo)[1] = call
Arg(q, i) == Head(proc[q].todo)[i]

(* The next state of the process that has made its first call.                *)
Done(q) == [proc[q] EXCEPT !.todo = Tail(@)]
Exits(q) == [proc[q] EXCEPT !.todo = <<>>, !.pc = "exit", !.cmd = Nothing, !.p = <<>>, !.data = <<>>, !.line = <<>>, !.rfd = 0]
Becomes(q, x) == proc' = [proc EXCEPT ![q] = x]

-----------------------------------------------------------------------------
(* Descriptors and open files *)

FreeFds(q) == {d \in Fd : proc[q].ofile[d] = 0}
FreeSlots == {s \in Slot : ftable[s].ref = 0}
FreePages == {g \in Page : ~pipe[g].readopen /\ ~pipe[g].writeopen}

(* fileclose() and pipeclose() *)
Fileclose(s) ==
  LET f == ftable[s]
      last == f.ref = 1
      e == IF f.writable THEN [pipe[f.obj] EXCEPT !.writeopen = FALSE] ELSE [pipe[f.obj] EXCEPT !.readopen = FALSE]
  IN  /\ ftable' = [ftable EXCEPT ![s] = IF last THEN NoFile ELSE [@ EXCEPT !.ref = @ - 1]]
      /\ pipe' = IF last /\ f.type = "pipe"
                 THEN [pipe EXCEPT ![f.obj] = IF e.readopen \/ e.writeopen THEN e ELSE NoPipe] ELSE pipe

Close(q) ==
  LET d == Arg(q, 2)
      s == proc[q].ofile[d]
  IN  /\ Calls(q, "close") /\ s # 0
      /\ Becomes(q, [Done(q) EXCEPT !.ofile[d] = 0]) /\ Fileclose(s)
      /\ UNCHANGED <<session, typed, fs, out, failed>>

Dup(q) ==
  LET s == proc[q].ofile[Arg(q, 2)]
  IN  /\ Calls(q, "dup") /\ s # 0 /\ FreeFds(q) # {}
      /\ Becomes(q, [Done(q) EXCEPT !.ofile[Min(FreeFds(q))] = s])
      /\ ftable' = [ftable EXCEPT ![s].ref = @ + 1]
      /\ UNCHANGED <<session, typed, pipe, fs, out, failed>>

(* sys_open() of a file: created before a slot is found, cut short after.     *)
OpenName(q) == <<proc[q].cwd, Arg(q, 2)>>
Found(q) == fs[OpenName(q)].there \/ Arg(q, 3) # "read"
Created(q) == IF Found(q) THEN [fs EXCEPT ![OpenName(q)].there = TRUE] ELSE fs
Truncates(mode) == mode = "trunc"

OpenFile(q) ==
  LET n == OpenName(q)
      mode == Arg(q, 3)
      s == Min(FreeSlots)
      d == Min(FreeFds(q))
  IN  /\ Calls(q, "file") /\ Found(q) /\ FreeSlots # {} /\ FreeFds(q) # {}
      /\ ftable' = [ftable EXCEPT ![s] = [NoFile EXCEPT !.ref = 1, !.type = "file", !.name = n,
                                          !.readable = mode = "read", !.writable = mode # "read"]]
      /\ fs' = IF Truncates(mode) THEN [Created(q) EXCEPT ![n].data = <<>>] ELSE Created(q)
      /\ Becomes(q, [Done(q) EXCEPT !.ofile[d] = s, !.rfd = IF proc[q].pc = "cat" THEN d ELSE 0])
      /\ UNCHANGED <<session, typed, pipe, out, failed>>

(* The shell and cat exit when open() fails. *)
OpenFails(q) ==
  /\ Calls(q, "file") /\ (~Found(q) \/ FreeSlots = {} \/ FreeFds(q) = {})
  /\ fs' = Created(q)
  /\ Becomes(q, Exits(q))
  /\ failed' = (failed \/ Found(q))
  /\ UNCHANGED <<session, typed, ftable, pipe, out>>

(* open("console", O_RDWR), by init and by the shell's loop. *)
OpenConsole(q) ==
  LET s == Min(FreeSlots)
      d == Min(FreeFds(q))
  IN  /\ Calls(q, "open")
      /\ IF FreeSlots = {} \/ FreeFds(q) = {} THEN Becomes(q, Done(q)) /\ UNCHANGED ftable
         ELSE /\ ftable' = [ftable EXCEPT ![s] = [NoFile EXCEPT !.ref = 1, !.type = "console", !.readable = TRUE, !.writable = TRUE]]
              /\ Becomes(q, [Done(q) EXCEPT !.ofile[d] = s, !.todo = IF proc[q].pc = "init" THEN @
                                                                     ELSE IF d >= 3 THEN <<<<"close", d>>>> ELSE <<<<"open">>>>])
      /\ UNCHANGED <<session, typed, pipe, fs, out, failed>>
-----------------------------------------------------------------------------
(* Processes *)

Unused == {c \in Process : proc[c].st = "unused"}
Children(q) == {c \in Process : proc[c].st \in {"run", "zombie"} /\ proc[c].parent = q}

Counted(q, s) == Cardinality({d \in Fd : proc[q].ofile[d] = s})

(* fork(): parent and child go on as given; every open file is counted again. *)
Fork(q, parent, child) ==
  LET c == Min(Unused)
  IN  /\ proc' = [proc EXCEPT ![q] = parent, ![c] = [child EXCEPT !.parent = q]]
      /\ ftable' = [s \in Slot |-> [ftable[s] EXCEPT !.ref = @ + Counted(q, s)]]
      /\ UNCHANGED <<session, typed, pipe, fs, out, failed>>

(* fork1(): a shell that cannot fork panics, which is to exit. *)
Fork1(q, parent, child) ==
  \/ Unused # {} /\ Fork(q, parent, child)
  \/ Unused = {} /\ Becomes(q, Exits(q)) /\ failed' = TRUE /\ UNCHANGED <<session, typed, tables>>

(* wait() frees a child that has exited; the shell only waits for children.   *)
Wait(q) ==
  /\ Calls(q, "wait")
  /\ \E c \in Children(q) : proc[c].st = "zombie" /\ proc' = [proc EXCEPT ![q] = Done(q), ![c] = NoProc]
  /\ UNCHANGED <<session, typed, tables, failed>>

(* exit(): one file after the other, then the children go to init. *)
ExitClose(q) ==
  LET d == Min(Fd \ FreeFds(q))
  IN  /\ Ready(q, "exit") /\ FreeFds(q) # Fd
      /\ Becomes(q, [proc[q] EXCEPT !.ofile[d] = 0]) /\ Fileclose(proc[q].ofile[d])
      /\ UNCHANGED <<session, typed, fs, out, failed>>

Exit(q) ==
  /\ Ready(q, "exit") /\ FreeFds(q) = Fd
  /\ proc' = [c \in Process |-> IF c = q THEN [NoProc EXCEPT !.st = "zombie", !.parent = proc[q].parent]
                                ELSE IF proc[c].parent = q THEN [proc[c] EXCEPT !.parent = 1] ELSE proc[c]]
  /\ UNCHANGED <<session, typed, tables, failed>>

(* init's loop: a shell, and wait() until it is the shell that has exited.    *)
InitFork ==
  /\ Ready(1, "init") /\ Unused # {}
  /\ Fork(1, [proc[1] EXCEPT !.pc = "wait", !.rfd = Min(Unused)], [proc[1] EXCEPT !.pc = "getcmd", !.rfd = 0, !.todo = <<<<"open">>>>])

InitWait(c) ==
  /\ Ready(1, "wait") /\ c \in Children(1) /\ proc[c].st = "zombie"
  /\ proc' = [proc EXCEPT ![1].pc = IF c = proc[1].rfd THEN "init" ELSE "wait", ![c] = NoProc]
  /\ UNCHANGED <<session, typed, tables, failed>>

-----------------------------------------------------------------------------
(* main() of the shell *)

IsCd(l) == Len(l) >= 3 /\ SubSeq(l, 1, 3) = <<"c", "d", " ">>
Chdir(cwd, name) ==
  IF name = <<".", ".">> THEN Root ELSE IF cwd = Root /\ name \in Dir THEN name ELSE cwd

Getcmd(q) ==
  LET l == Head(typed)
  IN  /\ Ready(q, "getcmd") /\ typed # <<>>
      /\ typed' = Tail(typed)
      /\ Becomes(q, IF l = EOF THEN Exits(q)
                    ELSE IF IsCd(l) THEN [proc[q] EXCEPT !.cwd = Chdir(@, SubSeq(l, 4, Len(l)))]
                    ELSE [proc[q] EXCEPT !.pc = "main", !.line = l])
      /\ UNCHANGED <<session, tables, failed>>

Main(q) ==
  /\ Ready(q, "main")
  /\ Fork1(q, [proc[q] EXCEPT !.pc = "getcmd", !.line = <<>>, !.todo = <<<<"wait">>>>], [proc[q] EXCEPT !.pc = "parse"])

Parsed == [l \in UNION {Range(x.lines) : x \in Session} |-> Parsecmd(l)]
Parse(q) ==
  /\ Ready(q, "parse")
  /\ LET r == Parsed[proc[q].line]
     IN  Becomes(q, IF r.ok THEN [proc[q] EXCEPT !.pc = "run", !.line = <<>>, !.cmd = r.cmd] ELSE Exits(q))
  /\ UNCHANGED <<session, typed, tables, failed>>

-----------------------------------------------------------------------------
(* runcmd() *)

Runs(q, type) == Ready(q, "run") /\ proc[q].cmd.type = type
RunsNext(q, cmd, todo) == [proc[q] EXCEPT !.pc = "run", !.cmd = cmd, !.todo = todo, !.p = <<>>]

(* exec(): programs are in the root directory, and names are relative.        *)
RunExec(q) ==
  LET argv == proc[q].cmd.argv
  IN  /\ Runs(q, "EXEC")
      /\ Becomes(q, IF argv = <<>> \/ proc[q].cwd # Root \/ argv[1] \notin {Echo, Cat} THEN Exits(q)
                    ELSE IF argv[1] = Echo THEN [proc[q] EXCEPT !.pc = "echo", !.cmd = Nothing, !.data = Tail(argv)]
                    ELSE [proc[q] EXCEPT !.pc = "cat", !.cmd = Execcmd(Tail(argv)),
                                         !.todo = IF Len(argv) = 1 THEN <<>> ELSE <<<<"file", argv[2], "read">>>>])
      /\ UNCHANGED <<session, typed, tables, failed>>

RunRedir(q) ==
  LET cmd == proc[q].cmd
  IN  /\ Runs(q, "REDIR")
      /\ Becomes(q, RunsNext(q, cmd.cmd, <<<<"close", cmd.fd>>, <<"file", cmd.file, cmd.mode>>>>))
      /\ UNCHANGED <<session, typed, tables, failed>>

WaitsForLeftNot == <<>>
WaitsForLeft == <<<<"wait">>>>

RunList(q) ==
  /\ Runs(q, "LIST")
  /\ Fork1(q, RunsNext(q, proc[q].cmd.right, WaitsForLeft), RunsNext(q, proc[q].cmd.left, <<>>))

RunBack(q) ==
  /\ Runs(q, "BACK")
  /\ Fork1(q, Exits(q), RunsNext(q, proc[q].cmd.cmd, <<>>))

(* pipe(): two files, a page and two descriptors, or nothing. *)
RunPipe(q) ==
  LET s == Min(FreeSlots)
      t == Min(FreeSlots \ {s})
      g == Min(FreePages)
      d == Min(FreeFds(q))
      e == Min(FreeFds(q) \ {d})
      end(w) == [NoFile EXCEPT !.ref = 1, !.type = "pipe", !.obj = g, !.readable = ~w, !.writable = w]
  IN  /\ Runs(q, "PIPE")
      /\ IF Cardinality(FreeSlots) < 2 \/ FreePages = {} \/ Cardinality(FreeFds(q)) < 2
         THEN Becomes(q, Exits(q)) /\ failed' = TRUE /\ UNCHANGED <<ftable, pipe>>
         ELSE /\ ftable' = [ftable EXCEPT ![s] = end(FALSE), ![t] = end(TRUE)]
              /\ pipe' = [pipe EXCEPT ![g] = [buf |-> <<>>, readopen |-> TRUE, writeopen |-> TRUE]]
              /\ Becomes(q, [proc[q] EXCEPT !.pc = "left", !.p = <<d, e>>, !.ofile[d] = s, !.ofile[e] = t])
              /\ UNCHANGED failed
      /\ UNCHANGED <<session, typed, fs, out>>

Plumbing(fd, end, p) == <<<<"close", fd>>, <<"dup", end>>, <<"close", p[1]>>, <<"close", p[2]>>>>

RunLeft(q) ==
  LET p == proc[q].p
  IN  /\ Ready(q, "left")
      /\ Fork1(q, [proc[q] EXCEPT !.pc = "right"], RunsNext(q, proc[q].cmd.left, Plumbing(1, p[2], p)))

ParentPlumbingKeeps(p) == <<<<"close", p[1]>>, <<"wait">>, <<"wait">>>>
ParentPlumbing(p) == <<<<"close", p[1]>>, <<"close", p[2]>>, <<"wait">>, <<"wait">>>>

RunRight(q) ==
  LET p == proc[q].p
  IN  /\ Ready(q, "right")
      /\ Fork1(q, [Exits(q) EXCEPT !.todo = ParentPlumbing(p)], RunsNext(q, proc[q].cmd.right, Plumbing(0, p[1], p)))

-----------------------------------------------------------------------------
(* What programs do: echo writes its arguments, cat what it reads. *)

Overlay(d, off, w) == [i \in 1..Max({Len(d), off + 1}) |-> IF i = off + 1 THEN w ELSE d[i]]

(* write() of the next word; it fails without a reader. *)
Writes(q) == proc[q].st = "run" /\ proc[q].todo = <<>> /\ proc[q].pc \in {"echo", "cat"} /\ proc[q].data # <<>>
Written(q) == [proc[q] EXCEPT !.data = Tail(@)]

Write(q) ==
  LET s == proc[q].ofile[1]
      f == ftable[s]
      w == Head(proc[q].data)
  IN  /\ Writes(q) /\ s # 0 /\ f.writable
      /\ Becomes(q, Written(q))
      /\ \/ f.type = "console" /\ out' = Append(out, w) /\ UNCHANGED <<ftable, pipe, fs>>
         \/ /\ f.type = "pipe" /\ pipe[f.obj].readopen /\ Len(pipe[f.obj].buf) < PIPESIZE
            /\ pipe' = [pipe EXCEPT ![f.obj].buf = Append(@, w)] /\ UNCHANGED <<ftable, fs, out>>
         \/ /\ f.type = "file"
            /\ fs' = [fs EXCEPT ![f.name].data = Overlay(@, f.off, w)]
            /\ ftable' = [ftable EXCEPT ![s].off = @ + 1] /\ UNCHANGED <<pipe, out>>
      /\ UNCHANGED <<session, typed, failed>>

WriteFails(q) ==
  LET s == proc[q].ofile[1]
      f == ftable[s]
  IN  /\ Writes(q) /\ (s = 0 \/ ~f.writable \/ (f.type = "pipe" /\ ~pipe[f.obj].readopen))
      /\ Becomes(q, IF proc[q].pc = "cat" THEN Exits(q) ELSE Written(q))
      /\ UNCHANGED <<session, typed, tables, failed>>

EchoDone(q) ==
  /\ Ready(q, "echo") /\ proc[q].data = <<>>
  /\ Becomes(q, Exits(q))
  /\ UNCHANGED <<session, typed, tables, failed>>

Reads(q, type) ==
  Ready(q, "cat") /\ proc[q].data = <<>> /\ ftable[proc[q].ofile[proc[q].rfd]].type = type
Source(q) == ftable[proc[q].ofile[proc[q].rfd]]

(* cat() returns: main() goes on to the next file, if there is one. *)
CatNext(q) ==
  LET rest == Tail(proc[q].cmd.argv)
      close == <<<<"close", proc[q].rfd>>>>
  IN  IF proc[q].cmd.argv = <<>> THEN Exits(q)
      ELSE IF rest = <<>> THEN [Exits(q) EXCEPT !.todo = close]
      ELSE [proc[q] EXCEPT !.cmd = Execcmd(rest), !.rfd = 0, !.todo = Append(close, <<"file", rest[1], "read">>)]

ReadConsole(q) ==
  /\ Reads(q, "console") /\ typed # <<>>
  /\ typed' = Tail(typed)
  /\ Becomes(q, IF Head(typed) = EOF THEN CatNext(q) ELSE [proc[q] EXCEPT !.data = <<Head(typed)>>])
  /\ UNCHANGED <<session, tables, failed>>

ReadPipe(q) ==
  LET g == Source(q).obj
  IN  /\ Reads(q, "pipe") /\ (pipe[g].buf # <<>> \/ ~pipe[g].writeopen)
      /\ Becomes(q, IF pipe[g].buf = <<>> THEN CatNext(q) ELSE [proc[q] EXCEPT !.data = pipe[g].buf])
      /\ pipe' = [pipe EXCEPT ![g].buf = <<>>]
      /\ UNCHANGED <<session, typed, ftable, fs, out, failed>>

ReadFile(q) ==
  LET f == Source(q)
      d == fs[f.name].data
  IN  /\ Reads(q, "file")
      /\ Becomes(q, IF f.off >= Len(d) THEN CatNext(q) ELSE [proc[q] EXCEPT !.data = SubSeq(d, f.off + 1, Len(d))])
      /\ ftable' = [ftable EXCEPT ![proc[q].ofile[proc[q].rfd]].off = Max({@, Len(d)})]
      /\ UNCHANGED <<session, typed, pipe, fs, out, failed>>

-----------------------------------------------------------------------------
Step(q) ==
  \/ Close(q) \/ Dup(q) \/ OpenFile(q) \/ OpenFails(q) \/ OpenConsole(q) \/ Wait(q) \/ ExitClose(q) \/ Exit(q)
  \/ Getcmd(q) \/ Main(q) \/ Parse(q)
  \/ RunExec(q) \/ RunRedir(q) \/ RunList(q) \/ RunBack(q) \/ RunPipe(q) \/ RunLeft(q) \/ RunRight(q)
  \/ Write(q) \/ WriteFails(q) \/ EchoDone(q) \/ ReadConsole(q) \/ ReadPipe(q) \/ ReadFile(q)
Init1 == InitFork \/ \E c \in Process : InitWait(c)

ShellNext == Init1 \/ \E q \in Process : Step(q)

(* The scheduler gives every process its turn, again and again. *)
ShellFairness == WF_shellvars(Init1) /\ \A q \in Process : WF_shellvars(Step(q))

-----------------------------------------------------------------------------
(* What a command means: a function on [fs, in, out, cwd], where in and out   *)
(* are what can be read from and has been written to its descriptors 0 and 1. *)

FirstEOF(in) == IF EOF \in Range(in) THEN Min({i \in DOMAIN in : in[i] = EOF}) ELSE Len(in) + 1
Overlaid(d, o) == o \o SubSeq(d, Len(o) + 1, Len(d))

RECURSIVE CatFiles(_, _)
CatFiles(names, m) ==
  IF names = <<>> \/ ~m.fs[<<m.cwd, Head(names)>>].there THEN m
  ELSE CatFiles(Tail(names), [m EXCEPT !.out = @ \o m.fs[<<m.cwd, Head(names)>>].data])

MeansProgram(argv, m) ==
  LET k == FirstEOF(m.in)
  IN  IF argv = <<>> \/ m.cwd # Root THEN m
      ELSE IF argv[1] = Echo THEN [m EXCEPT !.out = @ \o Tail(argv)]
      ELSE IF argv[1] # Cat THEN m
      ELSE IF Len(argv) > 1 THEN CatFiles(Tail(argv), m)
      ELSE [m EXCEPT !.out = @ \o SubSeq(m.in, 1, k - 1), !.in = SubSeq(m.in, k + 1, Len(m.in))]

RECURSIVE Means(_, _)
Means(cmd, m) ==
  CASE cmd.type = "EXEC" -> MeansProgram(cmd.argv, m)
    [] cmd.type = "LIST" -> Means(cmd.right, Means(cmd.left, m))
    [] cmd.type = "BACK" -> Means(cmd.cmd, m)
    [] cmd.type = "PIPE" ->
         LET l == Means(cmd.left, [m EXCEPT !.out = <<>>])
             r == Means(cmd.right, [l EXCEPT !.in = l.out, !.out = m.out])
         IN  [r EXCEPT !.in = l.in]
    [] cmd.type = "REDIR" /\ cmd.mode = "read" ->
         LET n == <<m.cwd, cmd.file>>
         IN  IF m.fs[n].there THEN [Means(cmd.cmd, [m EXCEPT !.in = m.fs[n].data]) EXCEPT !.in = m.in] ELSE m
    [] OTHER ->
         LET n == <<m.cwd, cmd.file>>
             old == IF cmd.mode = "trunc" THEN <<>> ELSE m.fs[n].data
             r == Means(cmd.cmd, [m EXCEPT !.fs[n] = [there |-> TRUE, data |-> old], !.out = <<>>])
         IN  [r EXCEPT !.fs[n].data = Overlaid(@, r.out), !.out = m.out]

MeansLine(m) ==
  LET l == Head(m.in)
      n == [m EXCEPT !.in = Tail(@)]
      r == Parsed[l]
  IN  IF l = EOF THEN [n EXCEPT !.cwd = Root]
      ELSE IF IsCd(l) THEN [n EXCEPT !.cwd = Chdir(@, SubSeq(l, 4, Len(l)))]
      ELSE IF r.ok THEN Means(r.cmd, n) ELSE n

RECURSIVE MeansUntil(_, _)
MeansUntil(k, m) == IF Len(m.in) <= k THEN m ELSE MeansUntil(k, MeansLine(m))

-----------------------------------------------------------------------------
(* Properties. *)

Alone(q) == \A c \in Process \ {1, q} : proc[c].st \in {"unused", "other"}
Prompts(q) == Ready(q, "getcmd") /\ Alone(q)

(* runcmd(): forked, piped, redirected and listed processes leave in files    *)
(* and on the console exactly what the command line means, in whatever order  *)
(* they run.                                                                  *)
OutputRight ==
  \A q \in Process \ {1} : Prompts(q) /\ ~failed =>
    LET m == MeansUntil(Len(typed), [fs |-> NoFiles, in |-> session.lines, out |-> <<>>, cwd |-> Root])
    IN  <<fs, out, typed, proc[q].cwd>> = <<m.fs, m.out, m.in, m.cwd>>

(* fork(), dup(), close(), pipe() and exit(), failed ones too: a file is      *)
(* counted once for every descriptor, a pipe's end is open exactly while some *)
(* file is that end, and the shell itself keeps three descriptors.            *)
HasEnd(g, w) == \E s \in Slot : ftable[s].type = "pipe" /\ ftable[s].obj = g /\ ftable[s].writable = w

(* Every line that is typed is run to its end, whatever fails: pipelines see  *)
(* end-of-file, all children are waited for, and the prompt comes back.       *)
PromptReturns == proc[1].st = "run" => <>[](typed = <<>> /\ \E q \in Process \ {1} : Prompts(q))
=============================================================================
