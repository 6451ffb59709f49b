------------------------------- MODULE Library -------------------------------
(* Loops over characters that the rest stands on: memmove() (kernel/string.c,  *)
(* user/ulib.c), the copies between kernel and user memory (kernel/vm.c), the  *)
(* names of directory entries (kernel/fs.c, kernel/string.c), and numbers      *)
(* (printint() of kernel/printf.c and user/printf.c, atoi() of user/ulib.c).   *)
(* A C string is the sequence of its characters, and CharOf() its NUL too.     *)
EXTENDS Integers, SequencesExt, FiniteSetsExt

CONSTANTS
  LPGSIZE,     \* PGSIZE
  LDIRSIZ,     \* DIRSIZ
  LINT,        \* number of values of an int
  Libcall      \* the calls that are made

ASSUME LibraryAssumption == {LPGSIZE, LDIRSIZ} \subseteq Nat \ {0} /\ LINT % 2 = 0

NUL0 == "0"
CharOf(s, i) == IF i <= Len(s) THEN s[i] ELSE NUL0

-----------------------------------------------------------------------------
(* memmove(): memory m, n places from s to d. *)
RECURSIVE Upward(_, _, _, _)
Upward(m, d, s, n) == IF n = 0 THEN m ELSE Upward([m EXCEPT ![d] = m[s]], d + 1, s + 1, n - 1)
RECURSIVE Downward(_, _, _, _)
Downward(m, d, s, n) ==
  IF n = 0 THEN m ELSE Downward([m EXCEPT ![d + n - 1] = m[s + n - 1]], d, s, n - 1)

OverlapsFar(d, s, n) == s < d /\ s + n > d + 1
Overlaps(d, s, n) == s < d /\ s + n > d
Memmove(m, d, s, n) == IF Overlaps(d, s, n) THEN Downward(m, d, s, n) ELSE Upward(m, d, s, n)
UserMemmove(m, d, s, n) == IF s > d THEN Upward(m, d, s, n) ELSE Downward(m, d, s, n)

Moved(m, d, s, n) == [a \in DOMAIN m |-> IF a \in d..(d + n - 1) THEN m[s + a - d] ELSE m[a]]

-----------------------------------------------------------------------------
(* copyin(), copyout(), copyinstr(): pt[g] is the frame of page g, 0 if there *)
(* is none that walkaddr() accepts; ph[f][i] is place i of frame f.           *)
Rounddown(va) == va - (va % LPGSIZE)
Walkaddr(pt, va) == IF va \div LPGSIZE \in DOMAIN pt THEN pt[va \div LPGSIZE] ELSE 0
Fits(va, n) == Min({LPGSIZE - (va - Rounddown(va)), n})
NextPage(va) == Rounddown(va) + LPGSIZE

RECURSIVE Copyin(_, _, _, _, _)
Copyin(pt, ph, dst, va, n) ==
  IF n = 0 THEN [ok |-> TRUE, dst |-> dst]
  ELSE IF Walkaddr(pt, va) = 0 THEN [ok |-> FALSE, dst |-> dst]
  ELSE Copyin(pt, ph, dst \o [i \in 1..Fits(va, n) |-> ph[Walkaddr(pt, va)][(va % LPGSIZE) + i - 1]],
              NextPage(va), n - Fits(va, n))

Stored(fr, at, src, n) == [i \in DOMAIN fr |-> IF i \in at..(at + n - 1) THEN src[i - at + 1] ELSE fr[i]]
RECURSIVE Copyout(_, _, _, _)
Copyout(pt, ph, va, src) ==
  IF src = <<>> THEN [ok |-> TRUE, ph |-> ph]
  ELSE IF Walkaddr(pt, va) = 0 THEN [ok |-> FALSE, ph |-> ph]
  ELSE Copyout(pt, [ph EXCEPT ![Walkaddr(pt, va)] = Stored(@, va % LPGSIZE, src, Fits(va, Len(src)))],
               NextPage(va), SubSeq(src, Fits(va, Len(src)) + 1, Len(src)))

(* The inner loop stops at a NUL or at the end of the page or of max. *)
Run(ph, f, at, n) == [i \in 1..n |-> ph[f][at + i - 1]]
UpToNul(s) == IF NUL0 \in Range(s) THEN SubSeq(s, 1, Min({i \in DOMAIN s : s[i] = NUL0})) ELSE s
RECURSIVE Copyinstr(_, _, _, _, _)
Copyinstr(pt, ph, dst, va, max) ==
  IF dst # <<>> /\ Last(dst) = NUL0 THEN [ok |-> TRUE, dst |-> dst]
  ELSE IF max = 0 \/ Walkaddr(pt, va) = 0 THEN [ok |-> FALSE, dst |-> dst]
  ELSE Copyinstr(pt, ph, dst \o UpToNul(Run(ph, Walkaddr(pt, va), va % LPGSIZE, Fits(va, max))),
                 NextPage(va), max - Fits(va, max))

(* What they mean: the places from va on, as far as pages are mapped.         *)
Place(pt, va) == <<Walkaddr(pt, va), va % LPGSIZE>>
Reach(pt, va, n) == Max({k \in 0..n : \A a \in va..(va + k - 1) : Walkaddr(pt, a) # 0})
Bytes(pt, ph, va, n) == [i \in 1..n |-> ph[Place(pt, va + i - 1)[1]][Place(pt, va + i - 1)[2]]]
CopyinMeans(c) == [ok |-> Reach(c.pt, c.va, c.n) = c.n, dst |-> Bytes(c.pt, c.ph, c.va, Reach(c.pt, c.va, c.n))]
CopyoutMeans(c) ==
  LET k == Reach(c.pt, c.va, Len(c.src))
  IN  [ok |-> k = Len(c.src),
       ph |-> [f \in DOMAIN c.ph |-> [o \in DOMAIN c.ph[f] |->
                 LET to == {i \in 1..k : Place(c.pt, c.va + i - 1) = <<f, o>>}
                 IN  IF to = {} THEN c.ph[f][o] ELSE c.src[Max(to)]]]]
CopyinstrMeans(c) ==
  LET s == UpToNul(Bytes(c.pt, c.ph, c.va, Reach(c.pt, c.va, c.n)))
  IN  [ok |-> s # <<>> /\ Last(s) = NUL0, dst |-> s]

-----------------------------------------------------------------------------
(* A path's elements, as namex() takes them with skipelem(), as dirlink()     *)
(* stores them with strncpy() and dirlookup() compares them with strncmp().   *)
Slash(p, i) == Min({j \in i..(Len(p) + 1) : j > Len(p) \/ p[j] = "/"})
NoSlash(p, i) == Min({j \in i..(Len(p) + 1) : j > Len(p) \/ p[j] # "/"})
Name(s) == IF Len(s) >= LDIRSIZ THEN SubSeq(s, 1, LDIRSIZ) ELSE s
RECURSIVE Elements(_, _)
Elements(p, i) ==
  LET from == NoSlash(p, i)
  IN  IF from > Len(p) THEN <<>>
      ELSE <<Name(SubSeq(p, from, Slash(p, from) - 1))>> \o Elements(p, Slash(p, from))

RECURSIVE Strncpy(_, _, _)
Strncpy(s, t, n) ==
  IF Len(s) = n THEN s ELSE Strncpy(Append(s, CharOf(t, Len(s) + 1)), t, n)
RECURSIVE Strncmp(_, _, _, _)
Strncmp(p, q, i, n) ==
  IF n = 0 THEN TRUE
  ELSE IF CharOf(p, i) # NUL0 /\ CharOf(p, i) = CharOf(q, i) THEN Strncmp(p, q, i + 1, n - 1)
  ELSE CharOf(p, i) = CharOf(q, i)
Namecmp(s, t) == Strncmp(s, t, 1, LDIRSIZ)

Looksup(p, q) == [i \in DOMAIN Elements(p, 1) |-> i \in DOMAIN Elements(q, 1)
                    /\ Namecmp(Elements(p, 1)[i], Strncpy(<<>>, Elements(q, 1)[i], LDIRSIZ))]

(* What names mean: the pieces between slashes, alike if they agree as far as *)
(* an entry has room.                                                         *)
Pieces(p) ==
  LET at == {i \in DOMAIN p : p[i] # "/" /\ (i = 1 \/ p[i - 1] = "/")}
      seq == SetToSortSeq(at, <)
  IN  [k \in DOMAIN seq |-> SubSeq(p, seq[k], Min({j \in seq[k]..(Len(p) + 1) : j > Len(p) \/ p[j] = "/"}) - 1)]
Alike(s, t) == \A i \in 1..LDIRSIZ : (i > Len(s) /\ i > Len(t)) \/ (i <= Len(s) /\ i <= Len(t) /\ s[i] = t[i])
LooksupMeans(p, q) == [i \in DOMAIN Pieces(p) |-> i \in DOMAIN Pieces(q) /\ Alike(Pieces(p)[i], Pieces(q)[i])]
-----------------------------------------------------------------------------
(* printint(), its digits from the first to the last, and atoi().             *)
RECURSIVE Digits(_, _)
Digits(x, base) == IF x < base THEN <<x>> ELSE Append(Digits(x \div base, base), x % base)
Printint(xx, base, sign) ==
  [minus |-> sign /\ xx < 0, digits |-> Digits((IF sign /\ xx < 0 THEN -xx ELSE xx) % LINT, base)]
Atoi(s) == FoldLeft(LAMBDA n, d : n * 10 + d, 0, s)

Value(digits, base) == FoldLeft(LAMBDA n, d : n * base + d, 0, digits)
PrintintMeans(c, r) ==
  /\ Value(r.digits, c.base) * (IF r.minus THEN -1 ELSE 1) = IF c.sign THEN c.x ELSE c.x % LINT
  /\ Len(r.digits) > 1 => r.digits[1] # 0
  /\ c.base = 10 /\ c.x >= 0 => Atoi(r.digits) = c.x

-----------------------------------------------------------------------------
VARIABLES libcall, libresult    \* a call, and <<>> or what it has come to

libvars == <<libcall, libresult>>

NoCall == [op |-> "none"]
LibInit(c) == libcall = c /\ libresult = <<>>
LibIdle == LibInit(NoCall)

Result(c) ==
  CASE c.op = "memmove" -> Memmove(c.m, c.d, c.s, c.n)
    [] c.op = "umemmove" -> UserMemmove(c.m, c.d, c.s, c.n)
    [] c.op = "copyin" -> Copyin(c.pt, c.ph, <<>>, c.va, c.n)
    [] c.op = "copyout" -> Copyout(c.pt, c.ph, c.va, c.src)
    [] c.op = "copyinstr" -> Copyinstr(c.pt, c.ph, <<>>, c.va, c.n)
    [] c.op = "lookup" -> Looksup(c.p, c.q)
    [] c.op = "printint" -> Printint(c.x, c.base, c.sign)

LibNext ==
  /\ libcall # NoCall /\ libresult = <<>>
  /\ libresult' = <<Result(libcall)>>
  /\ UNCHANGED libcall

ResultMeans(c, r) ==
  CASE c.op \in {"memmove", "umemmove"} -> r = Moved(c.m, c.d, c.s, c.n)
    [] c.op = "copyin" -> r = CopyinMeans(c)
    [] c.op = "copyout" -> r = CopyoutMeans(c)
    [] c.op = "copyinstr" -> r = CopyinstrMeans(c)
    [] c.op = "lookup" -> r = LooksupMeans(c.p, c.q)
    [] c.op = "printint" -> PrintintMeans(c, r)

(* memmove() moves what was there before it, however the two places overlap;  *)
(* copyin(), copyout() and copyinstr() move exactly the places from va on, up *)
(* to the first page that is not mapped, and fail if it comes too early; a    *)
(* lookup finds an entry exactly when the names agree as far as an entry      *)
(* holds them, wherever the slashes are; and printed numbers, the smallest    *)
(* int included, are the numbers.                                             *)
LibraryRight == libresult # <<>> => ResultMeans(libcall, libresult[1])
=============================================================================
