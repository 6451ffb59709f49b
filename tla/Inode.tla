------------------------------- MODULE Inode --------------------------------
(* The inode table and the directory tree (kernel/fs.c: ialloc, iupdate, iget,*)
(* idup, ilock, iunlock, iput, dirlookup, dirlink, namex) under the calls that*)
(* change the tree (kernel/sysfile.c: open, mkdir, link, unlink, chdir, close)*)
(* by several processes.  A step runs up to the next lock it may wait for.    *)
(* itable has an entry for every inode of the disk; a directory's dirents are *)
(* a function of its names; a file has no contents.                           *)
EXTENDS Naturals, Sequences, FiniteSetsExt

CONSTANTS
  Proc,
  NINODES,   \* inodes on disk, numbered from 1, the root
  Name,      \* names besides "." and ".."
  MAXLINK,   \* bound on a file's links when link() is called
  Call,      \* system calls: [op, abs, path] and for link also [nabs, new]
  None

ASSUME InodesAssumption == {NINODES, MAXLINK} \subseteq Nat \ {0}
ASSUME CallAssumption == {"create", "mkdir", "link"} \cap {c.op : c \in Call} # {} /\ None \notin Proc

ROOTINO == 1
Inum == 1..NINODES
Dots == {".", ".."}
Dirent == Name \cup Dots
NoEnts == [n \in Dirent |-> 0]
NoEntry == [ref |-> 0, valid |-> FALSE, type |-> "none", nlink |-> 0, lock |-> None]

VARIABLES
  dinode,    \* type and nlink on disk
  dir,       \* the entries of each directory, 0 for none
  itable,    \* the in-memory inodes
  cwd, ofile,
  r,         \* where each process is, and its locals
  panicked   \* what the kernel has panicked at, or "no"

vars == <<dinode, dir, itable, cwd, ofile, r, panicked>>

(* Not in a call.  put and then: the inode iput() drops and what follows it;  *)
(* par: whether namex() is to stop at the parent.                             *)
Idle == [pc |-> "idle", call |-> None, par |-> FALSE, path |-> <<>>, name |-> ".",
         cur |-> 0, ip |-> 0, dp |-> 0, put |-> 0, then |-> "idle"]

(* The image of mkfs: a root directory.  Everybody is in it. *)
Init ==
  /\ dinode = [x \in Inum |-> IF x = ROOTINO THEN [type |-> "dir", nlink |-> 1]
                                             ELSE [type |-> "none", nlink |-> 0]]
  /\ dir = [x \in Inum |-> IF x = ROOTINO THEN [n \in Dirent |-> IF n \in Dots THEN ROOTINO ELSE 0]
                                          ELSE NoEnts]
  /\ itable = [x \in Inum |-> IF x = ROOTINO THEN [NoEntry EXCEPT !.ref = Cardinality(Proc)]
                                             ELSE NoEntry]
  /\ cwd = [p \in Proc |-> ROOTINO] /\ ofile = [p \in Proc |-> 0]
  /\ r = [p \in Proc |-> Idle]
  /\ panicked = "no"

-----------------------------------------------------------------------------
(* Inodes in memory. *)

At(p, l) == panicked = "no" /\ r[p].pc = l

(* iget(), idup(): the entry of x once more, or a new one that is not valid. *)
Iget(t, x) ==
  [t EXCEPT ![x] = IF t[x].ref > 0 THEN [t[x] EXCEPT !.ref = @ + 1] ELSE [NoEntry EXCEPT !.ref = 1]]

(* ilock(): what x's entry holds once it is locked.  dinode's type 0 panics. *)
Loaded(x) ==
  IF itable[x].valid THEN itable[x]
  ELSE [itable[x] EXCEPT !.valid = TRUE, !.type = dinode[x].type, !.nlink = dinode[x].nlink]
CanLock(x) == itable[x].lock = None /\ Loaded(x).type # "none"
Ilock(p, x) == [itable EXCEPT ![x] = [Loaded(x) EXCEPT !.lock = p]]
Iunlock(t, x) == [t EXCEPT ![x].lock = None]

(* iput(): the last reference to an inode without links. *)
MustFree(x) == itable[x].ref = 1 /\ itable[x].valid /\ itable[x].nlink = 0

(* The inode each process is about to lock. *)
Wanted(p) ==
  CASE r[p].pc = "namex" /\ r[p].path # <<>> -> r[p].cur
    [] r[p].pc \in {"create", "unlink", "link"} -> r[p].dp
    [] r[p].pc \in {"open", "create_init", "create_found", "unlink_ip", "link_ip", "link_bad", "chdir"} -> r[p].ip
    [] r[p].pc = "iput" /\ MustFree(r[p].put) -> r[p].put
    [] OTHER -> 0

IlockPanics(p) ==
  LET x == Wanted(p)
  IN  /\ panicked = "no" /\ r[p].pc # "iput" /\ x # 0
      /\ itable[x].lock = None /\ Loaded(x).type = "none"
      /\ panicked' = "ilock: no type"
      /\ UNCHANGED <<dinode, dir, itable, cwd, ofile, r>>

(* iput(x), then on at l. *)
Put(f, x, l) == [f EXCEPT !.pc = "iput", !.put = x, !.then = l]
AfterPut(p) == IF r[p].then = "idle" THEN Idle ELSE [r[p] EXCEPT !.pc = r[p].then, !.put = 0, !.then = "idle"]

(* An entry without references keeps nothing that iget() does not reset. *)
Drop(p) ==
  LET x == r[p].put
  IN  /\ itable' = [itable EXCEPT ![x] = IF @.ref = 1 THEN NoEntry ELSE [@ EXCEPT !.ref = itable[x].ref - 1]]
      /\ r' = [r EXCEPT ![p] = AfterPut(p)]

Iput(p) ==
  /\ At(p, "iput")
  /\ IF MustFree(r[p].put)
     THEN /\ itable[r[p].put].lock = None
          /\ itable' = [itable EXCEPT ![r[p].put].lock = p]
          /\ r' = [r EXCEPT ![p].pc = "iput_free"]
     ELSE Drop(p)
  /\ UNCHANGED <<dinode, dir, cwd, ofile, panicked>>

(* itrunc(), type 0, iupdate() *)
IputFree(p) ==
  /\ At(p, "iput_free")
  /\ itable' = [itable EXCEPT ![r[p].put].type = "none"]
  /\ dinode' = [dinode EXCEPT ![r[p].put] = [type |-> "none", nlink |-> 0]]
  /\ dir' = [dir EXCEPT ![r[p].put] = NoEnts]
  /\ r' = [r EXCEPT ![p].pc = "iput_valid"]
  /\ UNCHANGED <<cwd, ofile, panicked>>

IputKeepsValid(p) ==
  /\ At(p, "iput_valid")
  /\ itable' = [itable EXCEPT ![r[p].put].lock = None]
  /\ r' = [r EXCEPT ![p].pc = "iput_dec"]
  /\ UNCHANGED <<dinode, dir, cwd, ofile, panicked>>
IputValid(p) ==
  /\ At(p, "iput_valid")
  /\ itable' = [itable EXCEPT ![r[p].put].valid = FALSE, ![r[p].put].lock = None]
  /\ r' = [r EXCEPT ![p].pc = "iput_dec"]
  /\ UNCHANGED <<dinode, dir, cwd, ofile, panicked>>

IputDec(p) ==
  /\ At(p, "iput_dec")
  /\ Drop(p)
  /\ UNCHANGED <<dinode, dir, cwd, ofile, panicked>>

-----------------------------------------------------------------------------
(* namex() *)

(* The node that a path starts from. *)
From(p, abs) == IF abs THEN ROOTINO ELSE cwd[p]

Start(p, c) ==
  /\ At(p, "idle")
  /\ c.op = "link" => \A x \in Inum : dinode[x].nlink < MAXLINK
  /\ itable' = Iget(itable, From(p, c.abs))
  /\ r' = [r EXCEPT ![p] = [Idle EXCEPT !.pc = "namex", !.call = c, !.path = c.path,
              !.cur = From(p, c.abs), !.par = c.op \in {"create", "mkdir", "unlink"}]]
  /\ UNCHANGED <<dinode, dir, cwd, ofile, panicked>>

(* Where a call goes on without a node, and with one. *)
Failed(p) == IF r[p].call.op = "link" /\ r[p].par THEN "link_bad" ELSE "idle"
Found(p) ==
  CASE r[p].call.op \in {"create", "mkdir"} -> "create"
    [] r[p].call.op = "link" -> IF r[p].par THEN "link" ELSE "link_ip"
    [] r[p].call.op \in {"open", "openrw"} -> "open"
    [] OTHER -> r[p].call.op

(* dirlookup(): the inode that d has under name n, or 0. *)
Dirlookup(d, n) == dir[d][n]

(* One element of the path: the next inode is referenced before this one is   *)
(* unlocked and put.                                                          *)
Namex(p) ==
  LET x == r[p].cur
      n == Head(r[p].path)
      t == Iunlock(Ilock(p, x), x)
      last == r[p].par /\ Len(r[p].path) = 1
  IN  /\ At(p, "namex") /\ r[p].path # <<>> /\ CanLock(x)
      /\ \/ /\ Loaded(x).type # "dir" \/ (~last /\ Dirlookup(x, n) = 0)
            /\ itable' = t
            /\ r' = [r EXCEPT ![p] = Put(@, x, Failed(p))]
         \/ /\ Loaded(x).type = "dir" /\ last
            /\ itable' = t
            /\ r' = [r EXCEPT ![p].pc = Found(p), ![p].dp = x, ![p].name = n, ![p].cur = 0]
         \/ /\ Loaded(x).type = "dir" /\ ~last /\ Dirlookup(x, n) # 0
            /\ itable' = Iget(t, Dirlookup(x, n))
            /\ r' = [r EXCEPT ![p] = Put([@ EXCEPT !.cur = Dirlookup(x, n), !.path = Tail(@)], x, "namex")]
      /\ UNCHANGED <<dinode, dir, cwd, ofile, panicked>>

NamexEnd(p) ==
  /\ At(p, "namex") /\ r[p].path = <<>>
  /\ r' = IF r[p].par THEN [r EXCEPT ![p] = Put(@, r[p].cur, Failed(p))]
          ELSE [r EXCEPT ![p].pc = Found(p), ![p].ip = r[p].cur, ![p].cur = 0]
  /\ UNCHANGED <<dinode, dir, itable, cwd, ofile, panicked>>

-----------------------------------------------------------------------------
(* create() *)

FreeInums == {x \in Inum : dinode[x].type = "none"}
NewType(p) == IF r[p].call.op = "mkdir" THEN "dir" ELSE "file"

(* ilock(dp), dirlookup(), and for a new name ialloc() with its iget(). *)
Create(p) ==
  LET d == r[p].dp
      x == Dirlookup(d, r[p].name)
      new == Min(FreeInums)
  IN  /\ At(p, "create") /\ CanLock(d)
      /\ \/ /\ x # 0
            /\ itable' = Iget(Iunlock(Ilock(p, d), d), x)
            /\ r' = [r EXCEPT ![p] = Put([@ EXCEPT !.ip = x, !.dp = 0], d, "create_found")]
            /\ UNCHANGED <<dinode, panicked>>
         \/ /\ x = 0 /\ FreeInums # {}
            /\ itable' = Iget(Ilock(p, d), new)
            /\ dinode' = [dinode EXCEPT ![new] = [type |-> NewType(p), nlink |-> 0]]
            /\ r' = [r EXCEPT ![p].pc = "create_init", ![p].ip = new]
            /\ UNCHANGED panicked
         \/ /\ x = 0 /\ FreeInums = {}
            /\ panicked' = "ialloc: no inodes"
            /\ UNCHANGED <<dinode, itable, r>>
      /\ UNCHANGED <<dir, cwd, ofile>>

CreateFound(p) ==
  LET x == r[p].ip
  IN  /\ At(p, "create_found") /\ CanLock(x)
      /\ IF NewType(p) = "file" /\ Loaded(x).type = "file"
         THEN /\ itable' = Ilock(p, x)
              /\ r' = [r EXCEPT ![p].pc = "opened"]
         ELSE /\ itable' = Iunlock(Ilock(p, x), x)
              /\ r' = [r EXCEPT ![p] = Put(@, x, "idle")]
      /\ UNCHANGED <<dinode, dir, cwd, ofile, panicked>>

(* iupdate(): the disk gets the links of the inodes in S. *)
Iupdate(t, S) == [x \in Inum |-> IF x \in S THEN [type |-> t[x].type, nlink |-> t[x].nlink] ELSE dinode[x]]

(* The new inode gets its link, "." and "..", then its name in dp. *)
CreateInit(p) ==
  LET x == r[p].ip
      d == r[p].dp
      one == [Ilock(p, x) EXCEPT ![x].nlink = 1]
      t == IF NewType(p) = "dir" THEN [one EXCEPT ![d].nlink = @ + 1] ELSE one
      ents == IF NewType(p) = "dir" THEN [NoEnts EXCEPT !["."] = x, ![".."] = d] ELSE NoEnts
  IN  /\ At(p, "create_init") /\ CanLock(x)
      /\ itable' = Iunlock(t, d)
      /\ dinode' = Iupdate(t, {x, d})
      /\ dir' = [dir EXCEPT ![x] = ents, ![d][r[p].name] = x]
      /\ r' = [r EXCEPT ![p] = Put([@ EXCEPT !.dp = 0], d, "opened")]
      /\ UNCHANGED <<cwd, ofile, panicked>>

(* The rest of sys_open() and sys_mkdir(), with ip locked.  A process has one *)
(* descriptor.                                                                *)
Opened(p) ==
  LET x == r[p].ip
  IN  /\ At(p, "opened")
      /\ itable' = Iunlock(itable, x)
      /\ IF r[p].call.op # "mkdir" /\ ofile[p] = 0
         THEN /\ ofile' = [ofile EXCEPT ![p] = x]
              /\ r' = [r EXCEPT ![p] = Idle]
         ELSE /\ r' = [r EXCEPT ![p] = Put(@, x, "idle")]
              /\ UNCHANGED ofile
      /\ UNCHANGED <<dinode, dir, cwd, panicked>>

(* sys_open() without O_CREATE: a directory is opened for reading only. *)
Open(p) ==
  LET x == r[p].ip
  IN  /\ At(p, "open") /\ CanLock(x)
      /\ IF Loaded(x).type = "dir" /\ r[p].call.op = "openrw"
         THEN /\ itable' = Iunlock(Ilock(p, x), x)
              /\ r' = [r EXCEPT ![p] = Put(@, x, "idle")]
         ELSE /\ itable' = Ilock(p, x)
              /\ r' = [r EXCEPT ![p].pc = "opened"]
      /\ UNCHANGED <<dinode, dir, cwd, ofile, panicked>>

Close(p) ==
  /\ At(p, "idle") /\ ofile[p] # 0
  /\ ofile' = [ofile EXCEPT ![p] = 0]
  /\ r' = [r EXCEPT ![p] = Put(@, ofile[p], "idle")]
  /\ UNCHANGED <<dinode, dir, itable, cwd, panicked>>

(* sys_chdir() *)
Chdir(p) ==
  LET x == r[p].ip
  IN  /\ At(p, "chdir") /\ CanLock(x)
      /\ itable' = Iunlock(Ilock(p, x), x)
      /\ IF Loaded(x).type = "dir"
         THEN /\ cwd' = [cwd EXCEPT ![p] = x]
              /\ r' = [r EXCEPT ![p] = Put(@, cwd[p], "idle")]
         ELSE /\ r' = [r EXCEPT ![p] = Put(@, x, "idle")]
              /\ UNCHANGED cwd
      /\ UNCHANGED <<dinode, dir, ofile, panicked>>

-----------------------------------------------------------------------------
(* sys_link(): the link is counted first, then the parent of the new name is  *)
(* looked up.                                                                 *)
UncountedLink(t, x) == t
CountedLink(t, x) == [t EXCEPT ![x].nlink = @ + 1]

LinkIp(p) ==
  LET x == r[p].ip
      c == r[p].call
      t == Iunlock(CountedLink(Ilock(p, x), x), x)
  IN  /\ At(p, "link_ip") /\ CanLock(x)
      /\ IF Loaded(x).type = "dir"
         THEN /\ itable' = Iunlock(Ilock(p, x), x)
              /\ r' = [r EXCEPT ![p] = Put(@, x, "idle")]
              /\ UNCHANGED dinode
         ELSE /\ itable' = Iget(t, From(p, c.nabs))
              /\ dinode' = Iupdate(t, {x})
              /\ r' = [r EXCEPT ![p] = [@ EXCEPT !.pc = "namex", !.path = c.new, !.par = TRUE,
                                                 !.cur = From(p, c.nabs)]]
      /\ UNCHANGED <<dir, cwd, ofile, panicked>>

(* dirlink(), which keeps dp locked while it puts an entry that it found. *)
Link(p) ==
  LET d == r[p].dp
      x == Dirlookup(d, r[p].name)
  IN  /\ At(p, "link") /\ CanLock(d)
      /\ IF x # 0
         THEN /\ itable' = Iget(Ilock(p, d), x)
              /\ r' = [r EXCEPT ![p] = Put(@, x, "link_exists")]
              /\ UNCHANGED dir
         ELSE /\ itable' = Iunlock(Ilock(p, d), d)
              /\ dir' = [dir EXCEPT ![d][r[p].name] = r[p].ip]
              /\ r' = [r EXCEPT ![p] = Put([@ EXCEPT !.dp = 0], d, "link_done")]
      /\ UNCHANGED <<dinode, cwd, ofile, panicked>>

LinkExists(p) ==
  /\ At(p, "link_exists")
  /\ itable' = Iunlock(itable, r[p].dp)
  /\ r' = [r EXCEPT ![p] = Put([@ EXCEPT !.dp = 0], r[p].dp, "link_bad")]
  /\ UNCHANGED <<dinode, dir, cwd, ofile, panicked>>

LinkDone(p) ==
  /\ At(p, "link_done")
  /\ r' = [r EXCEPT ![p] = Put(@, r[p].ip, "idle")]
  /\ UNCHANGED <<dinode, dir, itable, cwd, ofile, panicked>>

LinkBad(p) ==
  LET x == r[p].ip
      t == Iunlock([Ilock(p, x) EXCEPT ![x].nlink = @ - 1], x)
  IN  /\ At(p, "link_bad") /\ CanLock(x)
      /\ itable' = t
      /\ dinode' = Iupdate(t, {x})
      /\ r' = [r EXCEPT ![p] = Put(@, x, "idle")]
      /\ UNCHANGED <<dir, cwd, ofile, panicked>>

-----------------------------------------------------------------------------
(* sys_unlink(): the parent stays locked while the inode is. *)
RemovableDots(p) == Dirlookup(r[p].dp, r[p].name) # 0
Removable(p) == r[p].name \notin Dots /\ Dirlookup(r[p].dp, r[p].name) # 0

Unlink(p) ==
  LET d == r[p].dp
      x == Dirlookup(d, r[p].name)
  IN  /\ At(p, "unlink") /\ CanLock(d)
      /\ IF ~Removable(p)
         THEN /\ itable' = Iunlock(Ilock(p, d), d)
              /\ r' = [r EXCEPT ![p] = Put(@, d, "idle")]
         ELSE /\ itable' = Iget(Ilock(p, d), x)
              /\ r' = [r EXCEPT ![p].pc = "unlink_ip", ![p].ip = x]
      /\ UNCHANGED <<dinode, dir, cwd, ofile, panicked>>

Isdirempty(x) == \A n \in Name : dir[x][n] = 0

(* A directory's ".." no longer counts. *)
ParentLinks(t, x, d) == IF t[x].type = "dir" THEN [t EXCEPT ![d].nlink = @ - 1] ELSE t

UnlinkIp(p) ==
  LET x == r[p].ip
      d == r[p].dp
      t == Ilock(p, x)
      u == ParentLinks(t, x, d)
      empty == t[x].type = "dir" => Isdirempty(x)
  IN  /\ At(p, "unlink_ip") /\ CanLock(x)
      /\ panicked' = IF t[x].nlink < 1 THEN "unlink: nlink < 1" ELSE "no"
      /\ \/ /\ ~empty
            /\ itable' = Iunlock(t, x)
            /\ r' = [r EXCEPT ![p] = Put(@, x, "unlink_bad")]
            /\ UNCHANGED <<dinode, dir>>
         \/ /\ empty
            /\ itable' = Iunlock(u, d)
            /\ dinode' = Iupdate(u, {d})
            /\ dir' = [dir EXCEPT ![d][r[p].name] = 0]
            /\ r' = [r EXCEPT ![p] = Put([@ EXCEPT !.dp = 0], d, "unlink_dec")]
      /\ UNCHANGED <<cwd, ofile>>

UnlinkBadKeeps(p) ==
  /\ At(p, "unlink_bad")
  /\ itable' = Iunlock(itable, r[p].dp)
  /\ r' = [r EXCEPT ![p] = Idle]
  /\ UNCHANGED <<dinode, dir, cwd, ofile, panicked>>
UnlinkBad(p) ==
  /\ At(p, "unlink_bad")
  /\ itable' = Iunlock(itable, r[p].dp)
  /\ r' = [r EXCEPT ![p] = Put(@, r[p].dp, "idle")]
  /\ UNCHANGED <<dinode, dir, cwd, ofile, panicked>>

UnlinkDec(p) ==
  LET x == r[p].ip
      t == Iunlock([itable EXCEPT ![x].nlink = @ - 1], x)
  IN  /\ At(p, "unlink_dec")
      /\ itable' = t
      /\ dinode' = Iupdate(t, {x})
      /\ r' = [r EXCEPT ![p] = Put(@, x, "idle")]
      /\ UNCHANGED <<dir, cwd, ofile, panicked>>

-----------------------------------------------------------------------------
Next ==
  \E p \in Proc :
    \/ (\E c \in Call : Start(p, c)) \/ Namex(p) \/ NamexEnd(p) \/ IlockPanics(p)
    \/ Iput(p) \/ IputFree(p) \/ IputValid(p) \/ IputDec(p)
    \/ Create(p) \/ CreateFound(p) \/ CreateInit(p) \/ Open(p) \/ Opened(p) \/ Close(p) \/ Chdir(p)
    \/ LinkIp(p) \/ Link(p) \/ LinkExists(p) \/ LinkDone(p) \/ LinkBad(p)
    \/ Unlink(p) \/ UnlinkIp(p) \/ UnlinkBad(p) \/ UnlinkDec(p)

Spec == Init /\ [][Next]_vars

-----------------------------------------------------------------------------
(* Properties. *)

AllIdle == \A p \in Proc : r[p].pc = "idle"
Refs(x) == Cardinality({p \in Proc : cwd[p] = x}) + Cardinality({p \in Proc : ofile[p] = x})

(* namex(), create(), link, unlink: every path out of a call, failing ones    *)
(* included, puts what it has got, so ip->ref counts the descriptors and      *)
(* current directories.                                                       *)
RefsBalanced == AllIdle /\ panicked = "no" => \A x \in Inum : itable[x].ref = Refs(x) /\ itable[x].lock = None

(* unlink, create and link hold two inodes in the order of the tree: there is *)
(* no set of processes that wait for each other's inodes.                     *)
NoDeadlock ==
  \A S \in SUBSET Proc \ {{}} :
    \E p \in S : Wanted(p) = 0 \/ itable[Wanted(p)].lock \notin S

(* ilock(), iupdate(): an unlocked entry that is valid says what the disk     *)
(* does, also after the inode was freed and allocated again.                  *)
ValidIsDisk ==
  \A x \in Inum : itable[x].valid /\ itable[x].lock = None =>
    itable[x].type = dinode[x].type /\ itable[x].nlink = dinode[x].nlink

(* link before dirlink(), unlink after: a name leads to an allocated inode    *)
(* that counts the link.                                                      *)
NamesAllocated ==
  \A d \in Inum, n \in Name : dir[d][n] # 0 =>
    dinode[dir[d][n]].type # "none" /\ dinode[dir[d][n]].nlink > 0

=============================================================================
