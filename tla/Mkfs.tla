-------------------------------- MODULE Mkfs --------------------------------
(* mkfs (mkfs/mkfs.c): it writes an empty file system, a root directory, and  *)
(* each of the given files, read by read() calls that may return less than a  *)
(* block.  A block is a sequence of MBSIZE units; a unit is a piece of a      *)
(* file, a directory entry or a block number of an indirect block.            *)
EXTENDS Integers, SequencesExt, FiniteSetsExt

CONSTANTS
  MBSIZE,      \* units in a block
  MNDIRECT,    \* direct blocks of a file; the indirect block names MBSIZE more
  NMETA,       \* blocks before the first data block
  FSSIZE,      \* blocks
  NINODES,
  FileSets     \* sequences of file sizes: what mkfs is called with

BlocksFor(n) == ((n + MBSIZE - 1) \div MBSIZE) + (IF n > MNDIRECT * MBSIZE THEN 1 ELSE 0)

ASSUME LayoutAssumption == {MBSIZE, MNDIRECT, NMETA, FSSIZE, NINODES} \subseteq Nat \ {0} /\ NMETA < FSSIZE

(* mkfs does not look whether the files fit (but for the size of one file):   *)
(* they have to.                                                              *)
ASSUME FilesFit ==
  \A f \in FileSets :
    /\ Len(f) + 1 < NINODES
    /\ \A i \in DOMAIN f : f[i] <= (MNDIRECT + MBSIZE) * MBSIZE
    /\ FoldLeft(LAMBDA n, m : n + BlocksFor(m), NMETA + BlocksFor(Len(f) + 2), f) <= FSSIZE

Rootino == 1
Zero == <<"zero", 0>>
Addr(b) == <<"block", b>>
Data(i, k) == <<"data", i, k>>             \* unit k of file i
Entry(i, inum) == <<"entry", i, inum>>     \* the name of file i
NoInode == [type |-> "none", nlink |-> 0, size |-> 0, addrs |-> [k \in 0..MNDIRECT |-> 0]]
Empty == [inode |-> [i \in 1..(NINODES - 1) |-> NoInode], block |-> [b \in NMETA..(FSSIZE - 1) |-> [k \in 1..MBSIZE |-> Zero]],
          freeinode |-> 1, freeblock |-> NMETA, bitmap |-> {}]

VARIABLES
  image,       \* what has been written, freeinode and freeblock
  files,       \* the sizes of the files
  at,          \* the file that is being copied; 0 is the root directory
  copied,      \* how much of it has been read
  mkpc

mkfsvars == <<image, files, at, copied, mkpc>>

MkfsInit(f) == image = Empty /\ files = f /\ at = 0 /\ copied = 0 /\ mkpc = "root"
MkfsIdle == image = Empty /\ files = <<>> /\ at = 0 /\ copied = 0 /\ mkpc = "none"

-----------------------------------------------------------------------------
Ialloc(m, type) ==
  [m EXCEPT !.inode[m.freeinode] = [NoInode EXCEPT !.type = type, !.nlink = 1], !.freeinode = @ + 1]

(* iappend(): the block of a file at fbn, made if there is none. *)
WithAddr(m, i, k) ==
  IF m.inode[i].addrs[k] # 0 THEN m ELSE [m EXCEPT !.inode[i].addrs[k] = m.freeblock, !.freeblock = @ + 1]
WithEntry(m, b, k) ==
  IF m.block[b][k] # Zero THEN m ELSE [m EXCEPT !.block[b][k] = Addr(m.freeblock), !.freeblock = @ + 1]
WithIndirect(m, i, k) == WithEntry(m, m.inode[i].addrs[MNDIRECT], k)
WithBlock(m, i, fbn) ==
  IF fbn < MNDIRECT THEN WithAddr(m, i, fbn) ELSE WithIndirect(WithAddr(m, i, MNDIRECT), i, fbn - MNDIRECT + 1)
BlockAt(m, i, fbn) ==
  IF fbn < MNDIRECT THEN m.inode[i].addrs[fbn] ELSE m.block[m.inode[i].addrs[MNDIRECT]][fbn - MNDIRECT + 1][2]

(* How much goes into the block at off. *)
Piece(n, off) == Min({n, ((off \div MBSIZE) + 1) * MBSIZE - off})

PutAtStart(m, x, at0, us) ==
  [m EXCEPT !.block[x] = [k \in 1..MBSIZE |-> IF k \in DOMAIN us THEN us[k] ELSE @[k]]]
Put(m, x, at0, us) ==
  [m EXCEPT !.block[x] = [k \in 1..MBSIZE |-> IF k - at0 \in DOMAIN us THEN us[k - at0] ELSE @[k]]]

RECURSIVE AppendAt(_, _, _, _)
AppendPiece(m, i, off, us, n1) ==
  AppendAt(Put(m, BlockAt(m, i, off \div MBSIZE), off % MBSIZE, SubSeq(us, 1, n1)), i, off + n1, SubSeq(us, n1 + 1, Len(us)))
AppendAt(m, i, off, us) ==
  IF us = <<>> THEN [m EXCEPT !.inode[i].size = off]
  ELSE AppendPiece(WithBlock(m, i, off \div MBSIZE), i, off, us, Piece(Len(us), off))
Iappend(m, i, us) == AppendAt(m, i, m.inode[i].size, us)

-----------------------------------------------------------------------------
(* main() *)

MakeRoot ==
  /\ mkpc = "root"
  /\ image' = Iappend(Iappend(Ialloc(image, "dir"), Rootino, <<Entry(0, Rootino)>>), Rootino, <<Entry(-1, Rootino)>>)
  /\ mkpc' = "next"
  /\ UNCHANGED <<files, at, copied>>

NextFile ==
  /\ mkpc = "next" /\ at < Len(files)
  /\ at' = at + 1 /\ copied' = 0 /\ mkpc' = "read"
  /\ image' = Iappend(Ialloc(image, "file"), Rootino, <<Entry(at + 1, image.freeinode)>>)
  /\ UNCHANGED files

(* read() of at most a block *)
ReadFileUnits(cc) ==
  /\ mkpc = "read" /\ cc \in 1..Min({MBSIZE, files[at] - copied})
  /\ copied' = copied + cc
  /\ image' = Iappend(image, image.freeinode - 1, [k \in 1..cc |-> Data(at, copied + k)])
  /\ UNCHANGED <<files, at, mkpc>>

CloseFile ==
  /\ mkpc = "read" /\ copied = files[at]
  /\ mkpc' = "next"
  /\ UNCHANGED <<image, files, at, copied>>

(* The root directory's size is rounded up to whole blocks. *)
RootSize(off) == ((off \div MBSIZE) + 1) * MBSIZE

Finish ==
  /\ mkpc = "next" /\ at = Len(files)
  /\ image' = [image EXCEPT !.inode[Rootino].size = RootSize(@), !.bitmap = 0..(image.freeblock - 1)]
  /\ mkpc' = "done"
  /\ UNCHANGED <<files, at, copied>>

MkfsNext == MakeRoot \/ NextFile \/ CloseFile \/ Finish \/ \E cc \in 1..MBSIZE : ReadFileUnits(cc)

-----------------------------------------------------------------------------
UnitAt(i, n) == image.block[BlockAt(image, i, (n - 1) \div MBSIZE)][((n - 1) % MBSIZE) + 1]
BlocksOf(i) ==
  LET direct == Range(image.inode[i].addrs) \ {0}
      ind == image.inode[i].addrs[MNDIRECT]
  IN  direct \cup (IF ind = 0 THEN {} ELSE {u[2] : u \in Range(image.block[ind]) \ {Zero}})
Inodes == DOMAIN image.inode

(* main(), iappend() and balloc(): read through the addresses of the inodes,  *)
(* as the kernel will, every file is in the image from its first to its last  *)
(* unit whatever read() returned, and every name in the root directory;       *)
(* inodes share no block; the bitmap has exactly the blocks in use; and the   *)
(* root directory has a block for each entry up to its size, unless the names *)
(* fill their last block (then its rounded size ends in a hole).              *)
ImageSound ==
  mkpc = "done" =>
    LET root == image.inode[Rootino]
        n == Len(files) + 2
    IN  /\ \A i \in DOMAIN files :
             /\ image.inode[i + 1].type = "file" /\ image.inode[i + 1].size = files[i]
             /\ \A k \in 1..files[i] : UnitAt(i + 1, k) = Data(i, k)
             /\ UnitAt(Rootino, i + 2) = Entry(i, i + 1)
        /\ root.size % MBSIZE = 0 /\ root.size > n
        /\ n % MBSIZE # 0 => \A k \in (n + 1)..root.size : UnitAt(Rootino, k) = Zero
        /\ \A i, j \in Inodes : i # j => BlocksOf(i) \cap BlocksOf(j) = {}
        /\ image.bitmap = 0..(NMETA - 1) \cup UNION {BlocksOf(i) : i \in Inodes}
=============================================================================
