------------------------------- MODULE Content ------------------------------
(* The contents of files (kernel/fs.c): balloc(), bfree(), bmap(), readi(),   *)
(* writei() and itrunc(), with the loops of fileread() and filewrite().       *)
(* A cell is a uint; a block has BSIZE cells, of data or of block numbers.    *)
(* A file is open once, and its f->off is shared, as after fork().            *)
EXTENDS Integers, Sequences, FiniteSetsExt

CONSTANTS
  Proc, None,
  File,          \* inodes
  Val,           \* what user programs write
  NBLOCKS, BSIZE, NDIRECT, BPB, MAXOPBLOCKS,
  Sizes          \* what write() and read() ask for, in cells

ASSUME SizeAssumption == {NBLOCKS, BSIZE, BPB} \subseteq Nat \ {0} /\ NDIRECT \in Nat /\ Sizes \subseteq Nat \ {0}
ASSUME OpAssumption == MAXOPBLOCKS \in Nat /\ MAXOPBLOCKS >= 6 /\ Val \subseteq Nat /\ None \notin Proc

Block == 1..NBLOCKS
Cell == 0..(BSIZE - 1)
NINDIRECT == BSIZE
MAXFILE == NDIRECT + NINDIRECT
Zeros == [c \in Cell |-> 0]
Junk == [c \in Cell |-> 1]   \* in free blocks: what it is must not matter

VARIABLES
  used,          \* the free bit map
  data,          \* blocks, as the buffer cache has them
  stale,         \* what log and disk have of a block, if the cache has other data
  size, addrs,   \* of inodes
  off,           \* f->off
  lock,          \* ip->lock
  r,             \* the call each process is in
  panicked

vars == <<used, data, stale, size, addrs, off, lock, r, panicked>>

Idle == [pc |-> "idle", f |-> None, left |-> 0, n1 |-> 0, tot |-> 0, val |-> 0, b |-> 0, logged |-> {}]

Init ==
  /\ used = {} /\ data = [b \in Block |-> Junk] /\ stale = [b \in Block |-> None]
  /\ size = [f \in File |-> 0] /\ addrs = [f \in File |-> [i \in 0..NDIRECT |-> 0]]
  /\ off = [f \in File |-> 0] /\ lock = [f \in File |-> None]
  /\ r = [p \in Proc |-> Idle] /\ panicked = "no"

At(p, l) == panicked = "no" /\ r[p].pc = l

-----------------------------------------------------------------------------
(* bmap() *)

(* The n-th block of a file, 0 if there is none. *)
Bmap(f, bn) ==
  IF bn < NDIRECT THEN addrs[f][bn]
  ELSE IF addrs[f][NDIRECT] = 0 THEN 0 ELSE data[addrs[f][NDIRECT]][bn - NDIRECT]

BBLOCK(b) == <<"bitmap", b \div BPB>>
Free == Block \ used

(* balloc(): the first free block, by the one block of bits that there is. *)
Balloc == Min(Free)

(* Where the next cell of a write goes. *)
Pos(p) == off[r[p].f] + r[p].tot
Bn(p) == Pos(p) \div BSIZE
NeedsIndirect(p) == Bn(p) >= NDIRECT /\ addrs[r[p].f][NDIRECT] = 0

BmapAllocs(p) ==
  /\ At(p, "write") /\ Bmap(r[p].f, Bn(p)) = 0
  /\ IF Free = {} THEN panicked' = "out of blocks" /\ UNCHANGED <<used, r>>
     ELSE /\ used' = used \cup {Balloc}
          /\ r' = [r EXCEPT ![p].pc = "zero", ![p].b = Balloc, ![p].logged = @ \cup {BBLOCK(Balloc)}]
          /\ UNCHANGED panicked
  /\ UNCHANGED <<data, stale, size, addrs, off, lock>>

(* bzero() of the new block, which then joins the inode or its indirect block. *)
Zeroes(d, b) == [d EXCEPT ![b] = Zeros]

BmapAdds(p) ==
  LET f == r[p].f
      b == r[p].b
      ind == addrs[f][NDIRECT]
  IN  /\ At(p, "zero")
      /\ stale' = [stale EXCEPT ![b] = None]
      /\ IF Bn(p) < NDIRECT \/ NeedsIndirect(p)
         THEN /\ addrs' = [addrs EXCEPT ![f][Min({Bn(p), NDIRECT})] = b]
              /\ data' = Zeroes(data, b)
              /\ r' = [r EXCEPT ![p].pc = "write", ![p].b = 0, ![p].logged = @ \cup {<<"block", b>>}]
         ELSE /\ data' = [Zeroes(data, b) EXCEPT ![ind][Bn(p) - NDIRECT] = b]
              /\ r' = [r EXCEPT ![p].pc = "write", ![p].b = 0, ![p].logged = @ \cup {<<"block", b>>, <<"block", ind>>}]
              /\ UNCHANGED addrs
      /\ UNCHANGED <<used, size, off, lock, panicked>>

-----------------------------------------------------------------------------
(* filewrite(): writei() for a few blocks at a time. *)

MaxChunk == ((MAXOPBLOCKS - 1 - 1 - 2) \div 2) * BSIZE

Filewrite(p, f, n, v) ==
  /\ At(p, "idle")
  /\ r' = [r EXCEPT ![p] = [Idle EXCEPT !.pc = "lock", !.f = f, !.left = n, !.val = v]]
  /\ UNCHANGED <<used, data, stale, size, addrs, off, lock, panicked>>

Writes(f, n) == off[f] <= size[f] /\ off[f] + n <= MAXFILE * BSIZE

Writei(p) ==
  LET f == r[p].f
      n1 == Min({r[p].left, MaxChunk})
  IN  /\ At(p, "lock") /\ lock[f] = None
      /\ IF Writes(f, n1)
         THEN lock' = [lock EXCEPT ![f] = p] /\ r' = [r EXCEPT ![p].pc = "write", ![p].n1 = n1]
         ELSE r' = [r EXCEPT ![p] = Idle] /\ UNCHANGED lock
      /\ UNCHANGED <<used, data, stale, size, addrs, off, panicked>>

Chunk(p) == Min({r[p].n1 - r[p].tot, BSIZE - (Pos(p) % BSIZE)})
Stored(p, b, m) == [c \in Cell |-> IF c - (Pos(p) % BSIZE) \in 0..(m - 1) THEN r[p].val ELSE data[b][c]]

WriteCopy(p) ==
  LET b == Bmap(r[p].f, Bn(p))
      m == Chunk(p)
  IN  /\ At(p, "write") /\ b # 0
      /\ data' = [data EXCEPT ![b] = Stored(p, b, m)]
      /\ stale' = [stale EXCEPT ![b] = None]
      /\ r' = [r EXCEPT ![p].pc = IF r[p].tot + m = r[p].n1 THEN "end" ELSE "write", ![p].tot = @ + m,
                        ![p].logged = @ \cup {<<"block", b>>}]
      /\ UNCHANGED <<used, size, addrs, off, lock, panicked>>

(* either_copyin() fails after m cells: they stay in the buffer, not logged,  *)
(* unless the block is in the log already.                                    *)
WriteCopyFails(p, m) ==
  LET b == Bmap(r[p].f, Bn(p))
  IN  /\ At(p, "write") /\ b # 0 /\ m < Chunk(p)
      /\ data' = [data EXCEPT ![b] = Stored(p, b, m)]
      /\ \/ UNCHANGED stale
         \/ /\ <<"block", b>> \notin r[p].logged /\ stale[b] = None /\ data'[b] # data[b]
            /\ stale' = [stale EXCEPT ![b] = data[b]]
      /\ r' = [r EXCEPT ![p].pc = "end"]
      /\ UNCHANGED <<used, size, addrs, off, lock, panicked>>

(* bget() gives the buffer to another block: the next bread() is from disk. *)
Recycle(b) ==
  /\ panicked = "no" /\ stale[b] # None
  /\ data' = [data EXCEPT ![b] = stale[b]]
  /\ stale' = [stale EXCEPT ![b] = None]
  /\ UNCHANGED <<used, size, addrs, off, lock, r, panicked>>

Grown(f, n) == Max({size[f], n})

WriteEnd(p) ==
  LET f == r[p].f
      more == r[p].tot = r[p].n1 /\ r[p].left > r[p].tot
  IN  /\ At(p, "end")
      /\ size' = [size EXCEPT ![f] = Grown(f, Pos(p))]
      /\ off' = [off EXCEPT ![f] = Pos(p)]
      /\ lock' = [lock EXCEPT ![f] = None]
      /\ r' = [r EXCEPT ![p] = IF more THEN [Idle EXCEPT !.pc = "lock", !.f = f, !.val = r[p].val, !.left = r[p].left - r[p].tot]
                               ELSE Idle]
      /\ UNCHANGED <<used, data, stale, addrs, panicked>>

ReadEnd(f, n) == Min({off[f] + n, size[f]})

(* fileread() holds the inode's lock all the way; a failed copy moves nothing. *)
Fileread(p, f, n) ==
  /\ At(p, "idle") /\ lock[f] = None /\ off[f] < size[f]
  /\ off' = [off EXCEPT ![f] = ReadEnd(f, n)]
  /\ UNCHANGED <<used, data, stale, size, addrs, lock, r, panicked>>

-----------------------------------------------------------------------------
(* itrunc(), for open() with O_TRUNC; r[p].tot counts the blocks gone by. *)

Itrunc(p, f) ==
  /\ At(p, "idle") /\ lock[f] = None
  /\ lock' = [lock EXCEPT ![f] = p]
  /\ r' = [r EXCEPT ![p] = [Idle EXCEPT !.pc = "trunc", !.f = f]]
  /\ UNCHANGED <<used, data, stale, size, addrs, off, panicked>>

(* bfree() of the k-th block, direct or indirect. *)
Bfree(b) ==
  /\ used' = used \ {b}
  /\ data' = [data EXCEPT ![b] = Junk]
  /\ stale' = [stale EXCEPT ![b] = None]
  /\ panicked' = IF b \in used THEN "no" ELSE "freeing free block"

TruncBlock(p) ==
  LET f == r[p].f
      k == r[p].tot
  IN  /\ At(p, "trunc") /\ k < MAXFILE
      /\ IF Bmap(f, k) # 0 THEN Bfree(Bmap(f, k)) ELSE UNCHANGED <<used, data, stale, panicked>>
      /\ addrs' = IF k < NDIRECT THEN [addrs EXCEPT ![f][k] = 0] ELSE addrs
      /\ r' = [r EXCEPT ![p].tot = k + 1]
      /\ UNCHANGED <<size, off, lock>>

FreesIndirectNever(f) == FALSE
FreesIndirect(f) == addrs[f][NDIRECT] # 0

(* The indirect block itself, then the size; open() may give the new file.    *)
TruncEnd(p) ==
  LET f == r[p].f
  IN  /\ At(p, "trunc") /\ r[p].tot = MAXFILE
      /\ IF FreesIndirect(f) THEN Bfree(addrs[f][NDIRECT]) ELSE UNCHANGED <<used, data, stale, panicked>>
      /\ addrs' = [addrs EXCEPT ![f][NDIRECT] = 0]
      /\ size' = [size EXCEPT ![f] = 0]
      /\ off' \in {off, [off EXCEPT ![f] = 0]}
      /\ lock' = [lock EXCEPT ![f] = None]
      /\ r' = [r EXCEPT ![p] = Idle]

(* close() and open(): f->off is 0 again. *)
Reopen(p, f) ==
  /\ At(p, "idle") /\ off[f] # 0
  /\ \A q \in Proc : r[q].f # f
  /\ off' = [off EXCEPT ![f] = 0]
  /\ UNCHANGED <<used, data, stale, size, addrs, lock, r, panicked>>

-----------------------------------------------------------------------------
Next ==
  \/ \E p \in Proc, f \in File :
       \/ \E n \in Sizes : (\E v \in Val : Filewrite(p, f, n, v)) \/ Fileread(p, f, n)
       \/ Itrunc(p, f) \/ Reopen(p, f)
  \/ \E p \in Proc : Writei(p) \/ BmapAllocs(p) \/ BmapAdds(p) \/ WriteCopy(p) \/ WriteEnd(p) \/ TruncBlock(p) \/ TruncEnd(p)
  \/ \E p \in Proc, m \in Cell : WriteCopyFails(p, m)
  \/ \E b \in Block : Recycle(b)

Spec == Init /\ [][Next]_vars

-----------------------------------------------------------------------------
(* Properties. *)

Truncating(f) == \E p \in Proc : r[p].pc = "trunc" /\ r[p].f = f
Gone(f) == IF Truncating(f) THEN r[lock[f]].tot ELSE 0

(* The places that name a block: in a file, or in the hand of a process.      *)
Refs ==
  {<<f, k>> : f \in File, k \in 0..MAXFILE} \cup Proc
BlockAt(x) ==
  IF x \in Proc THEN r[x].b
  ELSE IF x[2] = MAXFILE THEN addrs[x[1]][NDIRECT]
  ELSE IF x[2] < Gone(x[1]) THEN 0 ELSE Bmap(x[1], x[2])

(* balloc() and bfree(): a block belongs to one file at one place, exactly    *)
(* while its bit is set, whatever writes and truncations run at once; and     *)
(* readi(), which calls bmap() outside a transaction, finds every block of a  *)
(* file that it can lock.                                                     *)
BlocksExact ==
  LET named == {x \in Refs : BlockAt(x) # 0}
  IN  panicked = "no" =>
        /\ used = {BlockAt(x) : x \in named} /\ Cardinality(used) = Cardinality(named)
        /\ \A f \in File : lock[f] = None => \A k \in 0..(size[f] - 1) : Bmap(f, k \div BSIZE) # 0


(* Files over shared blocks behave as sequences of their own. *)
Contents(f) ==
  IF Truncating(f) THEN <<>> ELSE [k \in 1..size[f] |-> data[Bmap(f, (k - 1) \div BSIZE)][(k - 1) % BSIZE]]
Files == INSTANCE FileStore WITH contents <- [f \in File |-> Contents(f)], MaxLen <- MAXFILE * BSIZE
=============================================================================
