SPECIFICATION Spec
CONSTANTS
  Proc = {p1, p2}
  None = None
  File = {f1, f2}
  Val = {2}
  NBLOCKS = 4
  BSIZE = 2
  NDIRECT = 1
  BPB = 1
  MAXOPBLOCKS = 6
  Sizes = {4}
SYMMETRY Symmetry
INVARIANTS BlocksExact 
 
CHECK_DEADLOCK FALSE
