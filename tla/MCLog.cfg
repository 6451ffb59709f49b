SPECIFICATION FairSpec
CONSTANTS
  Proc = {p1, p2, p3}
  Boot = p1
  Block = {b1, b2}
  Value = {0, 1}
  MAXOPBLOCKS = 1
  OpBlocks = 1
  LOGSIZE = 3
  NLOG = 3
INVARIANT LogInv
PROPERTIES RefinesAtomicDisk SleeperWakes
