SPECIFICATION FairSpec
CONSTANTS
  Proc = {p1, p2}
  Byte = {b1, b2}
  None = None
  PIPESIZE = 2
  UINT = 4
  MaxN = 2
INVARIANT FreedUnused
PROPERTIES RefinesByteQueue ClosedReturns
