SPECIFICATION Spec
CONSTANTS
  Proc = {p1, p2}
  First = p1
  NFRAME = 4
  None = None
  NVMA = 2
  PGSIZE = 1
  NPAGES = 3
  FSIZE = 1
  MAXFILE = 2
  MAXREF = 4
  WRITABLE = TRUE
  Mode <- AnyMode
INVARIANTS FramesSafe FileStaysOpen
PROPERTIES OnlySharedWritten
CHECK_DEADLOCK FALSE
