SPECIFICATION Spec
CONSTANTS
  CPU = {c1, c2}
  Thread = {t1, t2}
  None = None
  NLOCK = 2
  NFRAME = 10
  FAN = 3
  LEVELS = 2
  PGSIZE = 2
  Proc = {init, p1}
  First = init
  Program <- Programs
  Change <- Changes
  UINT = 64
SYMMETRY Symmetry
INVARIANTS Mutex InterruptsRight FramesExact SizeMapped
