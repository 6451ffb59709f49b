SPECIFICATION Spec
CONSTANTS
  NPROC = 3
  CPU = {c1, c2}
  Free = Free
  None = None
SYMMETRY Symmetry
INVARIANTS OneCpu FreedNotRunning NoLostExit ParentAlive
