SPECIFICATION Spec
CONSTANTS
  Proc = {p1, p2, p3}
  Block = {k1, k2, k3}
  Value = {v1, v2}
  None = None
  NBUF = 2
  MaxPins = 1
SYMMETRY Symmetry
INVARIANT SleepsOnLocked
PROPERTIES RefinesBlockStore
CHECK_DEADLOCK FALSE
