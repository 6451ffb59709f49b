SPECIFICATION Spec
CONSTANTS
  Buf = {b1, b2, b3}
  Value = {v1, v2}
  None = None
  Intr = Intr
  NUM = 7
  UINT16 = 14
SYMMETRY Symmetry
INVARIANT SleeperHasRequest
PROPERTIES RefinesBlockDevice
