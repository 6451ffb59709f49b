SPECIFICATION Spec
CONSTANTS
  Reader = {r1}
  Writer = {w1}
  None = None
  Intr = Intr
  Letter = {"a"}
  INPUT_BUF = 2
  UINT = 4
  MaxRead = 2
  Byte = {b1, b2}
  SyncByte = s
  UART_TX_BUF_SIZE = 1
SYMMETRY Symmetry
INVARIANTS SleepsWithoutInput OutputGoesOn
PROPERTIES RefinesLineInput 
