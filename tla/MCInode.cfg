SPECIFICATION Spec
CONSTANTS
  Proc = {p1, p2}
  NINODES = 3
  MAXLINK = 2
  Name = {"x", "y"}
  Call <- MCCall
  None = None
SYMMETRY Processes
INVARIANTS NoDeadlock NamesAllocated ValidIsDisk RefsBalanced
CHECK_DEADLOCK FALSE
