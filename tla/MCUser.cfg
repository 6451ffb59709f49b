SPECIFICATION Spec
CONSTANTS
  MAXARGS = 4
  MAXTOKENS = 4
  NPROC = 7
  NFILE = 6
  NOFILE = 5
  NPIPE = 2
  PIPESIZE = 1
  FileName <- MCFileName
  Dir <- MCDir
  Session <- MCSession
  NALLOC = 4
  HEAPEND = 12
  Units = {2, 3, 5}
  BUFSZ = 5
  MBSIZE = 3
  MNDIRECT = 2
  NMETA = 2
  FSSIZE = 11
  NINODES = 6
  FileSets <- MCFileSets
  LPGSIZE = 2
  LDIRSIZ = 2
  LINT = 32
  Libcall <- MCLibcall
INVARIANTS
  ParsesRight
  OutputRight
  
  HeapSound
  FiltersRight
  ImageSound
  LibraryRight
PROPERTIES
  PromptReturns
CHECK_DEADLOCK FALSE
