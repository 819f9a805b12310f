SPECIFICATION FsSpec
CHECK_DEADLOCK FALSE
CONSTANTS
  FsProcs = {p1, p2}
  NumInodes = 3
  NumBlocks = 4
  NDirect = 1
  NIndirect = 1
  NFile = 2
  NOFile = 2
  FileNames = {a, b}
  DotDot = dotdot
  Elems <- MCElems
  Depth = 1
  MaxCalls <- MCFreeCalls
  Setups = {"free"}
INVARIANTS
  LockExcludes
SYMMETRY FsSymmetry
