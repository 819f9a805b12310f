SPECIFICATION StorageSpec
CHECK_DEADLOCK FALSE
CONSTANTS
  FsProcs = {p1, p2}
  NumInodes = 3
  NumBlocks = 4
  NDirect = 1
  NIndirect = 1
  NFile = 2
  NOFile = 2
  FileNames = {a, b}
  DotDot = dotdot
  Elems <- MCElems
  Depth = 2
  MaxCalls <- MCMaxCalls
  Setups = {"solo", "nested", "shared", "free"}
  Cids = {1, 2}
  CardKind <- MCCardKind
  HostVers = {1, 2}
  MaxRetries = 2
  BaseClock = 41666666
  FreqSetup = 400000
  FreqNormal = 25000000
  MaxFaults = 2
  MaxInits = 3
  MaxSwaps = 1
  Threads = {t1, t2}
  Blocks = {b1, b2}
  Values = {v0, v1}
  Zero = v0
  NotCached = NotCached
  OP_MAX_NUM_BLOCKS = 2
  LOG_MAX_SIZE = 4
  NumLogBlocks = 5
  MaxCrashes = 2
INVARIANTS
  RefsExact
  InodeLockExclusive
  NoLockDeadlock
  FsConsistent
  CardAgrees
  DurableInv
PROPERTIES
  ReinsertedIsSame
  ImplementsAtomicDisk
  WritebackDelayed
SYMMETRY StorageSymmetry
