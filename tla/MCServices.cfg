SPECIFICATION ServicesSpec
CHECK_DEADLOCK FALSE
CONSTANTS
  KCpus = {p1, p2}
  NumPages = 2
  Orders = {2, 3}
  PageSize = 16
  SlabHeader = 3
  NoCpu = NoCpu
  VmProcs = {v1, v2}
  FirstProc = v1
  NumFrames = 90
  PageUnits = 2
  Fan = 2
  MaxVmCalls = 5
  Images <- MCImages
  StackPage = 12
  IcodePage = 2
  IcodeSection = 9
  ConProcs = {p1, p2}
  InputBuf = 2
  ConCounts = {2}
  MaxKeys = 3
  Nobody = Nobody
  NumNodes = 8
  MsgThreads = {p1, p2}
  Keys = {0, 1}
  NumIds = 1
  U16 = 4
  MaxMsg = 2
  MsgTypes = {1, 2}
  MsgSizes = {1, 2}
  RcvTypes <- MCRcvTypes
  MaxQueues = 2
  MaxSends = 3
  NoQueue = NoQueue
SYMMETRY ServicesSymmetry
INVARIANTS
  MemoryExact
  AddressSpacesExact
  
  RbTreeSound
  OnlyRemovalStrands
  MsgInv
  StaleIdsRejected
