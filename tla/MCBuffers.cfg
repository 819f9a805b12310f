SPECIFICATION BuffersSpec
CHECK_DEADLOCK FALSE
CONSTANTS
  Threads = {t1, t2, t3}
  BlockNos = {b1, b2}
  capacity = 1
  DiskThreads = {d1, d2, d3}
  OtherCpus = {d1}
  Sectors = {0}
  Values = {0, 1}
  MaxReqs = 3
  Nobody = Nobody
  Readers = {r1, r2}
  Writers = {w1}
  Bytes = {0, 1}
  PipeSize = 2
  U32 = 4
  Counts = {3}
  MaxKills = 1
  NoOne = NoOne
INVARIANTS
  HolderSeesContent
  PinnedStaysCached
  CacheInv
  SdqInv
  PipeInv
PROPERTIES
  AcquireReturns
  SectorIsRegister
  RequestsServed
  PipeIsFifo
  DataWakesReader
