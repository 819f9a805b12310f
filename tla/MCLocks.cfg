SPECIFICATION LocksSpec
CONSTANTS
  Procs = {p1, p2, p3}
  InitVal = 1
  MaxVal = 1
  Slots = {s0, s1, s2}
  RootProc = s0
  Containers = {k0, k1}
  RootCont = k0
  PidMax = 3
  None = None
INVARIANTS
  MutualExclusion
  LockNotLost
PROPERTIES
  AcquireReturns
  KilledDies
