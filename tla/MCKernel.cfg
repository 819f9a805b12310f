SPECIFICATION KernelSpec
CONSTANTS
  Slots = {s0, s1, s2, s3}
  RootProc = s0
  Containers = {k0, k1}
  RootCont = k0
  PidMax = 4
  None = None
  p1 = p1  p2 = p2  p3 = p3  g0 = g0  g1 = g1  g2 = g2
  Cpus = {c1, c2}
  Tasks = {p1, p2, p3}
  Groups = {g0, g1, g2}
  RootGroup = g0
  GroupOf <- MCGroupOf
  Slices = {1}
  MaxOccupy = 3
  IntMax = 1
  Procs = {q1, q2, q3}
  InitVal = 1
  MaxVal = 2
SYMMETRY KernelSymmetry
INVARIANTS
  ZombiesAwaited
  ProcTreeInv
  SchedInv
  SemInv
  UnitsConserved
  WaitFailsOnlyIfKilled
PROPERTIES
  IdleOnlyWhenNothingToRun
  PicksLeastCharged
