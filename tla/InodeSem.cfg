SPECIFICATION InodeSemSpec
CHECK_DEADLOCK FALSE
CONSTANTS
  LockUsers = {p1, p2}
INVARIANTS
  PostFindsWaiter
