SPECIFICATION FairSpec
CONSTANTS
  Threads = {t1, t2, t3}
  Blocks = {b1, b2, b3}
  Values = {v0}
  Zero = v0
  NotCached = NotCached
  OP_MAX_NUM_BLOCKS = 1
  LOG_MAX_SIZE = 2
  NumLogBlocks = 4
  MaxCrashes = 1
INVARIANTS
  LogInv
PROPERTIES
  BeginOpWakes
