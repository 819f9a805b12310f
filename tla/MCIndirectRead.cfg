SPECIFICATION ReadSpec
CONSTANTS
  Threads = {t1, t2}
  Blocks = {b1, b2}
  Values = {v0, v1}
  Zero = v0
  NotCached = NotCached
  OP_MAX_NUM_BLOCKS = 1
  LOG_MAX_SIZE = 2
  NumLogBlocks = 3
  MaxCrashes = 0
PROPERTY
  WritebackDelayed
