SPECIFICATION SpecKafka
CONSTANTS
  LogLen = 2
  Poison = {}
  MayFail = {0}
  Backpressure = {FALSE}
  PoolQueueSize = 1
  PoolWorkers = 1
  MaxRestarts = 1
INVARIANT CommittedIsNotLost
CHECK_DEADLOCK FALSE
