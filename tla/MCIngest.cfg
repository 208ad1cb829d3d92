SPECIFICATION SpecIngest
CONSTANTS
  LogLen = 4
  Poison = {1}
  MayFail = {2}
  Backpressure = {TRUE, FALSE}
  PoolQueueSize = 1
  PoolWorkers = 2
  MaxRestarts = 2
  Events = {e1, e2, e3}
  Callers = {c1, c2}
  Workers = {w1, w2}
  QueueSize = 1
INVARIANT CommittedWasAttempted
INVARIANT GoodIsProcessed
INVARIANT NothingLost
INVARIANT DrainedWhenClosed
INVARIANT CancelAfterExit
PROPERTY EveryMessageAttempted
PROPERTY CloseReturns
PROPERTY AcceptedIsHandled
CHECK_DEADLOCK FALSE
