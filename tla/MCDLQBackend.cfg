SPECIFICATION SpecBounded
CONSTANTS
  Events = {e1, e2}
  Workers = {w1, w2}
  MaxRetries = 3
  RetryDelay = 1
  MaxRetryDelay = 2
  ClaimLimits = {0, 1}
  PurgeAges = {0, 2}
  Crashes = TRUE
  MaxTime = 1
  Backends = {"postgres", "mongo"}
  MaxCount = 4
  FaultyEvents = {e1}
INVARIANT AttemptsBounded
PROPERTY ImplementsContract
PROPERTY ReopenedOnlyIfShared
