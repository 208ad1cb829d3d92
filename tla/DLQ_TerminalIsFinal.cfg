SPECIFICATION SpecBackend
CONSTANTS
  Events = {e1}
  Workers = {w1, w2}
  MaxRetries = 3
  RetryDelay = 1
  MaxRetryDelay = 3
  ClaimLimits = {1}
  PurgeAges = {2}
  Crashes = FALSE
  MaxTime = 1
  Backends = {"postgres", "mongo"}
  MaxCount = 4
PROPERTY TerminalIsFinal
