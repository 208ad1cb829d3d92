SPECIFICATION FairSpec
CONSTANTS
  Events = {e1, e2}
  Workers = {w1, w2}
  MaxRetries = 2
  RetryDelay = 1
  MaxRetryDelay = 3
  ClaimLimits = {0, 1}
  PurgeAges = {2}
  Crashes = TRUE
  MaxTime = 2
INVARIANT ClaimExclusive
INVARIANT RetryAccounting
PROPERTY FailuresSettle
