SPECIFICATION FairDispatcher
CONSTANTS
  Requests = {"android", "ios", "topic", "device"}
  MaxFailures = 2
  Timeout = 1
  ResetTimeout = 1
  MaxHalfOpenRequests = 2
  Platforms = {"android", "ios"}
  Android = "android"
  Unset = "unset"
  Singles = {"topic", "device"}
  Inputs <- MCInputs
  FCMMaxBatchSize = 2
  MaxRetryAttempts = 2
  Guarded = {TRUE, FALSE}
  Sizes = {TRUE, FALSE}
INVARIANT TypeOKDispatcher
INVARIANT ResultAddsUp
INVARIANT UnsentIsUnresolved
INVARIANT ResentForRetryable
INVARIANT OneCallAfterCancel
INVARIANT HalfOpenAccounting
PROPERTY OpenClosesOnlyByReset
PROPERTY HalfOpenResolves
PROPERTY SendTerminates
