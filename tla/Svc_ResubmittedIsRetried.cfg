SPECIFICATION Spec
CONSTANTS
  Events = {e1}
  Devices = {d1, d2}
  Topic = Topic
  Runs = {r1, r2}
  Malformed = {}
  Unbuildable = {}
  Filtered = {}
  Direct = {}
  Topical = {}
  Oversized = {}
  SkipInvalidEvents = TRUE
  EnableDLQ = TRUE
  EnableEventBus = FALSE
  BatchSize = 0
  Faults = {"resubmit"}
  MaxFaults = 1
PROPERTY ResubmittedIsRetried
