SPECIFICATION FairSpec
CONSTANTS
  Events = {plain, listed, topical, malformed, unbuildable}
  Devices = {d1}
  Topic = Topic
  Runs = {r1}
  Malformed = {malformed}
  Unbuildable = {unbuildable}
  Filtered = {plain}
  Direct = {listed}
  Topical = {topical}
  Oversized = {listed}
  SkipInvalidEvents = FALSE
  EnableDLQ = TRUE
  EnableEventBus = TRUE
  BatchSize = 0
  Faults = {"check", "resolve", "markInvalid", "dlq", "bus", "mark"}
  MaxFaults = 1
PROPERTY EventuallyAnswered
