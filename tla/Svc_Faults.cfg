SPECIFICATION Spec
CONSTANTS
  Events = {e1}
  Devices = {d1, d2}
  Topic = Topic
  Runs = {r1, r2}
  Malformed = {}
  Unbuildable = {}
  Filtered = {e1}
  Direct = {}
  Topical = {}
  Oversized = {}
  SkipInvalidEvents = TRUE
  EnableDLQ = TRUE
  EnableEventBus = TRUE
  BatchSize = 1
  Faults = {"check", "markInvalid", "mark", "crash", "expire", "duplicate", "resubmit"}
  MaxFaults = 1
INVARIANT NothingDropped
INVARIANT DispatchedOnce
INVARIANT AnnouncedIsTrue
