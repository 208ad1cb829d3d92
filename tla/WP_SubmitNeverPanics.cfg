SPECIFICATION Spec
CONSTANTS
  Events = {e1, e2}
  Callers = {c1, c2}
  Workers = {w1}
  QueueSize = 1
INVARIANT SubmitNeverPanics
CHECK_DEADLOCK FALSE
