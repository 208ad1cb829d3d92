SPECIFICATION SpecFilter
CONSTANTS
  Readers = {"c1"}
  Preferences <- MCSpringForward
  None = None
  Day = 12
  MaxSaves = 1
INVARIANT WrapsAsParsed
CHECK_DEADLOCK FALSE
