SPECIFICATION Spec
CONSTANTS
  None = None
  Capacity = 2
  MaxRuns = 1
  MaxEvents = 2
CHECK_DEADLOCK FALSE
INVARIANT CleanMeansSealed
