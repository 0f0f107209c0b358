SPECIFICATION Spec
CONSTANTS
  w1 = w1
  w2 = w2
  w3 = w3
  f1 = f1
  n1 = n1
  Writers = {w1}
  None = None
  Ops = {f1, n1}
  FillOps = {f1}
  LeaseDuration = 2
  MaxClockAdvance = 2
  MaxTakeoverAge = 2
  ClockSteps <- Forward
  MaxClock = 3
  LockTimeouts = TRUE
SYMMETRY Symmetry
CHECK_DEADLOCK FALSE
INVARIANT LedgerMatchesAccount
