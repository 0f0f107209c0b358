SPECIFICATION Spec
CONSTANTS
  s1 = s1
  s2 = s2
  Sockets = {s1, s2}
  None = None
  InitialDelay = 1
  MaxDelay = 2
  MaxAttempts = 2
  MaxTotal = 5
  StaleAfter = 1
  LateTimers = FALSE
  MaxClock = 7
CHECK_DEADLOCK FALSE
INVARIANT EpisodeWithinCeiling
