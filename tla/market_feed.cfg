SPECIFICATION FairSpec
CONSTANTS
  s1 = s1
  s2 = s2
  Sockets = {s1, s2}
  None = None
  InitialDelay = 1
  MaxDelay = 2
  MaxAttempts = 2
  MaxTotal = 5
  StaleAfter = 1
  LateTimers = TRUE
  MaxClock = 6
CHECK_DEADLOCK FALSE
INVARIANT TypeOK
INVARIANT DowntimeWhole
INVARIANT AttemptsMatchConnects
INVARIANT SocketOrTimer
INVARIANT StateMatchesSocket
PROPERTY QuietSocketCloses
