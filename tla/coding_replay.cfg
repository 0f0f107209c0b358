CONSTANTS
  Keys = {k1}
  Ticks = {t1}
  Runners = {r1, r2}
  None = None
  MaxAttempts = 3
  MaxConcurrent = 1
  MaxReplays = 1
  MaxStops = 1
SPECIFICATION Spec
INVARIANT ReplaySuppressed
