CONSTANTS
  Keys = {k1}
  Ticks = {t1, t2}
  Runners = {r1, r2}
  None = None
  MaxAttempts = 3
  MaxConcurrent = 1
  MaxReplays = 1
  MaxStops = 1
SPECIFICATION FairSpec
INVARIANT AcceptedOnce
INVARIANT AttemptsBounded
PROPERTY StopHolds
PROPERTY OldClaimFreed
