CONSTANTS
  Keys = {k1, k2}
  Ticks = {t1}
  Runners = {r1}
  None = None
  MaxAttempts = 2
  MaxConcurrent = 1
  MaxReplays = 0
  MaxStops = 1
SPECIFICATION FairSpec
INVARIANT TypeOK
INVARIANT AcceptedOnce
INVARIANT AttemptsBounded
PROPERTY StopHolds
PROPERTY OldClaimFreed
