SPECIFICATION FairSpec
CONSTANTS
  None = None
  Capacity = 1
  MaxRuns = 3
  MaxEvents = 3
CHECK_DEADLOCK FALSE
INVARIANT TypeOK
INVARIANT CompletedIsWhole
INVARIANT OneOpenArchive
PROPERTY InterruptionDetected
PROPERTY CleanAfterSeal
PROPERTY QuitEnds
