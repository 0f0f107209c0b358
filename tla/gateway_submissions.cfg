SPECIFICATION FairSpec
CONSTANTS
  k1 = k1
  k2 = k2
  k3 = k3
  Processes = {"p1", "p2"}
  Reconcilers = {"p2"}
  Intents = {1, 2}
  Keys = {k1, k2}
  Requests <- TwoOrders
  None = None
  CriticalAfter = 1
  PerRun = 1
  MaxClock = 1
  MaxCrashes = 1
CHECK_DEADLOCK FALSE
INVARIANT SubmittedOnce
INVARIANT ProviderOrdersOnRecord
PROPERTY ImplementsOrderLife
PROPERTY UnknownIsScanned
