SPECIFICATION Spec
CONSTANTS
  k1 = k1
  k2 = k2
  k3 = k3
  Processes = {"p1"}
  Reconcilers = {"p1"}
  Intents = {1, 2, 3}
  Keys = {k1, k2, k3}
  Requests <- ThreeOrders
  None = None
  CriticalAfter = 1
  PerRun = 2
  MaxClock = 2
  MaxCrashes = 0
CHECK_DEADLOCK FALSE
PROPERTY ExposureBlocked
