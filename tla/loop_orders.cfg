SPECIFICATION Spec
CONSTANTS
  k1 = k1
  k2 = k2
  k3 = k3
  Keys = {k1, k2}
  None = None
  Capital = 8
  Prices = {1, 4}
  Quantities = {3}
  Budgets = {4}
  Sizes = {6}
  Events = {1}
  LevelGap = 1
  Scale = 2
  BaseTolerance = 10
  FillTolerance = 2
  Overrun = 1
  FeeRate = 1
  FillDiv = 3
  Slippage = 0
  LatencyTicks = 0
  Capacity = 4
  MaxClock = 4
SYMMETRY Symmetry
VIEW WithoutLast
CHECK_DEADLOCK FALSE
INVARIANT AccountExplained
INVARIANT NoOverfill
INVARIANT SnapshotUsedOnce
