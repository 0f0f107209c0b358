SPECIFICATION Spec
CONSTANTS
  k1 = k1
  k2 = k2
  k3 = k3
  Keys = {k1, k2}
  None = None
  Capital = 8
  Prices = {2}
  Quantities = {1, 2}
  Budgets = {3}
  Sizes = {1, 2}
  Events = {1}
  LevelGap = 1
  Scale = 1
  BaseTolerance = 10
  FillTolerance = 2
  Overrun = 1
  FeeRate = 0
  FillDiv = 1
  Slippage = 0
  LatencyTicks = 0
  Capacity = 1
  MaxClock = 4
SYMMETRY Symmetry
CHECK_DEADLOCK FALSE
INVARIANT HistoryMakesRoom
