SPECIFICATION Spec
CONSTANTS
  k1 = k1
  k2 = k2
  k3 = k3
  Keys = {k1, k2}
  None = None
  Capital = 8
  Prices = {1}
  Quantities = {1}
  Budgets = {5}
  Sizes = {2}
  Events = {}
  LevelGap = 1
  Scale = 1
  BaseTolerance = 10
  FillTolerance = 2
  Overrun = 0
  FeeRate = 0
  FillDiv = 1
  Slippage = 0
  LatencyTicks = 0
  Capacity = 4
  MaxClock = 4
SYMMETRY Symmetry
CHECK_DEADLOCK FALSE
INVARIANT SettlementIsAccepted
