SPECIFICATION Spec
CONSTANTS
  Identities = {i1, i2}
  Requests = {q1, q2, q3}
  Weights = {1, 3}
  None = None
  Capacity = 2
  RefillTokens = 1
  Interval = 2
  QueueDelay = 1
  Tracked = 2
  Retention = 2
  MaxBuckets = 1
  MaxClock = 5
PROPERTY ReplayExpires
