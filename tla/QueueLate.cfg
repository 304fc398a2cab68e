SPECIFICATION Spec
CONSTANTS
  Jobs = {j1}
  Workers = {w1, w2}
  Callers = {c1}
  MaxQueue = 1
  MaxAttempts = 2
  LeaseTicks = 2
  Delay <- Doubling
  StopAfter = 2
  Slow = TRUE
  Faults = {"report"}
  MaxCalls = 2
  MaxLost = 1
SYMMETRY Symmetry
INVARIANT Reclaimable
CHECK_DEADLOCK FALSE
