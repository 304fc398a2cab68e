SPECIFICATION FairSpec
CONSTANTS
  Jobs = {j1, j2}
  Workers = {w1, w2}
  Callers = {c1, c2}
  MaxQueue = 1
  MaxAttempts = 2
  LeaseTicks = 2
  Delay <- Doubling
  StopAfter = 2
  Slow = FALSE
  Faults = {"report", "schema"}
  MaxCalls = 2
  MaxLost = 1
INVARIANTS OneWorker AttemptsBounded OneRow
PROPERTIES JobSpec EveryJobEnds
CHECK_DEADLOCK FALSE
