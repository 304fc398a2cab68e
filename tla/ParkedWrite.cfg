SPECIFICATION Spec
CONSTANTS
  Tasks = {t1, d1}
  Commits = {d1}
  Doc = doc
  Workers = {w1, w2}
  w1 = w1
  Serves <- MCServes
  Clicks = {k1, k2}
  CardTtl = 1
  ManagerTtl = 1
  SaveTtl = 1
  DocTtl = 2
  PayloadTtl <- MCTtl
  MaxTime = 2
  Faults = {"audit", "tool", "crash"}
SYMMETRY Symmetry
INVARIANTS AtMostOnce OnlyApproved SuccessMeansRun RefusedIsDropped
CHECK_DEADLOCK FALSE
