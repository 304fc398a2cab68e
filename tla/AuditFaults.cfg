SPECIFICATION Spec
CONSTANTS
  Threads = {p1, p2, p3}
  NoThread = none
  process = process
  Home <- OneProcess
  Block = 2
  MaxEvents = 5
  MaxCrashes = 2
  Faults = {"read", "open", "disk", "dead", "crash"}
SYMMETRY Symmetry
INVARIANTS ChainIntact NothingLost LossIsReported
CHECK_DEADLOCK FALSE
