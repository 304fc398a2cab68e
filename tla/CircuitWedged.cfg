SPECIFICATION CircuitFairSpec
CONSTANTS
  Calls = {k1, k2}
  Threshold = 1
  Open = 1
  StaleStamp = FALSE
  Renewed = FALSE
PROPERTIES Recovers
