SPECIFICATION CircuitFairSpec
CONSTANTS
  Calls = {k1, k2, k3}
  Threshold = 3
  Open = 3
  StaleStamp = TRUE
  Renewed = TRUE
INVARIANTS ProbeOwned OneProbe
PROPERTIES Heals
