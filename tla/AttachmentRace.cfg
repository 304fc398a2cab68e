SPECIFICATION FairSpec
CONSTANTS
  Clients = {c1, c2}
  Sweepers = {s1}
  MaxCalls = 3
  MaxCrashes = 1
INVARIANTS VerdictStands KeyHasText NothingLeft
PROPERTIES UploadSpec Reclaimed
CHECK_DEADLOCK FALSE
