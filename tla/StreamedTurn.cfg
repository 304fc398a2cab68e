SPECIFICATION FairSpec
CONSTANTS
  Chunks = 3
  MaxDrafts = 2
  Providers = 2
INVARIANTS NothingDropped LossBounded ShownIsOneDraft
PROPERTIES TurnEnds
CHECK_DEADLOCK FALSE
