SPECIFICATION Spec
CONSTANTS
  MaxRevisions = 2
  RecursionLimit = 13
CHECK_DEADLOCK FALSE
INVARIANTS
  RequiredIsAsked
  DisclaimerIsHanded
  NotCutOff
PROPERTIES
  FailureStands
  SameWorkersAgain
