SPECIFICATION FairSpec
CONSTANTS
  MaxRevisions = 2
  MaxAsks = 4
  MaxFaults = 2
  Risky = {2}
CHECK_DEADLOCK FALSE
INVARIANTS
  OneCallPerApproval
  OnlyAskedIsSent
  Attended
PROPERTIES
  AnswerStands
  Settles
