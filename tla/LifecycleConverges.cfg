CONSTANTS
  Resources = {r1}
  UserOps = {"desired"}
  FaultKinds = {}
  IdleEnabled = FALSE
  ProbeDefined = FALSE
  Lingering = TRUE
  WatchAccess = TRUE
  MaxOps = 2
  MaxFaults = 0

SPECIFICATION FairSpec
PROPERTY DesiredStateReached
CHECK_DEADLOCK FALSE
