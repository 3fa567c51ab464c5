CONSTANTS
  Resources = {r1}
  UserOps = {"desired", "spec", "delete", "strategy"}
  FaultKinds = {"api", "crash"}
  IdleEnabled = FALSE
  ProbeDefined = FALSE
  Lingering = FALSE
  WatchAccess = TRUE
  MaxOps = 1
  MaxFaults = 1

SPECIFICATION FairSpec
PROPERTIES DesiredStateReached DeletionCompletes
CHECK_DEADLOCK FALSE
