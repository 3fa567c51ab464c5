CONSTANTS
  Resources = {r1}
  UserOps = {"ref", "delete", "strategy", "preempt"}
  FaultKinds = {"api", "crash", "probe", "unready", "lost"}
  IdleEnabled = TRUE
  ProbeDefined = TRUE
  Lingering = TRUE
  WatchAccess = TRUE
  MaxOps = 1
  MaxFaults = 1

SPECIFICATION Spec
INVARIANTS CopiesAreSound
PROPERTIES KeepsContract NothingCreatedForGone
CHECK_DEADLOCK FALSE
