CONSTANTS
  Workspaces = {w1, w2}
  Refs = {"shared"}
  MaxOps = 3
  MaxFaults = 1

SPECIFICATION FairSpec
INVARIANT Attended
PROPERTIES ProtectionConverges DeletionConverges GenerationObserved
CHECK_DEADLOCK FALSE
