CONSTANTS
  Workspaces = {w1, w2}
  MaxOps = 2
  MaxFaults = 1
  Retries = 1

SPECIFICATION FairSpec
INVARIANT Attended
PROPERTIES ReferrersProtected DeletionConverges
CHECK_DEADLOCK FALSE
