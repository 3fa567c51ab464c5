CONSTANTS
  PeriodSeconds = 1
  InitialDelaySeconds = 1
  FailureThreshold = 2
  ProbeBackoffThreshold = 1
  ProbeBackoffMaxRetrySeconds = 2
  Second = 2
  MaxVersion = 2
  MaxOps = 1
  MaxFlips = 1
  MaxLost = 1
  MaxCounted = 2

SPECIFICATION FairSpec
INVARIANTS StatusIsEarned GateHolds
PROPERTIES Spaced ProbeConcludes HealsAfterFix
CHECK_DEADLOCK FALSE
