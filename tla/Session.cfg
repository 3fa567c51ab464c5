CONSTANTS
  q1 = q1
  q2 = q2
  Requests = {q1, q2}
  Workspaces = {"own", "other"}
  TTL = 2
  Window = 1
  Horizon = 2
  BootTTL = 1
  Leeway = 1
  Limit = 1
  Lag = 1
  MaxTime = 8
  MaxBegun = 3
  MaxChanges = 2
  MaxErrors = 1

SYMMETRY Symmetry
SPECIFICATION Spec
INVARIANTS RevokedAccessEnds SessionsEnd ClearedOnlyWithoutAccess
CHECK_DEADLOCK FALSE
