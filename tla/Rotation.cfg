CONSTANTS
  Replicas = {p1, p2}
  TokenTTL = 6
  RotationInterval = 4
  NewKeyUseDelay = 2
  Lag = 1
  Jitter = 1
  RetryDelay = 2
  MaxLost = 1
  MaxRestarts = 1
  MaxTime = 12

SPECIFICATION Spec
INVARIANTS TokensKnownEverywhere KeyOutlivesToken SigningAvailable
CHECK_DEADLOCK FALSE
