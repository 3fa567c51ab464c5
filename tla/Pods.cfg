SPECIFICATION FairSpec
CONSTANTS
  None = None
  Corrupted = Corrupted
  Handlers = {"aws", ""}
  Adapters = {"aws"}
  Kinds = {"container", "call", "crash", "resync", "volume", "user", "admin"}
  MaxPods = 1
  MaxBacklog = 4
  MaxEvents = 3
INVARIANTS NoNodeLeft OneNode StateTrue
PROPERTY SetUpInTheEnd
CHECK_DEADLOCK FALSE
