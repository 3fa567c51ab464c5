CONSTANTS
  None = None
  Users = {"ann", "bob"}
  Privileged = {"operator"}
  Home = "home"
  Shared = "shared"
  Keys <- MCKeys
  Bare <- MCBare
  Contents <- MCContents
  Strategies = {"shared"}
  Accounts = {"default", "team"}
  DefaultSize = 3
  Reserved = {"reserved"}
  Changes <- MCChanges
  Patches <- MCPatches
  Grants <- MCGrants
  MaxRequests = 3
  MaxEdits = 1
SPECIFICATION Spec
CHECK_DEADLOCK FALSE
INVARIANTS TypeOK CheckedSpecKept OperatorAdmitted NoShrink DefaultingSettles
PROPERTIES OwnershipHolds AdmitsAtomically
