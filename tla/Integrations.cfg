CONSTANTS
  Empty = Empty
  None = None
  Templates <- MCTemplates
  Targets <- MCTargets
  Refs <- MCRefs
  Shapes <- MCShapes
  Objects <- MCObjects
  MaxRevisions = 2
  MaxEvents = 1
SPECIFICATION FairSpec
INVARIANTS NoPartialOverlay SidecarKept DriftNeverRolls
PROPERTIES Settles VerdictSettles

