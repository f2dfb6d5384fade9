SPECIFICATION WorkingSpec
CONSTANTS
  Sessions = {s1}
  None = None
  Variants = 2
  Knobs = {2}
  Places = {top, below}
  LateMount = TRUE
  AgentErrors = TRUE
  PostsFail = TRUE
  MaxReloads = 1
  MaxRevision = 2
  MaxDiscards = 1
INVARIANTS
  TypeOK ObserverFollowsSession ActiveHasSession CheckpointsFresh ShownVariantExists
PROPERTIES
  ValuesFollowVariant
  DecisionEnds
  VariantsAreShown
CHECK_DEADLOCK FALSE
