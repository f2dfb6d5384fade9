SPECIFICATION Spec
CONSTANTS
  Tasks = {t1, t2, t3}
  Files = {f1, f2}
  Operations <- AllOperations
  Capacity = 1
  FetchFails = TRUE
  DiskFails = TRUE
  Cancels = TRUE
SYMMETRY Symmetry
INVARIANTS
  TypeOK
  FillIsCurrent
  EvictedFromMemory
PROPERTIES
  WaitersHaveFetcher
CHECK_DEADLOCK FALSE
