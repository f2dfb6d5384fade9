SPECIFICATION RunningSpec
CONSTANTS
  Tasks = {t1, t2}
  Files = {f1}
  Operations <- GetAndEvict
  Capacity = 1
  FetchFails = FALSE
  DiskFails = FALSE
  Cancels = FALSE
PROPERTY
  EvictionEnds
CHECK_DEADLOCK FALSE
