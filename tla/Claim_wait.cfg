SPECIFICATION RunningSpec
CONSTANTS
  Tasks = {t1, t2, t3}
  Files = {f1}
  Operations <- GetAndInsert
  Capacity = 1
  FetchFails = FALSE
  DiskFails = FALSE
  Cancels = FALSE
PROPERTIES
  WaitersLookAgain
CHECK_DEADLOCK FALSE
