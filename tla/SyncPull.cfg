SPECIFICATION ProceedingSpec
CONSTANTS
  Files = {f1, f2, f3}
  Collections = {c1, c2}
  Id <- AnyId
  Home <- AnyHome
  Readable = {f1, f2, c1, c2}
  PageSize = 2
  PerMilli = 2
  MaxTime = 5
  Writers = 2
  Distinct = TRUE
  Served <- AllEndpoints
  ReadsFail = TRUE
  Interruptible = TRUE
INVARIANTS
  TypeOK
PROPERTIES
  NothingSkipped
  NothingUndead
  SyncEnds
  CursorsAdvance
  MirrorsCatalog
