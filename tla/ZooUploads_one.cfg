SPECIFICATION Spec
CONSTANTS
  NoTask = NoTask
  Uploads = {u1}
  Hashes = {h1}
  FileHash <- OneFile
  Requests = {r1, r2}
  Endpoints <- AnyEndpoint
  PatchTargets <- AllButDone
  WaitForS3 = TRUE
  MaxMultiparts = 2
  MaxFiles = 2
SYMMETRY RequestSymmetry
INVARIANTS
  TypeOK
  FileHasObject
  DoneHasFile
  AbortsOnlyExpired
