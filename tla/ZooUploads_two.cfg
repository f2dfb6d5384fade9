SPECIFICATION Spec
CONSTANTS
  NoTask = NoTask
  Uploads = {u1, u2}
  Hashes = {h1}
  FileHash <- OneFile
  Requests = {r1, r2}
  Endpoints <- SlotEndpoints
  PatchTargets <- SdkTargets
  WaitForS3 = TRUE
  MaxMultiparts = 1
  MaxFiles = 1
SYMMETRY Symmetry
INVARIANTS
  OneActivePerHash
PROPERTIES
  KeepsContract
