SPECIFICATION TickingSpec
CONSTANTS
  NoTask = NoTask
  Uploads = {u1}
  Hashes = {h1}
  FileHash <- OneFile
  Requests = {r1, r2}
  Endpoints <- AnyEndpoint
  PatchTargets <- AllButDone
  WaitForS3 = TRUE
  MaxMultiparts = 1
  MaxFiles = 1
PROPERTIES
  SlotIsReleased
  SilenceIsNoticed
