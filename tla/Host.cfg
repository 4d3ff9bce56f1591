SPECIFICATION HostSpec
CONSTANTS
  TokenCh = {slack}
  QrCh = {whatsapp}
  RequiredCh = {slack}
  Extra = {npm}
  Custom = {corp}
  NoEntry = NoEntry
  NoBox = NoBox
  MaxCmds = 4
  MaxFailures = 1
  MaxDeaths = 1
  MaxMakes = 2
  MaxMakeFaults = 2
  Boxes = {src, dst}
  Files = {f, k}
  Credentials = {k}
  Data = {d1}
  Tags = {tag}
  Offered = {preset}
  SnapJobs = {j1, j2}
  MaxSnapCmds = 2
  MaxEdits = 1
  MaxSnapFaults = 1
  Sandboxes = {b1}
  Connects = {c1}
  Secrets = {k1, k2}
  Procs = {p1, p2}
  NoSecret = NoSecret
  NoProc = NoProc
  MaxInferCmds = 2
  MaxInferFaults = 1
INVARIANTS
  HostTypeOK
  RemovedStaysRemoved
  RecordedIsLive
  DestroyedLeavesNothing
  FilesAreKept
  BackedUpIsRestored
  PatchLeavesOne
  RestoredIsTruth
  NamesAreUnique
  PresetsFollow
  TokenIsGateways
  HelperServesGateway
PROPERTIES
  OthersAreSpared
  UnwantedIsNotBuilt
  LockedRebuildRelocks
  RebuildKeepsConfiguration
  RegisteredIsReal
  VersionsStay
CHECK_DEADLOCK FALSE
