SPECIFICATION SideSpec
CONSTANTS
  Prov = {p1, p2}
  Agents = {openclaw, hermes}
  DefaultAgent = openclaw
  NoProv = NoProv
  NoSession = NoSession
  NoBox = NoBox
  NoEntry = NoEntry
  NoStep = NoStep
  MaxRuns = 3
  MaxStops = 2
  MaxDrifts = 1
  MaxRetries = 1
  Actors = {a1, a2}
  Pids = {g1, g2, g3}
  NoPid = NoPid
  MaxGateCmds = 2
  MaxGateEvents = 1
SYMMETRY Symmetry
INVARIANTS
  SideTypeOK
  EntryDescribesSandbox
PROPERTIES
  DeliveredIsConfigured
  RemovedWasGone
  StartDelivers
  StrangersAreSpared
CHECK_DEADLOCK FALSE
