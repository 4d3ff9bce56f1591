SPECIFICATION Spec
CONSTANTS
  Prov = {p1, p2}
  Agents = {openclaw, hermes}
  DefaultAgent = openclaw
  NoProv = NoProv
  NoSession = NoSession
  NoBox = NoBox
  NoEntry = NoEntry
  NoStep = NoStep
  MaxRuns = 3
  MaxStops = 2
  MaxDrifts = 1
  MaxRetries = 1
PROPERTY
  DriftRecreates
CHECK_DEADLOCK FALSE
