SPECIFICATION FairSpec
CONSTANTS
  Proc = {p1, p2}
  NoProc = NoProc
  Name = {n1, n2}
  Value = {v1}
  NoName = NoName
  NoEntry = NoEntry
  Stale = 1
  MaxRetries = 4
  MaxFaults = 1
  MaxCrashes = 1
  Prompt = TRUE
INVARIANTS
  DefaultRegistered
PROPERTIES
  StaleLockCleared
  CommandsEnd
