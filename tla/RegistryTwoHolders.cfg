SPECIFICATION Spec
CONSTANTS
  Proc = {p1, p2, p3}
  NoProc = NoProc
  Name = {n1}
  Value = {v1}
  NoName = NoName
  NoEntry = NoEntry
  Stale = 1
  MaxRetries = 3
  MaxFaults = 0
  MaxCrashes = 1
  Prompt = TRUE
SYMMETRY Symmetry
INVARIANTS
  MutualExclusion
