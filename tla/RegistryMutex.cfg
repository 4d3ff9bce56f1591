SPECIFICATION Spec
CONSTANTS
  Proc = {p1, p2, p3}
  NoProc = NoProc
  Name = {n1, n2}
  Value = {v1}
  NoName = NoName
  NoEntry = NoEntry
  Stale = 2
  MaxRetries = 3
  MaxFaults = 2
  MaxCrashes = 0
  Prompt = TRUE
SYMMETRY Symmetry
INVARIANTS
  MutualExclusion
PROPERTIES
  AtomicOperations
