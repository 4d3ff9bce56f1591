SPECIFICATION LiveSpec
CONSTANTS
  Cli = {c1}
  Token = {t1, t2}
  Pid = {p1, p2}
  NoToken = NoToken
  NoPid = NoPid
  NoSnap = NoSnap
  Snapshots = {s1, s2}
  MaxMakes = 1
  MaxMakeFaults = 2
PROPERTIES
  WindowCloses
  AbandonedWindowRecovered
  CreateSettles
CHECK_DEADLOCK FALSE
