SPECIFICATION Spec
CONSTANTS
  Cli = {c1}
  Token = {t1, t2}
  Pid = {p1, p2}
  Snap = {s1, s2, s3}
  NoToken = NoToken
  NoPid = NoPid
  NoSnap = NoSnap
  MaxFaults = 1
  MaxCrashes = 1
  PromptMark = FALSE
SYMMETRY Symmetry
INVARIANTS
  TypeOK
  SnapshotsRestrictive
  MarkerNamesItsTimer
PROPERTIES
  ImplementsLockdown
  TimerAuthority
  KillSafety
