SPECIFICATION Spec
CONSTANTS
  Cli = {c1, c2}
  Token = {t1, t2}
  Pid = {p1, p2}
  Snap = {s1, s2, s3}
  NoToken = NoToken
  NoPid = NoPid
  NoSnap = NoSnap
  MaxFaults = 0
  MaxCrashes = 0
  PromptMark = FALSE
SYMMETRY Symmetry
PROPERTIES
  RepeatedDownKeepsTimer
