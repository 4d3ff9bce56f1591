SPECIFICATION Spec
CONSTANTS
  Proc = {p1, p2, p3}
  File = {f1, f2, f3}
  NoProc = NoProc
  NoFile = NoFile
  MaxAttempts = 2
  MaxLives = 2
  MaxFaults = 1
  MaxCrashes = 1
  ReuseInode = TRUE
  ProcFs = TRUE
  Prompt = TRUE
SYMMETRY Symmetry
INVARIANTS
  OneOnboarding
  LoneRunAcquires
CHECK_DEADLOCK FALSE
