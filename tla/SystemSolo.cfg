SPECIFICATION Spec
CONSTANTS
  Proc = {p1, p2, p3}
  Run = {r1, r2}
  NoRun = NoRun
  MaxAttempts = 2
  Ino = {i1, i2}
  NoIno = NoIno
  SoloRecovery = TRUE
  MaxTries = 3
  MaxCrashes = 2
  MaxBroken = 1
SYMMETRY Symmetry
CHECK_DEADLOCK FALSE
INVARIANTS
  LockTypeOK
  MutualExclusion
  AbandonedLockHasACause
PROPERTIES
  DirectoryStaysUnderItsMaker
  ImplementsStore
