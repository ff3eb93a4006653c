SPECIFICATION SpecQueued
CONSTANTS
  Proc = {p1, p2, p3}
  Run = {r1, r2}
  NoRun = NoRun
  MaxAttempts = 2
  Ino = {i1, i2}
  NoIno = NoIno
  SoloRecovery = FALSE
  MaxTries = 2
  MaxCrashes = 1
  MaxBroken = 0
SYMMETRY Symmetry
CHECK_DEADLOCK FALSE
PROPERTIES
  AttemptNeverChangesHands
