SPECIFICATION Spec
CONSTANTS
  Call = {c1, c2, c3}
  Ino = {i1, i2}
  NoIno = NoIno
  Slow = {c1}
  SoloRecovery = FALSE
  MaxTries = 2
  MaxCrashes = 1
  MaxBroken = 1
CHECK_DEADLOCK FALSE
PROPERTIES
  EveryCallSettles
