SPECIFICATION Spec
CONSTANTS
  a = a
  b = b
  s = s
  k = k
  Proc = {a, b}
  NoProc = NoProc
  Alone = {}
  Skeleton = {}
  Refs = 2
  MaxFaults = 1
  MaxDeaths = 0
CHECK_DEADLOCK FALSE
INVARIANTS
  NothingHalfCreated
