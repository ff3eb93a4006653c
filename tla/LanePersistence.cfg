SPECIFICATION Spec
CONSTANTS
  a = a
  b = b
  s = s
  k = k
  Proc = {a, b, s, k}
  NoProc = NoProc
  Alone = {s, k}
  Skeleton = {k}
  Refs = 2
  MaxFaults = 1
  MaxDeaths = 1
VIEW Memory
SYMMETRY Overlapping
CHECK_DEADLOCK FALSE
INVARIANTS
  TypeOK
  SuccessKeepsEvidence
  StateHasEvidence
  UndisturbedSucceeds
  FailureRemovesDirectories
PROPERTIES
  RetryKeepsState
