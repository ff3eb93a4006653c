SPECIFICATION Spec
CONSTANTS
  Proc = {p1, p2}
  Run = {r1, r2}
  NoRun = NoRun
  MaxAttempts = 3
SYMMETRY Symmetry
INVARIANTS
  TypeOK
  ClaimHoldsQueuedRecord
  TerminalRecordAgreesWithLock
  PlansFitTheFiles
  OneFailedWriteLeavesNoMixedState
PROPERTIES
  AttemptNeverChangesHands
  LineageNamesTheClosedRun
  ImplementsAttempts
  ImplementsFiles
