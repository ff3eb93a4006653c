SPECIFICATION Spec
CONSTANTS
  Corr = {"c1", "c2"}
  Ref <- MCRef
  MaxBundles = 1
  MaxCommands = 2
VIEW Memory
INVARIANTS
  TypeOK
  SuccessIsBacked
  ReportsAgree
  BlockedSaysWhy
  OwnResultIsProjectable
  EvidenceAgrees
PROPERTIES
  OutcomeIsFinal
