SPECIFICATION ReconSpec
CONSTANTS
  r1 = r1
  r2 = r2
  Proc = {p1}
  Run = {r1, r2}
  NoRun = NoRun
  MaxAttempts = 2
  Observations <- SomeObservations
VIEW Memory
SYMMETRY LaneRuns
INVARIANTS
  ReconTypeOK
  NoFalseAlarm
PROPERTIES
  EvidenceIsOwned
  AdviceCanBeFollowed
