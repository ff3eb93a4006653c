SPECIFICATION Spec
CONSTANTS
  i1 = i1
  i2 = i2
  Item = {i1, i2}
  NoItem = NoItem
  Watched = {i1}
  MaxAttempts <- Attempts
  MaxMoves = 3
VIEW Memory
INVARIANTS
  TypeOK
  AdviceCanBeFollowed
PROPERTIES
  ReportHeldOnce
  SteadyObstacleIsReported
  QuietQueueIsServed
