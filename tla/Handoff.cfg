SPECIFICATION Spec
CONSTANTS
  i1 = i1
  i2 = i2
  k1 = k1
  k2 = k2
  Issue = {i1, i2}
  NoIssue = NoIssue
  Key = {k1, k2}
  NoKey = NoKey
  Ref = {"evidence", "unnamed"}
  UnnamedRef = {"unnamed"}
  Evidence <- EvidenceSets
  MaxResults = 2
  Scope <- Scopes
  Allowlist <- Allowlists
  Capability <- Capabilities
VIEW Memory
SYMMETRY Symmetry
CHECK_DEADLOCK FALSE
INVARIANTS
  TypeOK
  ReportIsComplete
  AnswersAreTraceable
