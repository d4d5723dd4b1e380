CONSTANTS
  r1 = r1
  r2 = r2
  r3 = r3
  r4 = r4
  Request <- MCRequest
  Value <- MCValue
  Patch <- MCPatch
  MaxKeys = 2
  MaxNow = 2
  Capacity = 1
  Token = 2
SPECIFICATION Spec
SYMMETRY MCSymmetry
INVARIANTS
  VerdictIsOfThisConfiguration
  SelectionExists
  TestsAreLimited
PROPERTIES
  AuditTellsWhatHappened
CHECK_DEADLOCK FALSE
