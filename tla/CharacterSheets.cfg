CONSTANTS
  c1 = c1
  r1 = r1
  r2 = r2
  Char <- MCChar
  Request <- MCRequest
  MaxHp = 3
  HpCap = 4
  MaxQuantity = 3
  Import <- MCImport
  Reply <- MCReply
  MaxVersion = 3
SPECIFICATION Spec
SYMMETRY MCSymmetry
INVARIANTS
  HpStaysInReach
PROPERTIES
  DeletedStaysDeleted
  StaleTabsAreRefused
CHECK_DEADLOCK FALSE
