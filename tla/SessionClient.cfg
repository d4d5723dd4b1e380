CONSTANTS
  c1 = c1
  Client <- MCOneClient
  Chat <- MCChat
  MaxEvents = 2
  MaxConnects = 2
  MaxErrors = 1
SPECIFICATION FairSpec
INVARIANTS
  TranscriptInOrder
  WhispersStayPrivate
  StatusIsNotRolledBack
PROPERTIES
  AnswerReachesItsSnapshot
  PlayersCatchUp
CHECK_DEADLOCK FALSE
