CONSTANTS
  r1 = r1
  r2 = r2
  r3 = r3
  Request <- MCRequest
  CommandId <- MCCommandId
  Mode <- MCMode
  Drafts <- MCDrafts
  Target <- MCTarget
  Internal <- MCInternal
  PoolSize = 2
  Wrapping = {TRUE, FALSE}
SPECIFICATION FairSpec
INVARIANTS
  TypeOK
  LogIsConsistent
  AnswersAreTrue
  PublishedIsCommitted
  DecidesOnCurrentRow
PROPERTIES
  CommitsOnShownVersion
  PauseAndEndHold
  ImplementsAtomicSession
  EveryCallAnswered
