CONSTANTS
  c1 = c1
  c2 = c2
  forged = forged
  malformed = malformed
  Character <- MCParty
  Named <- MCAnyString
  Forged = forged
  Malformed = malformed
  Registry = {"dm_mention", "host_turn", "pending_action_completed"}
  MaxActions = 2
  MaxTasks = 3
  AsksAgain = TRUE
  MaxFaults = 2
SPECIFICATION FairSpec
INVARIANTS
  TypeOK
  PauseCanBeLifted
  ParkedTurnIsIntact
  TurnIsToldOnce
PROPERTIES
  OnlyFaultsAbandon
  StoppedTableIsStill
  GeneratingEnds
