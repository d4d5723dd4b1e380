CONSTANTS
  c1 = c1
  c2 = c2
  forged = forged
  malformed = malformed
  Character <- MCParty
  Named <- MCParty
  Forged = forged
  Malformed = malformed
  Registry = {"dm_mention", "host_turn", "pending_action_completed"}
  MaxActions = 2
  MaxTasks = 3
  AsksAgain = FALSE
  MaxFaults = 0
SPECIFICATION Spec
INVARIANTS
  ClosedActionIsResumed
