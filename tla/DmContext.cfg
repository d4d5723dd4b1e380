CONSTANTS
  LAYER_BUDGET <- MCBudget
  TranscriptLimit = 2
  Message <- MCMessage
  Sheet <- MCSheet
  Char <- MCChar
  Notes = {0, 1, 2}
  Action = {1, 2}
  MaxLines = 3
  MaxActions = 2
SPECIFICATION Spec
PROPERTIES
  NewestSurvivesTheCut
CHECK_DEADLOCK FALSE
