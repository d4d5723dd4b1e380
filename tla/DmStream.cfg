CONSTANTS
  p = p
  f = f
  d = d
  j = j
  Symbol <- MCSymbol
  Marker <- MCMarker
  Json = j
  Text <- MCText
  MAX_ATTEMPTS = 2
  GRAPH_RECURSION_LIMIT = 25
  MaxRolls = 2
SPECIFICATION FairStreamSpec
INVARIANTS
  TurnEndsOnce
  RejectedProseIsRetracted
  StreamIsNarration
PROPERTIES
  FeedbackReachesModel
  InvocationEnds
