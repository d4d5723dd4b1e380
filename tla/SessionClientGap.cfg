CONSTANTS
  c1 = c1
  Client <- MCOneClient
  Chat <- MCPublicChat
  MaxEvents = 2
  MaxConnects = 1
  MaxErrors = 0
SPECIFICATION Spec
PROPERTIES MissedEventsArrive
CHECK_DEADLOCK FALSE
