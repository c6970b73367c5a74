SPECIFICATION Spec
CONSTANTS
  a = a
  b = b
  c = c
  Client <- TwoClients
  Kind <- KindOfTwo
  Wakeup = Wakeup
  MAX_CONNECTIONS = 1
  MAX_TASKS = 1
  Endpoint <- Endpoints
  Nowhere = Nowhere
  e1 = e1
  e2 = e2
  MAX_MOVES = 1
  EngineErrors = TRUE
PROPERTY RefusedOnlyWhenFull
CHECK_DEADLOCK FALSE
