\* A text and a document, neither of which has its is_txt_file written.
SPECIFICATION Spec
CONSTANTS
  a = a
  b = b
  c = c
  Client <- TwoClients
  Kind <- KindOfTwo
  Wakeup = Wakeup
  MAX_CONNECTIONS = 2
  MAX_TASKS = 2
  Endpoint <- Endpoints
  Nowhere = Nowhere
  e1 = e1
  e2 = e2
  MAX_MOVES = 1
  EngineErrors = FALSE
INVARIANT KindDecides
\* The process ends when main has.
CHECK_DEADLOCK FALSE
