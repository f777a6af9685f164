SPECIFICATION Spec
CONSTANTS
  NoOne = NoOne
  MaxCancels = 0
  Callers = {a}
  MaxCalls = 1
  MaxIds = 2
  MaxConns = 2
  MayUnload = TRUE
INVARIANT UnloadCloses
CHECK_DEADLOCK FALSE
