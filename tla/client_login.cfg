SPECIFICATION Spec
CONSTANTS
  NoOne = NoOne
  MaxCancels = 0
  Callers = {a, b}
  MaxCalls = 2
  MaxIds = 4
  MaxConns = 4
  MayUnload = FALSE
INVARIANT RightCredentialsAccepted
CHECK_DEADLOCK FALSE
