SPECIFICATION Spec
CONSTANTS
  NoOne = NoOne
  MaxCancels = 0
  Callers = {a}
  MaxCalls = 2
  MaxIds = 4
  MaxConns = 4
  MayUnload = FALSE
PROPERTY DroppedLinkIsRetried
CHECK_DEADLOCK FALSE
