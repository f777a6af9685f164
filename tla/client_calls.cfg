SPECIFICATION FairSpec
CONSTANTS
  Callers = {a, b}
  NoOne = NoOne
  MaxCalls = 2
  MaxIds = 5
  MaxConns = 3
  MaxCancels = 1
  MayUnload = TRUE

INVARIANTS TypeOK OwnReply NoForgottenWaiter NoStaleFuture NoLeakedConnection ReadLoopOwnsLink
PROPERTIES CallContract EveryCallEnds
CHECK_DEADLOCK FALSE
