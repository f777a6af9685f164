SPECIFICATION WebFairSpec
CONSTANTS
  Readers = {poll, follow}
  NoOne = NoOne
  Nodes = {n1, n2}
  Nothing = Nothing
  MaxAttempts = 5
  ReloginAfter = 2
  WarnAfter = 3
  MaxReads = 2

INVARIANTS WebTypeOK NeverAnothersDevice DeadSessionIsNotFatal BufferIsOurs DeadFeatureIsReported
PROPERTY EveryReadEnds
CHECK_DEADLOCK FALSE
