SPECIFICATION CoordFairSpec
CONSTANTS
  Motors = {a, w}
  NoMotor = NoMotor
  Positional = {a}
  WebReady = TRUE
  Targets <- MotorsAndGroup
  MaxPosition = 1
  SettleReads = 3
  CeilingTicks = 4
  PollTicks = 5
  StartDelay = 1
  MaxCommands = 1
  MaxFaults = 1
  EverFaulty = TRUE
  MaxSlow = 1

PROPERTIES FollowEnds StateConverges
