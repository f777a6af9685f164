SPECIFICATION CoordSpec
CONSTANTS
  Motors = {a}
  NoMotor = NoMotor
  Positional = {a}
  WebReady = TRUE
  Targets <- MotorsAndGroup
  MaxPosition = 2
  SettleReads = 3
  CeilingTicks = 60
  PollTicks = 30
  StartDelay = 1
  MaxCommands = 2
  MaxFaults = 1
  EverFaulty = FALSE
  MaxSlow = 0

PROPERTIES FollowedUntilSettled
