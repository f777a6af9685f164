SPECIFICATION CoordSpec
CONSTANTS
  Motors = {a, w}
  NoMotor = NoMotor
  Positional = {a}
  WebReady = TRUE
  Targets <- MotorsAndGroup
  MaxPosition = 2
  SettleReads = 4
  CeilingTicks = 6
  PollTicks = 5
  StartDelay = 1
  MaxCommands = 2
  MaxFaults = 1
  EverFaulty = FALSE
  MaxSlow = 0

INVARIANTS CoordTypeOK ShownIsKnown
PROPERTIES  WebStateIsKept
