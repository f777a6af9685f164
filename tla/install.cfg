SPECIFICATION LifeSpec
CONSTANTS
  n1 = n1
  n2 = n2
  g = g
  x = x
  Nodes = {n1, n2}
  NoNode = NoNode
  Groups = {g, x}
  WellFormed = {g}
  GroupsOf <- Together
  Buses <- OneBus
  Polls = {60}
  DefaultPoll = 60
  WebAtInstall = {FALSE}
  MaxSaves = 1
  MaxFaults = 1
  MaxReloads = 0
  Flows = {f1, f2}
  MaxTries = 3
INVARIANTS InstallTypeOK OneEntry EntryWasChecked ChecksHangUp SummaryIsKept
PROPERTY ConfirmedIsLoaded
CHECK_DEADLOCK FALSE
