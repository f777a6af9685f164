SPECIFICATION EntryFairSpec
CONSTANTS
  n1 = n1
  n2 = n2
  g = g
  x = x
  Nodes = {n1, n2}
  NoNode = NoNode
  Groups = {g, x}
  WellFormed = {g}
  GroupsOf <- Together
  Buses <- MixedBuses
  Polls = {10, 60}
  DefaultPoll = 60
  WebAtInstall = {TRUE, FALSE}
  MaxSaves = 2
  MaxFaults = 1
  MaxReloads = 1
INVARIANTS EntryTypeOK SettingsTakeEffect NoDeadSlider ConnectionsAreClosed
PROPERTY Settles
CHECK_DEADLOCK FALSE
