SPECIFICATION EntrySpec
CONSTANTS
  n1 = n1
  n2 = n2
  g = g
  x = x
  Nodes = {n1, n2}
  NoNode = NoNode
  Groups = {g, x}
  WellFormed = {g}
  GroupsOf <- Together
  Buses <- MixedBuses
  Polls = {10, 60}
  DefaultPoll = 60
  WebAtInstall = {FALSE}
  MaxSaves = 0
  MaxFaults = 1
  MaxReloads = 1
INVARIANT OneMissSurvives
CHECK_DEADLOCK FALSE
