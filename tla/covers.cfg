SPECIFICATION CoversSpec
CONSTANTS
  n1 = n1
  n2 = n2
  n3 = n3
  A = A
  Nodes = {n1, n2, n3}
  Texts = {A}
  Sites <- MCSites
  Stop = 50
  Chosen = {1}
  Slack = 2
INVARIANTS CoversTypeOK NamesAreDistinct OneCoverPerGroup WritesAreNotLost GroupShowsMembers CommandsLand
PROPERTIES NeverInvented MovesAreFollowed
