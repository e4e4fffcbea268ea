SPECIFICATION FairSpec
CONSTANTS
  lamp = lamp
  bat = bat
  stick = stick
  Node = {lamp, bat}
  Sleepy = {bat}
  Controller = stick
  Cached = {}
  MayAsk <- MCMayAsk
  Changes = 1
  Revivals = 0
  Removals = TRUE
  Overlap = FALSE
  NoItem = NoItem
  NoNode = NoNode
PROPERTIES QueriesAnnounced
CHECK_DEADLOCK FALSE
