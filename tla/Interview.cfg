SPECIFICATION FairSpec
CONSTANTS
  lamp = lamp
  bat = bat
  stick = stick
  Node = {lamp, bat}
  Sleepy = {bat}
  Controller = stick
  Cached = {}
  MayAsk <- MCMayAsk
  Changes = 0
  Revivals = 1
  Removals = FALSE
  Overlap = FALSE
  NoItem = NoItem
  NoNode = NoNode
PROPERTIES AskedBeforeLeft InterviewEnds QueriesAnnounced
CHECK_DEADLOCK FALSE
