SPECIFICATION Spec
CONSTANTS
  lamp = lamp
  bat = bat
  stick = stick
  Node = {bat, stick}
  Sleepy = {bat}
  Controller = stick
  Cached = {bat}
  MayAsk <- MCMayAsk
  Changes = 2
  Revivals = 1
  Removals = TRUE
  Overlap = FALSE
  NoItem = NoItem
  NoNode = NoNode
INVARIANTS MarkerFollows
CHECK_DEADLOCK FALSE
