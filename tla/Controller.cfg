SPECIFICATION FairSpec
CONSTANTS
  add = add
  other = other
  Call = {add, other}
  Kinds <- MCKinds
  WithCallback = {add}
  Items = 5
  Extras = 2
  NoItem = NoItem
  NoMessage = NoMessage
INVARIANTS ItemsInOnePlace OneUnderWay
PROPERTIES SignalsRight QueueMoves
CHECK_DEADLOCK FALSE
