SPECIFICATION FairSpec
CONSTANTS
  lock = lock
  lamp = lamp
  set = set
  get = get
  plain = plain
  ask = ask
  Node = {lock, lamp}
  Msg = {get, ask}
  NoNode = NoNode
  NoMsg = NoMsg
  Target <- MCTarget
  Encrypted = {get}
  Get = {get, ask}
  Sleepy = {lock}
  MaxTries = 2
  Slots = 2
  MaxOwed = 1
  News = 1
  Wakes = 1
  Overlap = FALSE
  Late = FALSE
INVARIANTS OnePlace NonceOnce
PROPERTIES NotLostUnsent Settles
CHECK_DEADLOCK FALSE
