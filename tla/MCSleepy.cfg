SPECIFICATION Spec
CONSTANTS
  bat = bat
  lamp = lamp
  t1 = t1
  on1 = on1
  on2 = on2
  off1 = off1
  info1 = info1
  sleep1 = sleep1
  plain1 = plain1
  probe1 = probe1
  ping1 = ping1
  Node <- MCNode
  Sleepy = {bat}
  Thread = {}
  Msg = {on1, on2, probe1, sleep1, info1, plain1}
  NoMsg = NoMsg
  Controller = Controller
  Kind <- MCKind
  Target <- MCTarget
  Content <- MCContent
  QueueOf <- MCQueueOf
  StartId = 11
  MaxTries = 1
  MaxMaxTries = 2
  MaxOwed = 1
INVARIANTS QueueEventsMatch OnePlace
PROPERTIES NoSilentLoss
