SPECIFICATION FairSpec
CONSTANTS
  lamp = lamp
  set1 = set1
  get1 = get1
  info1 = info1
  local1 = local1
  Node <- MCNode
  Sleepy = {}
  Thread = {}
  Msg = {set1, get1, local1, info1}
  NoMsg = NoMsg
  Controller = Controller
  Kind <- MCKind
  Target <- MCTarget
  Content <- MCContent
  QueueOf <- MCQueueOf
  StartId = 254
  MaxTries = 1
  MaxMaxTries = 3
  MaxOwed = 1
INVARIANTS TypeOK TransactionOpen AnswersCurrent
PROPERTIES TransactionEnds MessagesSettle
