SPECIFICATION FairSpec
CONSTANTS
  Note = {a, b, c}
  Thread = {t1, t2}
  NoNote = NoNote
INVARIANTS TypeOK
PROPERTIES SignalledIsDelivered
CHECK_DEADLOCK FALSE
