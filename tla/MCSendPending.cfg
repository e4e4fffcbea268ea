SPECIFICATION Spec
CONSTANTS
  Thread = {t1, t2, t3}
  NoThread = NoThread
INVARIANTS InOneList
PROPERTIES ListStable
CHECK_DEADLOCK FALSE
