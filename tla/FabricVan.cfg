SPECIFICATION Spec
CONSTANTS
  Nodes = {"w", "s"}
  Keys = {1}
  Places = 2
  kStartDepth = 3
  kRxDepth = 4
  kMaxEntries = 6
  MaxMsgs = 3
  MaxCtl = 1
  Null = Null
INVARIANTS Intact ContextsKept
PROPERTIES CallsEnd StopEnds
CHECK_DEADLOCK FALSE
