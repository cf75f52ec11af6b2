SPECIFICATION UCXSpec
CONSTANTS
  Nodes = {"w", "s"}
  MaxFailures = 1
  MaxRestarts = 1
  Keys = {1, 2}
  PullKeys = {1}
  SidCount = 3
  MaxCalls = 3
  Null = Null
INVARIANTS Intact OrderKept EndpointsKept
PROPERTIES ConnectEnds CallsEnd StopEnds
CHECK_DEADLOCK FALSE
