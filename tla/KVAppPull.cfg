CONSTANTS
    Apps = {"kv", "af"}
    ServerCounts = {1, 2}
    MaxRequests <- MCMaxRequests
    MaxCalls <- MCMaxCalls
    MaxCrashes = 0
    Null = Null
    Shapes <- MCShapes
    NumEvents = 1
SPECIFICATION Spec
INVARIANTS PullFills
CHECK_DEADLOCK FALSE
