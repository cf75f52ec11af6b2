CONSTANTS
    Apps = {"kv", "af"}
    ServerCounts = {1, 2}
    MaxRequests <- MCMaxRequests
    MaxCalls <- MCMaxCalls
    MaxCrashes = 1
    Null = Null
    Shapes <- MCShapes
    NumEvents = 1
SPECIFICATION Spec
INVARIANTS PartsReceived BatchAnswered SentReady EventsAccounted RaceNeedsOverlap NothingDropped
PROPERTIES WaitEnds ResponderEnds
CHECK_DEADLOCK FALSE
