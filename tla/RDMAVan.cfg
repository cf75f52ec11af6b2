SPECIFICATION FairSpec
CONSTANTS
    QPNums = {1, 2}
    kRxDepth = 3
    MaxFailures = 1
    Null = Null
    Programs <- WholeAndHalves
    kStartDepth = 1
    kMaxEntries = 4
    SlaveBit = 4
INVARIANTS ConnectedMeansUp Intact ResourcesKept
PROPERTIES ConnectReturns EverythingReceived
CHECK_DEADLOCK FALSE
