CONSTANTS
    Senders = {w1, w2}
    Busy = w1
    Few = 2
    k1 = k1
    k2 = k2
    k3 = k3
    Keys = {k1, k2, k3}
    Shapes <- MCShapes
    Settled = TRUE
    NumServers = 1
    MaxTimestamp = 7
    MaxAllocated <- Allocated
    NoMeta = NoMeta
SPECIFICATION Spec
PROPERTIES DeliversBatches EveryBatchHandled
CHECK_DEADLOCK FALSE
