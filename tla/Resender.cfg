\* The scheduler's resender exists late; nothing is sent to the scheduler.
CONSTANTS
    Node = {1, 8, 9}
    Message <- ThreeMessages
    IdRange = 256
    HighTimestamp = 1073741824
    MaxRetry = 2
    Late = {1}
    MaxCopies = 2
    MaxDrops = 1
    NoMessage = NoMessage
SPECIFICATION Spec
PROPERTIES DeliversOnce EverythingProcessed
CHECK_DEADLOCK FALSE
