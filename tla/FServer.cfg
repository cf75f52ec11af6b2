CONSTANTS
    num_worker = 2
    Consumers = {main}
    Width = 3
    MaxRequests = 3
SPECIFICATION Spec
INVARIANTS NoEmptyPop
PROPERTIES ServesRounds EveryRoundServed
CHECK_DEADLOCK FALSE
