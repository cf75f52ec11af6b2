CONSTANTS
    Producers = {p1}
    Consumers = {c1}
    Value = {a, b}
    NoValue = NoValue
    Capacity = 4
    Pushers = {p1, p2}
    Poppers = {c1, c2}
    MaxQueue = 3
SPECIFICATION Spec
PROPERTIES IsFifo PushReturns PopsGoOn
