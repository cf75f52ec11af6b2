CONSTANTS
    Producers = {p1, p2}
    Consumers = {c1}
    Value = {a, b}
    NoValue = NoValue
    Capacity = 4
SPECIFICATION QueueSpec
PROPERTIES PushAppends
