CONSTANTS
    Scheduler = h
    Servers = {s0, s1}
    Workers = {w0, w1}
    Node <- MCNode
    Role <- MCRole
    GroupSize = 2
    Leaders = {h, s0, w0}
    Barriers <- ThreeBarriers
    MaxEntries = 2
    Nowhere = Nowhere
SPECIFICATION Spec
PROPERTIES IsBarrier EverybodyLeaves
CHECK_DEADLOCK FALSE
