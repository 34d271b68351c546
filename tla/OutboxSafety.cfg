SPECIFICATION Spec
CONSTANTS
    Channels = {c1}
    Keys = {k1, k2}
    ChannelOf <- OneChannel
    Cooldown = {c1}
    PerHour = 1
    MaxAttempts = 2
    StoreFaults = TRUE
    MaxRows = 2
    MaxStarts = 2
    c1 = c1
    k1 = k1
    k2 = k2
SYMMETRY Symmetry
INVARIANTS OneUnderWay  RetriesExplained
PROPERTIES PromiseKept
CHECK_DEADLOCK FALSE
