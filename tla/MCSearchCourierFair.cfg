SPECIFICATION FairLoopSpec
CONSTANTS
    a = a
    b = b
    Sources = {a, b}
    Destroyed = {}
    Multichart = {}
    Rejecting = {b}
    Faults = {"msearch", "elsewhere"}
    NaN = NaN
    Consumers = 1
    MaxRequests = 3
    MaxFetches = 1
INVARIANTS
    LoopTypeOK
    LooperAwake
PROPERTIES
    EveryFetchEnds
    QueueDrains
CHECK_DEADLOCK FALSE
