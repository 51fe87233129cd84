SPECIFICATION Spec
CONSTANTS
    a = a
    b = b
    Sources = {a, b}
    Destroyed = {a}
    Multichart = {}
    Rejecting = {}
    Faults = {"msearch"}
    NaN = NaN
    Consumers = 1
    MaxRequests = 4
INVARIANTS
    ErrorsRouted
CHECK_DEADLOCK FALSE
