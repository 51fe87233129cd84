SPECIFICATION Spec
CONSTANTS
    a = a
    b = b
    Sources = {a, b}
    Destroyed = {a}
    Multichart = {a}
    Rejecting = {b}
    Faults = {"params", "response", "msearch", "elsewhere"}
    NaN = NaN
    Consumers = 2
    MaxRequests = 4
INVARIANTS
    TypeOK
    LoadingMeansFetching
    OneRequestPerPromise
    RequestedIsFetched
CHECK_DEADLOCK FALSE
