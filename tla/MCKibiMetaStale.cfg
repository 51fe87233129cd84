SPECIFICATION Spec
CONSTANTS
    default = default
    dashboards = dashboards
    buttons = buttons
    id1 = id1
    id2 = id2
    q1 = q1
    q2 = q2
    q3 = q3
    Ids = {id1, id2}
    Queries = {q1, q2}
    Index <- IndexOf
    DashboardStrategy = default
    RelFilterStrategy = default
    BatchSize <- All2
    ParallelRequests <- All1
    RetryOnError <- All1
    EnableCache = TRUE
    EsMayFail = TRUE
    MaxAsked = 3
    MaxCall = 1
    MaxFlushes = 0
    MaxThrown = 0
PROPERTIES
    NoStaleCallback
CHECK_DEADLOCK FALSE
