SPECIFICATION FairSpec
CONSTANTS
    default = default
    dashboards = dashboards
    buttons = buttons
    id1 = id1
    id2 = id2
    q1 = q1
    q2 = q2
    q3 = q3
    Ids = {id1}
    Queries = {q1}
    Index <- IndexOf
    DashboardStrategy = default
    RelFilterStrategy = default
    BatchSize <- All2
    ParallelRequests <- All2
    RetryOnError <- All1
    EnableCache = TRUE
    EsMayFail = TRUE
    MaxAsked = 3
    MaxCall = 2
    MaxFlushes = 1
    MaxThrown = 1
INVARIANTS
    TypeOK
    InProgressCounted
    FailedAfterRetries
    OutdatedOnlyForLaterSent
    QueueAwake
CHECK_DEADLOCK FALSE
PROPERTIES
    PromiseKept
    EventuallySettled
