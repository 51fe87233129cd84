\* The two workers of the manager, with two forks each that are not forgotten yet.
SPECIFICATION FairSpec
CONSTANTS
    Workers <- TwoWorkers
    Server = "server"
    Watching <- OnlyServer
    Slots = {1, 2}
INVARIANTS TypeOK OneFork ChangePending DiesBeforeExit GracefulEnd
PROPERTY ChangeTakesEffect
CHECK_DEADLOCK FALSE
