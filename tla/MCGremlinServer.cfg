\* Three starts in two lives of the server, three changes of Elasticsearch, two pings.
SPECIFICATION FairSpec
CONSTANTS
    MaxStarts = 3
    MaxPings = 2
    MaxChanges = 3
    MaxLives = 2
    Outcomes <- MCOutcomes
    PidExclusive = TRUE
INVARIANTS TypeOK NoStray CleanEnd
PROPERTIES VerdictReached
CHECK_DEADLOCK FALSE
