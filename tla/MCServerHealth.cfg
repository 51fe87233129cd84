\* Two calls of start, a change of the cluster, one background loop of each kind,
\* two counts under way.
SPECIFICATION FairHealthSpec
CONSTANTS
    Conditions <- Supported
    Custom = TRUE
    MaxStarts = 2
    MaxChanges = 1
    MaxLoops = 1
    MaxEarlier = 1
INVARIANTS HealthTypeOK OneGoesOn
PROPERTIES BlockedStaysOut StopIsFinal StatusFollows VerdictReached
CHECK_DEADLOCK FALSE
