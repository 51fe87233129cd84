\* Three requests, Elasticsearch turns green once, one edit and one change of the data.
SPECIFICATION FairSpec
CONSTANTS
    MaxRequests = 3
    Kinds <- MCKinds
    MaxInits = 2
    MaxPending = 2
    MaxGreens = 1
    MaxEdits = 1
    MaxData = 1
INVARIANTS TypeOK OneCache 
PROPERTIES RequestSettled
CHECK_DEADLOCK FALSE
