\* Two commands with failures and kills; two documents, two migrations, two folders.
SPECIFICATION FairSpec
CONSTANTS
    d1 = d1
    d2 = d2
    f1 = f1
    f2 = f2
    Documents <- MCDocuments
    Folders <- MCFolders
    Stages = 2
    Acl = TRUE
    Retries = 1
    Faults = TRUE
    MaxCommands = 2
INVARIANTS TypeOK Recoverable ExitTells
PROPERTIES CommandEnds
CHECK_DEADLOCK FALSE
