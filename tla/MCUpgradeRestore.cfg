\* Two commands without any failure, for the claim of docs/setup/upgrade.asciidoc; two documents,
\* two migrations, two folders.
SPECIFICATION Spec
CONSTANTS
    d1 = d1
    d2 = d2
    f1 = f1
    f2 = f2
    Documents <- MCDocuments
    Folders <- MCFolders
    Stages = 2
    Acl = TRUE
    Retries = 2
    Faults = FALSE
    MaxCommands = 2
INVARIANTS RestoreUpgrades
CHECK_DEADLOCK FALSE
