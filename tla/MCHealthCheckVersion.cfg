\* Nodes of an incompatible version, and nothing changes.
SPECIFICATION Spec
CONSTANTS
    Conditions <- Incompatible
    Custom = FALSE
    MaxStarts = 1
    MaxChanges = 0
    MaxLoops = 1
PROPERTY IncompatibleStaysOut
CHECK_DEADLOCK FALSE
