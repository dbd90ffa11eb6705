SPECIFICATION Spec
CONSTANTS
    MaxTime = 3
    MaxLabels = 2
    MaxRecords = 2
    MaxOps = 5
    MaxCrashes = 1
    Windows = {"plain", "index"}
PROPERTY EmptyIndexIsCorrupted
CHECK_DEADLOCK FALSE
