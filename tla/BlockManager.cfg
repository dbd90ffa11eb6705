SPECIFICATION Spec
CONSTANTS
    MaxTime = 4
    MaxLabels = 2
    MaxRecords = 2
    MaxOps = 5
    MaxCrashes = 2
    Windows = {"plain", "torn", "version", "wal", "remove"}
INVARIANT TypeOK
 
INVARIANT Durable
INVARIANT LogCoversMemory
CHECK_DEADLOCK FALSE
