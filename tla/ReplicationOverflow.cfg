SPECIFICATION Spec
CONSTANTS
    EntryOrder <- OneEntry
    Timestamp = {1, 2, 3}
    MaxUpdates = 0
    MaxChanges = 3
    LogBound = 2
    BatchMaxRecords = 2
    MaxDisturbances = 0
    Faults = {}
INVARIANTS
    Converged
