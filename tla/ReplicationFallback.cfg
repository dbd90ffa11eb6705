SPECIFICATION Spec
CONSTANTS
    EntryOrder <- OneEntry
    Timestamp = {1}
    MaxUpdates = 1
    MaxChanges = 2
    LogBound = 2
    BatchMaxRecords = 2
    MaxDisturbances = 0
    Faults = {}
INVARIANTS
    FailedUpdatesAreWritten
