SPECIFICATION FairSpec
CONSTANTS
    EntryOrder <- TwoEntries
    Timestamp = {1}
    MaxUpdates = 1
    MaxChanges = 3
    LogBound = 2
    BatchMaxRecords = 2
    MaxDisturbances = 1
    Faults = {"refuse", "reject", "unreadable", "broken"}
INVARIANTS
    TypeOK
    Converged
    NoOrphanSend
PROPERTIES
    Drains
