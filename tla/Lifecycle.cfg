CONSTANTS
    MaxTime = 3
    OlderThan = 1
    Interval = 1
    BatchSize = 1
    Scenario <- Separate
    MaxIncidents = 3
SPECIFICATION Spec
CHECK_DEADLOCK FALSE
INVARIANTS
    TypeOK
    PolicySurvives
PROPERTIES
    OnlyOldIsRemoved
    OldIsRemoved
    CallsReturn
