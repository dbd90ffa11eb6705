CONSTANTS
    MaxTime = 3
    OlderThan = 1
    Interval = 1
    BatchSize = 1
    Scenario <- Default
    MaxIncidents = 3
SPECIFICATION Spec
CHECK_DEADLOCK FALSE
PROPERTIES
    ModeIsFollowed
