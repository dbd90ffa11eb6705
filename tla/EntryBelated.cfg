SPECIFICATION Spec
CONSTANTS
    Proc = {p1}
    MaxTime = 4
    Scenario <- AnyOrder
INVARIANT WrittenIsReadable
CHECK_DEADLOCK FALSE
