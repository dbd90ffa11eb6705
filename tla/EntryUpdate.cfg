SPECIFICATION Spec
CONSTANTS
    Proc = {p1, p2}
    MaxTime = 2
    Scenario <- UpdateBesideRemoval
PROPERTY UpdateInsertsNothing
CHECK_DEADLOCK FALSE
