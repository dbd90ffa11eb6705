SPECIFICATION Spec
CONSTANTS
    Proc = {p1, p2, p3}
    MaxTime = 5
    Scenario <- Served
INVARIANT TypeOK
INVARIANT WrittenIsReadable
INVARIANT RemovedIsGone
INVARIANT UpdatesAreKept
INVARIANT PlacesAreDisjoint
SYMMETRY Symmetry
CHECK_DEADLOCK FALSE
