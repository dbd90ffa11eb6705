\* Timeout is longer than Ttl, which is longer than Poll, as in the defaults.
CONSTANTS
    a = a
    b = b
    Instance = {a, b}
    Poll = 1
    Ttl = 2
    Timeout = 3
    MaxIncidents = 5
    Scenario <- Deployments
SPECIFICATION Spec
INVARIANTS
    TypeOK
    OverlapEnds
PROPERTIES
    SecondaryYields
    NoEndlessWait
