SPECIFICATION Spec
CONSTANTS
    MaxFragments = 3
    MaxRounds = 3
    QueueSize = 1
    Scenarios <- MCScenarios
INVARIANTS
    RecordAgrees
    FrozenIsWhole
PROPERTIES
    FrozenStays
    CatchesUp
CHECK_DEADLOCK FALSE
