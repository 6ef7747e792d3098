SPECIFICATION Spec
CONSTANTS
    Starts = {1, 2}
    anna = anna
    bert = bert
    Scenarios <- MCScenarios
    MaxTroubles = 1
    MaxSwitches = 1
INVARIANTS EnrolledIsRight
PROPERTIES BusyEnds
CHECK_DEADLOCK FALSE
