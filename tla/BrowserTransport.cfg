CONSTANT Scenarios <- MCScenarios
SPECIFICATION Spec
INVARIANTS
    NothingStoredIsLost
    ArchiveIsTheRecording
PROPERTY
    StopEnds
CHECK_DEADLOCK FALSE
