SPECIFICATION Spec
CONSTANTS
    Officers = {o1}
    Sessions = {x1}
    Fragments = {f1}
    Voices = {"v1", "v2"}
    Speakers = {"SUSPECT", "UNKNOWN"}
    Releases = {0, 1, 2, 3, 5, 8, 11, 13, 15}
    MaxAttempts = 2
    MaxWrites = 3
INVARIANTS
    SchemaInOrder
PROPERTIES
    NothingIsLost
CHECK_DEADLOCK FALSE
