SPECIFICATION Spec
CONSTANTS
    Pieces = {1, 2}
    Recordings <- MCRecordings
    Callers = {t1}
INVARIANTS
    JobsAndRowsHold
PROPERTIES
    ImplementsTranscript
    Settles
