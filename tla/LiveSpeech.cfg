CONSTANTS
    MaxUtterance = 2
    PreRoll = 1
    StartLag = 1
    Recordings = {{0, 1, 2, 3}, {1, 3, 4}}
    Kinds = {"device", "browser"}
    MaxSamples = 5
    MaxPiece = 2
    ReplayWindow = 3
    MaxCrashes = 2
    MaxFaults = 1
SPECIFICATION Spec
INVARIANTS
    DeviceSpeechIsSafe
    HeardOnce
PROPERTIES
    CompleteIsTranscribed
CHECK_DEADLOCK FALSE
