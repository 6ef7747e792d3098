SPECIFICATION Spec
CONSTANTS
    Kinds = {"llm", "ocr"}
    Memory <- MCMemory
    Budget = 1
    Calls = {"llm1", "llm2", "ocr1"}
    KindOf <- MCKindOf
    Streams = {"llm1"}
    Chunks = 1
    MaxTroubles = 1
    NoCall = NoCall
INVARIANTS
    InStep
    CancelIsTold
PROPERTIES
    CallsEnd
CHECK_DEADLOCK FALSE
