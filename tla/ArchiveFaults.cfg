CONSTANTS
    s1 = s1
    s2 = s2
    Samples <- MCSamples
    Payloads <- MCPayloads
    SegmentSamples = 2
    MaxSegments = 3
    Sources = {"BROWSER", "ALSA"}
    DamageKinds = {"lost"}
    OverlappingReplays = FALSE
    MaxFaults = 3
SPECIFICATION Spec
INVARIANTS
    TypeOK
    SegmentsTile
    StatusMatchesSegments
    ReceiptsTile
    StoredAudioReadsBack
PROPERTIES
    FinalAudioIsImmutable
    OnlyDamageLosesAudio
    ImplementsAudioLog
