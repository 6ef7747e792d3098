SPECIFICATION Spec
CONSTANTS
    o1 = o1
    o2 = o2
    o3 = o3
    s1 = s1
    s2 = s2
    old = old
    x1 = x1
    c1 = c1
    c2 = c2
    m1 = m1
    m2 = m2
    r1 = r1
    r2 = r2
    Parties <- MCParties
    MaxSuspect = 1
    Officers = {o1, o2, o3}
    Samples = {s1, s2, old}
    OldReference <- MCOldReference
    Sessions = {x1}
    Requests = {r1, r2}
    Setups = {m1, m2}
    Captures = {c1, c2}
    MaxVersion = 3
    MaxCalibrations = 2
    MinOfficers = 2
    MinSamplesPerOfficer = 1
    Unknown = Unknown
    Nobody = Nobody
PROPERTIES
    LibraryAgrees
    BoundStays
    FrozenIsFit
SYMMETRY Symmetry
CHECK_DEADLOCK FALSE
