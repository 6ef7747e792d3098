SPECIFICATION Spec
CONSTANTS
    o1 = o1
    o2 = o2
    c1 = c1
    c2 = c2
    Officers = {o1, o2}
    Captures = {c1, c2}
    Uncalibrated = Uncalibrated
    Nothing = Nothing
    Nobody = Nobody
    Points <- MCPoints
    Baseline <- MCBaseline
    Similarity = {0, 1}
INVARIANTS
    OnePoint
PROPERTIES
    NobodyByDefault
    ShownIsInForce
SYMMETRY Symmetry
