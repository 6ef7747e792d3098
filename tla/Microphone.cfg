SPECIFICATION Spec
CONSTANTS
    Captures = {c1, c2}
    Preparations = {p1}
    Enrolments = {e1, e2, b1}
    Browser = {b1}
    QueueChunks = 1
    MaxChunks = 1
    RestartLimit = 1
    Callers = {t1, t2}
    Nobody = Nobody
    Parties = {{c1, c2}, {c1, p1}, {c1, e1}, {e1, b1}, {e1, e2}}
INVARIANTS
    OneUserAtATime
    UserIsFound
PROPERTIES
    GivenBack
