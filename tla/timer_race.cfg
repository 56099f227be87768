SPECIFICATION FairSpec
CONSTANTS
    Timer = {m1, m2, m3}
    Processor = {p1, p2}
    MaxTime = 2
INVARIANTS
    TypeOK
    DueExact
    CancelSettles
    RefsExact
PROPERTIES
    HandlerHasUser
    ExpiredRuns
    ImplementsOneShot
