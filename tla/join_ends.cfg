SPECIFICATION FairSpec
CHECK_DEADLOCK FALSE
CONSTANTS
    Thread = {t1, t2, t3}
    Nobody = Nobody
INVARIANTS
    TypeOK
    WorkIsSeen
    BlockersAlive
    JoinHonest
PROPERTIES
    JoinReturns
    Reaped
