SPECIFICATION Spec
CONSTANTS
    Thread = {t1, t2, t3}
    Nil = Nil
    Modes = {"Exclusive"}
    MaxNest = 1
    BigLock = FALSE
    Stoppable = {t3}
INVARIANTS
    BlockedMeansQueued
