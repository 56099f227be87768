SPECIFICATION FairSpec
CONSTANTS
    Thread = {t1, t2, t3}
    Nil = Nil
    Modes = {"Exclusive"}
    MaxNest = 2
    BigLock = TRUE
    Stoppable = {}
INVARIANTS
    NoLostWakeup
PROPERTIES
    SleeperWoken
