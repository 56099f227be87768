SPECIFICATION Spec
CONSTANTS
    Thread = {t1, t2, t3}
    Nil = Nil
    Modes = {"Shared", "Exclusive"}
    MaxNest = 2
    BigLock = FALSE
    Stoppable = {t3}
SYMMETRY Symmetry
INVARIANTS
    TypeOK
    MutualExclusion
    CountExact
    LockInv
PROPERTIES
    ImplementsRWLock
