SPECIFICATION Spec
CONSTANTS
    Thread = {t1, t2, t3, t4}
    Waits = {t1, t2, t3}
    Futex = {f1, f2}
    Queue = {q1, q2, q3, q4, q5}
    None = None
    Privacies = {FALSE, TRUE}
    Bits = {b1}
    MaxBitsets <- OnePrivate
    WakeCounts = {1}
    Counts2 = {1}
SYMMETRY Symmetry
INVARIANTS
    TypeOK
    EntriesAlive
PROPERTIES
    StaysRegistered
    WakesInOrder
CHECK_DEADLOCK FALSE
