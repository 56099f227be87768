SPECIFICATION Spec
CONSTANTS
    Thread = {t1, t2, t3, t4}
    Waits = {t1, t2, t3}
    Futex = {f1, f2}
    Queue = {q1, q2, q3, q4, q5}
    None = None
    Privacies = {TRUE}
    Bits = {}
    MaxBitsets <- OnePrivate
    WakeCounts = {1}
    Counts2 = {1}
SYMMETRY Symmetry
INVARIANT BlockedRegistered
CHECK_DEADLOCK FALSE
