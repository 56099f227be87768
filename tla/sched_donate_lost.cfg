SPECIFICATION Spec
CONSTANTS
    t1 = t1
    t2 = t2
    t3 = t3
    p1 = p1
    p2 = p2
    Thread = {t1, t2}
    Processor = {p1}
    Idle = Idle
    None = None
    Priorities = {30}
    Affinity <- Anywhere
    Donating = {t1}
    Killed = {t1}
    TimeSlice = 2
INVARIANTS
    RunnableQueued
