SPECIFICATION FairSpec
CONSTANTS
    t1 = t1
    t2 = t2
    t3 = t3
    p1 = p1
    p2 = p2
    Thread = {t1, t2, t3}
    Processor = {p1, p2}
    Idle = Idle
    None = None
    Priorities = {30}
    Affinity <- Pinned
    Donating = {}
    Killed = {t1}
    TimeSlice = 1
INVARIANTS
    RunnableQueued
    OneProcessor
PROPERTIES
    ReadyRuns
