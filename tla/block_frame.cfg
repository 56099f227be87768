SPECIFICATION Spec
CONSTANTS
    Thread = {t1, t2}
    Builds = {FALSE, TRUE}
    Signals = {"STOP", "CONT"}
    Timeouts = {TRUE}
    Killing = {FALSE}
    MaxPending <- OneIfSmp
SYMMETRY Symmetry
INVARIANTS
    TypeOK
    FrameAlive
    ResultHonest
