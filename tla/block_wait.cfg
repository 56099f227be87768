SPECIFICATION FairSpec
CONSTANTS
    Thread = {t1, t2}
    Builds = {FALSE}
    Signals = {"USR1"}
    Timeouts = {FALSE, TRUE}
    Killing = {}
    MaxPending <- OneIfSmp
INVARIANTS
    BlockedUnwoken
PROPERTIES
    WokenReturns
