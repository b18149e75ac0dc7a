SPECIFICATION FairSpec
CONSTANTS
    t1 = t1
    w1 = w1
    w2 = w2
    None = None
    Garbage = Garbage
    Threads = {t1}
    Watchdogs = {w1, w2}
    CallPrevious = {FALSE}
    MaySmashStack = TRUE
    DispatcherReturn = 65536
    MaxKills = 0
    MaxDetaches = 0
PROPERTIES
    AlwaysFeedback
CHECK_DEADLOCK FALSE
