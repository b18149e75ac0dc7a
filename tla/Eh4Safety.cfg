SPECIFICATION Spec
CONSTANTS
    t1 = t1
    t2 = t2
    w1 = w1
    w2 = w2
    None = None
    Garbage = Garbage
    Threads = {t1, t2}
    Watchdogs = {w1, w2}
    CallPrevious = {TRUE, FALSE}
    MaySmashStack = TRUE
    DispatcherReturn = 65536
    MaxKills = 1
    MaxDetaches = 1
SYMMETRY Symmetry
INVARIANTS
    OneWatchdog
    DetachedIsClean
    NoDoubleClose
    FrozenIsWatched
CHECK_DEADLOCK FALSE
