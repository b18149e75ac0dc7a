SPECIFICATION Spec
CONSTANTS
    self = self
    a = a
    b = b
    c = c
    Threads = {self, a, b, c}
    Self = self
    StaticHandles = 1
    MaxSuspend = 2
    MaxOperations = 1
    Builds = {"walk", "list"}
    Heaps = {"private", "process"}
    NoThread = NoThread
CHECK_DEADLOCK FALSE
INVARIANTS CallerRuns EveryoneStopped SuspensionsBalance HandlesAreOpen NothingLeftOver
PROPERTY TransactionEnds
