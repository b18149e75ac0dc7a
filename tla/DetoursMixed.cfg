SPECIFICATION Spec
CONSTANTS
    c1 = c1
    c2 = c2
    f1 = f1
    f2 = f2
    h1 = h1
    h2 = h2
    h3 = h3
    r1 = r1
    r2 = r2
    p1 = p1
    p2 = p2
    Callers = {c1}
    Runners = {}
    Functions = {f1}
    Hooks = {h1, h2}
    Home <- OneFunction
    Pages = {p1}
    PageOf <- SamePage
    Regions = {r1}
    Reach <- Everywhere
    Searched <- Everywhere
    LongPrologues = {}
    PerRegion = 5
    SuspendOptions = {TRUE}
    RepeatTarget = TRUE
    ProtectFails = FALSE
    MaxOperations = 2
    Original = Original
    Bypass = Bypass
    None = None
INVARIANTS NoDanglingJump
