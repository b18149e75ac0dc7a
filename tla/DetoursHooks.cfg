SPECIFICATION Spec
CONSTANTS
    c1 = c1
    c2 = c2
    f1 = f1
    f2 = f2
    h1 = h1
    h2 = h2
    h3 = h3
    r1 = r1
    r2 = r2
    p1 = p1
    p2 = p2
    Callers = {c1, c2}
    Runners = {x1}
    Functions = {f1, f2}
    Hooks = {h1, h2, h3}
    Home <- TwoFunctions
    Pages = {p1}
    PageOf <- SamePage
    Regions = {r1}
    Reach <- Everywhere
    Searched <- Everywhere
    LongPrologues = {f2}
    PerRegion = 5
    SuspendOptions = {TRUE}
    RepeatTarget = FALSE
    ProtectFails = FALSE
    MaxOperations = 2
    Original = Original
    Bypass = Bypass
    None = None
SYMMETRY CallerSymmetry
INVARIANTS NoDanglingJump AttachedHooksRun NoLostThread NoTrampolineLeaked WritableOnlyInTransaction
PROPERTIES ImplementsHookService
