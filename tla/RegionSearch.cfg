SPECIFICATION Spec
CONSTANTS
    Space = 512
    Minimum = 4
    Maximum = 191
    Giga = 32
    Slack = 8
    Region = 4
    Skip = 8
    SystemSize = 48
    PerRegion = 2
    Granularity = 16
    Ntdlls = {100, 152, 184}
    Layouts <- McLayouts
    Blocks <- McBlocks
    Functions <- McFunctions
    MaxCalls = 3
    MaxForeign = 1
    Nowhere = Nowhere
CHECK_DEADLOCK FALSE
INVARIANTS WithinReach DllRangeLeftAlone FindsRoom
PROPERTY SearchEnds
