SPECIFICATION Spec
CONSTANTS
    MaxPrefixes = 2
    ModRMs <- SomeModRMs
    Bases <- SomeBases
    ByteHalf = 4
    LongHalf = 32
    Near = 8
    Distances <- SomeDistances
INVARIANTS TypeOK LengthRight TargetsSeen TargetsKept GrowthRight
