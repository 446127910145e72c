SPECIFICATION Spec
CONSTANTS
    Null = Null
    Tables <- SmallTables
    Rates <- SomeRates
    OneSec = 4
    Waits = {0, 1, 3}
    Rtts = {1, 2}
    MaxSamples = 3
    MaxMem = 2
    One = 2
    Limit = 2
INVARIANTS
    TypeOK
    AveragesInRule
    MemoryAccounted
    RatioAtLeastOne
