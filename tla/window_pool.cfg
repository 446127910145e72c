SPECIFICATION Spec
CONSTANTS
    t1 = t1  t2 = t2  d1 = d1  None = None
    Threads = {t1, t2}
    Devs = {d1}
    Rules <- SomeRules
    One = 2
    Limit = 3
    MaxRif = 4
    InitRif = 1
    MaxPages = 2
    InitDirtyMax = 4
    DirtyCap = 5
    PoolMax = 6
SYMMETRY Symmetry
CHECK_DEADLOCK FALSE
INVARIANTS
    TypeOK
    PoolBounded
PROPERTIES
    ImplementsRegister
