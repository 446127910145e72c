SPECIFICATION Spec
CONSTANTS
    t1 = t1  t2 = t2
    Threads = {t1, t2}
    Gaps = {0, 5}
    UdelayLimit = 2
    UsleepLimit = 4
    Msec = 2
    Boot = 5
    MaxTime = 10
SYMMETRY Symmetry
INVARIANTS
    TypeOK
PROPERTIES
    TwoPerGap
CHECK_DEADLOCK FALSE
