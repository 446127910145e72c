SPECIFICATION FairSpec
CONSTANTS
    c1 = c1  c2 = c2  t1 = t1  t2 = t2  t3 = t3  None = None
    Clients = {c1, c2}
    Threads = {t1, t2}
    Rates = {2, 3}
    Second = 4
    Depth = 1
    Horizon = 2
    MaxQueued = 2
    MaxRules = 1
CHECK_DEADLOCK FALSE
INVARIANTS
    TypeOK
    ThrottleEnds
    NobodySleepsOnWork
PROPERTIES
    BucketsHold
    RequestsServed
