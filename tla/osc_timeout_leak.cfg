SPECIFICATION Spec
CONSTANTS
     a1 = a1  a2 = a2  p1 = p1  p2 = p2  o1 = o1  o2 = o2
    e1 = e1  e2 = e2  e3 = e3  e4 = e4  e5 = e5  e6 = e6  None = None
    Apps = {a1, a2}
    Ptlrpcds = {p1}
    Exts = {e1, e2}
    Objs = {o1}
    ObjOf <- OneObj
    KindOf <- AllCached
    MaxPages = 2
    MaxRif = 2
    InitRif = 1
    InitDirtyMax = 1
    MaxResends = 1
    Evictions = TRUE
    WaitTimeout = TRUE
CHECK_DEADLOCK FALSE
SYMMETRY SymAll
INVARIANTS
    ReservationFreed
