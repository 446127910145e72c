SPECIFICATION FairSpec
CONSTANTS
    Clients = {c1}
    Handlers = {h1}
    Rules = {r0, r1}
    Default = r0
    Names = {n1}
    MaxStarts = 2
    MaxChanges = 1
    MayPurge = TRUE
    None = None
    c1 = c1
    c2 = c2
    h1 = h1
    h2 = h2
    r0 = r0
    r1 = r1
    r2 = r2
    n1 = n1
    n2 = n2
PROPERTIES
    GenerationFollows
CHECK_DEADLOCK FALSE
