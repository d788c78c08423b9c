\* Two requests on two instances with Redis, or on one without.
CONSTANTS
    i1 = i1
    i2 = i2
    c1 = c1
    c2 = c2
    c3 = c3
    b1 = b1
    b2 = b2
    Handlers = {h1, h2}
    Instances = {i1, i2}
    First = i1
    ConnsOf <- MCConnsOf
    Bots = {b1, b2}
    InitBots <- MCInitBots
    Ops = {"upload", "stats", "create", "update", "delete", "addbots", "removebots"}
    MaxChannels = 2
    MaxRequests = 2
    MaxCrashes = 1
SYMMETRY MCSymmetry
SPECIFICATION Spec
INVARIANTS  OneSelected LockKept PanicOnlyAfterChange
PROPERTY NoDoubleRollover
CHECK_DEADLOCK FALSE
