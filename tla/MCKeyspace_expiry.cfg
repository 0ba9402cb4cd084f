SPECIFICATION Spec
CONSTANTS
    k1 = k1
    k2 = k2
    Key = {k1, k2}
    Px = {0, 1, 2}
    Dump <- Dumps
    OwnDump <- OwnDumps
    MaxSets = 3
    MaxNow = 3
INVARIANTS
    DeniedStaysDenied
    NotLostBefore
    ExpiresThereToo
CHECK_DEADLOCK FALSE
