SPECIFICATION Spec
CONSTANTS
    k1 = k1
    k2 = k2
    Key = {k1, k2}
    Dump <- Found
    Snapshot <- Sent
    Second = 2
    MaxNow = 3
INVARIANTS
    LoadsWellFormed
    CompleteAtEof
    RestoredSoFar
CHECK_DEADLOCK FALSE
