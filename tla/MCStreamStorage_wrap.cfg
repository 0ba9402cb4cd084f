SPECIFICATION Spec
CONSTANTS
    k1 = k1
    k2 = k2
    Key = {k1}
    Reader = {c1}
    MaxMs = 1
    MaxSeq = 1
    Request <- OneKey
    From <- Continue
    Input <- Wrapping
    Bound = {}
    Timeout = {0}
    SetKey = {}
    PxKey = {}
    MaxAdds = 2
    MaxReads = 1
    MaxNow = 0
INVARIANTS
    ReturnedIdsIncrease
CHECK_DEADLOCK FALSE
