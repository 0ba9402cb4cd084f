SPECIFICATION Spec
CONSTANTS
    k1 = k1
    k2 = k2
    Key = {k1}
    Reader = {}
    MaxMs = 2
    MaxSeq = 6
    Request <- OneKey
    From <- Continue
    Input <- EveryInput
    Bound <- AnyBound
    Timeout = {}
    SetKey = {k1}
    PxKey = {k1}
    MaxAdds = 4
    MaxReads = 0
    MaxNow = 0
INVARIANTS
    ReturnedIdsIncrease
    ReturnedIsStored
    RangeIsLog
CHECK_DEADLOCK FALSE
