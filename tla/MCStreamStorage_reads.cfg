SPECIFICATION FairSpec
CONSTANTS
    k1 = k1
    k2 = k2
    Key = {k1, k2}
    Reader = {c1, c2}
    MaxMs = 1
    MaxSeq = 4
    Request <- Keys
    From <- Continue
    Input <- Wildcard
    Bound = {}
    Timeout = {0, 1}
    SetKey = {}
    PxKey = {}
    MaxAdds = 2
    MaxReads = 2
    MaxNow = 1
INVARIANTS
    NoHandleLeft
    SeenInOrder
    WokenWithData
PROPERTIES
    BlockedIsAnswered
CHECK_DEADLOCK FALSE
