SPECIFICATION Spec
CONSTANTS
    k1 = k1
    k2 = k2
    Key = {k1, k2}
    Reader = {c1, c2}
    MaxMs = 1
    MaxSeq = 4
    Request <- Twice
    From <- Anywhere
    Input <- Wildcard
    Bound = {}
    Timeout = {1}
    SetKey = {k2}
    PxKey = {}
    MaxAdds = 2
    MaxReads = 2
    MaxNow = 1
SYMMETRY Symmetry
INVARIANTS
    NoWakeupLost
PROPERTIES
    AnswersMatch
CHECK_DEADLOCK FALSE
