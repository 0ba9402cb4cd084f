SPECIFICATION FairSpec
CONSTANTS
    Replica = {r1}
    Client = {c1}
    Key = {k1}
    Hole = {"none", "inside", "last"}
    WaitId = {w1, w2}
    Count = {1, 2}
    SetSize = 3
    GetAckSize = 2
    IntMax = 7
    MaxSets = 2
PROPERTIES
    EveryWaitAnswered
    WritesArrive
    GoalsAreReached
CHECK_DEADLOCK FALSE
