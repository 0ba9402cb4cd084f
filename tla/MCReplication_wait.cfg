SPECIFICATION Spec
CONSTANTS
    Replica = {r1, r2}
    Client = {c1}
    Key = {k1}
    Hole = {"none"}
    WaitId = {w1, w2}
    Count = {1, 2}
    SetSize = 3
    GetAckSize = 2
    IntMax = 7
    MaxSets = 2
INVARIANTS
    TypeOK
    WaitSound
    NoAckLost
    OffsetsAgree
    AckedWasProcessed
    ReplicaConverges
    HandshakeInStep
PROPERTIES
    KeepsPromise
SYMMETRY Symmetry
CHECK_DEADLOCK FALSE
