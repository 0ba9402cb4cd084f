SPECIFICATION Spec
CONSTANTS
    Conn = {c1, c2}
    Server = Server
    None = None
    Kind = {"plain", "throws", "blocks", "waits"}
    MaxFd = 2
    Garbage = {"out"}
    Capacity = 1
    MaxSends = 2
SYMMETRY Symmetry
INVARIANTS
    DescriptorsInStep
    PendingIsPolled
    LeftUnparsed
PROPERTIES
    SessionKept
    FdsFixedInDispatch
CHECK_DEADLOCK FALSE
