SPECIFICATION FairSpec
CONSTANTS
    Conn = {c1, c2}
    Server = Server
    None = None
    Kind = {"plain", "throws"}
    MaxFd = 1
    Garbage = {"out"}
    Capacity = 1
    MaxSends = 2
PROPERTIES
    EveryCommandRuns
    EveryReplyArrives
CHECK_DEADLOCK FALSE
