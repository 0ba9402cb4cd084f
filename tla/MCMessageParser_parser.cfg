SPECIFICATION Spec
CONSTANTS
    Stream <- Streams
    Sizes = 64
    MaxItems = 3
INVARIANTS
    Faithful
    NothingWithheld
    BytesCounted
CHECK_DEADLOCK FALSE
