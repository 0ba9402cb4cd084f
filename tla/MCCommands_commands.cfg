SPECIFICATION Spec
CONSTANTS
    Received <- Messages
    Sent <- EverySent
    Text <- AnyText
    Sizes = 16
INVARIANTS
    SetGrammar
    XReadGrammar
    RoundTrip
    WithinMessage
CHECK_DEADLOCK FALSE
