SPECIFICATION WireSpec
CONSTANTS
    Base = 3
    PrefixLen = 2
    PEX_MAX_FRAME = 3
    Messages = {"delta", "error"}
    Json <- JsonOf
    Foreign <- OtherBodies
    MaxSends = 3
CHECK_DEADLOCK FALSE
INVARIANTS
    OversizeUntouched
PROPERTIES
    ImplementsPipe
    FramesAreRead
