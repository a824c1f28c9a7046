SPECIFICATION Spec
CONSTANTS
    None = None
    PEX_MIN_INTERVAL = 30
    PEX_MAX_INTERVAL = 100
    PEX_ARRIVAL_GRACE = 5
    JitterSamples = {0}
    LocalPeerId = 0
    Peers = {1, 2, 3, 4}
    Contents <- AllContents
    WellFormed <- GoodContents
    Fingerprint <- Prints
    EncodedSize <- Sizes
    PEX_MAX_ENTRY_AGE = 60
    Partners = {1}
    Interval = 30
    NetworkId = "main"
    PEX_VERSION = 1
    PEX_VIOLATION_LIMIT = 2
    PEX_MAX_RECEIVED_PER_LINK = 4
    PEX_MAX_HINTS = 4
    Inbox <- Errors
    MaxStrikes = 3
    PEX_MAX_SNAPSHOT = 2
    PEX_MAX_ADDED = 3
    PEX_MAX_DROPPED = 3
    FirstHand <- Toggle
    MaxEpoch = 2
    PEX_MAX_FRAME = 200
    EnvelopeSize = 10
    Speaking = {1}
    Reported = {}
    ClockSteps = {15000}
    MaxTime = 105000
    RepeatLinkUp = FALSE
PROPERTIES
    BackoffDoublesEffective
