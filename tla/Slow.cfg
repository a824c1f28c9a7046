SPECIFICATION NetSpec
CONSTANTS
    None = None
    PEX_MIN_INTERVAL = 6
    PEX_MAX_INTERVAL = 24
    PEX_ARRIVAL_GRACE = 1
    JitterSamples = {0}
    LocalPeerId = 0
    Peers = {1, 2, 3}
    Contents <- AllContents
    WellFormed <- GoodContents
    Fingerprint <- Prints
    EncodedSize <- Sizes
    PEX_MAX_ENTRY_AGE = 100
    Partners = {1}
    Interval = 6
    NetworkId = "main"
    PEX_VERSION = 1
    PEX_VIOLATION_LIMIT = 2
    PEX_MAX_RECEIVED_PER_LINK = 4
    PEX_MAX_HINTS = 4
    Inbox = {}
    MaxStrikes = 0
    PEX_MAX_SNAPSHOT = 2
    PEX_MAX_ADDED = 3
    PEX_MAX_DROPPED = 3
    FirstHand <- OneNews
    MaxEpoch = 4
    PEX_MAX_FRAME = 200
    EnvelopeSize = 10
    Speaking = {}
    Reported = {}
    ClockSteps = {2000}
    MaxTime = 24000
    RepeatLinkUp = FALSE
    FarId = 1
    FarInterval = 6
    MaxDelay = 2000
    ClockLeads = {0}
    MaxConns = 1
INVARIANTS
    StruckOnce
VIEW NoOutputs
