SPECIFICATION NetSpec
CONSTANTS
    None = None
    PEX_MIN_INTERVAL = 4
    PEX_MAX_INTERVAL = 8
    PEX_ARRIVAL_GRACE = 2
    JitterSamples = {0}
    LocalPeerId = 0
    Peers = {1, 2, 3}
    Contents <- AllContents
    WellFormed <- GoodContents
    Fingerprint <- Prints
    EncodedSize <- Sizes
    PEX_MAX_ENTRY_AGE = 6
    Partners = {1}
    Interval = 4
    NetworkId = "main"
    PEX_VERSION = 1
    PEX_VIOLATION_LIMIT = 2
    PEX_MAX_RECEIVED_PER_LINK = 4
    PEX_MAX_HINTS = 4
    Inbox = {}
    MaxStrikes = 0
    PEX_MAX_SNAPSHOT = 2
    PEX_MAX_ADDED = 3
    PEX_MAX_DROPPED = 1
    FirstHand <- News
    MaxEpoch = 2
    PEX_MAX_FRAME = 200
    EnvelopeSize = 10
    Speaking = {}
    Reported = {}
    ClockSteps = {1000}
    MaxTime = 8000
    RepeatLinkUp = FALSE
    FarId = 1
    FarInterval = 4
    MaxDelay = 1000
    ClockLeads = {0, 1000}
    MaxConns = 2
INVARIANTS
    NeverStruck
    ToldIsHeard
    HeardIsTold
    StartsFresh
VIEW NoOutputs
