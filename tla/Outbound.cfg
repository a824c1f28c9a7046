SPECIFICATION Spec
CONSTANTS
    None = None
    PEX_MIN_INTERVAL = 30
    PEX_MAX_INTERVAL = 3600
    PEX_ARRIVAL_GRACE = 5
    JitterSamples = {0}
    LocalPeerId = 0
    Peers = {1, 2, 3, 4}
    Contents <- AllContents
    WellFormed <- GoodContents
    Fingerprint <- Prints
    EncodedSize <- Sizes
    PEX_MAX_ENTRY_AGE = 40
    Partners = {1, 2}
    Interval = 30
    NetworkId = "main"
    PEX_VERSION = 1
    PEX_VIOLATION_LIMIT = 1
    PEX_MAX_RECEIVED_PER_LINK = 4
    PEX_MAX_HINTS = 4
    Inbox <- SlowPartner
    MaxStrikes = 0
    PEX_MAX_SNAPSHOT = 2
    PEX_MAX_ADDED = 1
    PEX_MAX_DROPPED = 1
    FirstHand <- Gossip
    MaxEpoch = 3
    PEX_MAX_FRAME = 100
    EnvelopeSize = 10
    Speaking = {1, 2}
    Reported = {}
    ClockSteps = {30000}
    MaxTime = 60000
    RepeatLinkUp = FALSE
INVARIANTS
    CacheCoherent
    SentWithinCaps
PROPERTIES
    DeltasAreHonest
    ToldIsSent
    SendsAreSpaced
