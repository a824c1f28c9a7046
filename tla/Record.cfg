SPECIFICATION RecordSpec
CONSTANTS
    None = None
    Context <- NoContext
    U32Max = 9
    Spkis = {"ka"}
    PeerIdOf <- KeyIds
    SpkiLen <- KeyLen
    SigLen = 3
    PEX_MAX_PAYMENT_ADDRESS_LEN = 2
    PEX_MAX_PAYMENT_SPKI_LEN = 8
    PEX_MAX_PAYMENT_SIG_LEN = 8
    HexIds = {"id"}
    PEX_MAX_ADDRESSES = 1
    PEX_MAX_FLAGS = 1
    PEX_MAX_FLAG_LEN = 3
    PEX_MAX_ENTRY_AGE = 10
    Ids = {"id", "bad"}
    Networks <- TwoNetworks
    Seen = {10}
    Vias = {"direct", "unknown"}
    AddressChoices <- SomeAddresses
    FlagChoices <- SomeFlags
    ClaimChoices <- SomeClaims
    PortText <- PortDigits
    KindText <- KindNames
    PartText <- PartNames
    Contexts <- Receivers
    MaxParts = 2
INVARIANTS
    ToldMeansSameContent
    TwoVerdicts
    VerdictFactors
    FingerprintsAgree
