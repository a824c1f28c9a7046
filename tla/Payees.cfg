SPECIFICATION PaymentSpec
CONSTANTS
    None = None
    Context <- SigContext
    U32Max = 5
    Spkis = {"ka", "kb"}
    PeerIdOf <- IdOf
    SpkiLen <- LenOf
    SigLen = 6
    PEX_MAX_PAYMENT_ADDRESS_LEN = 2
    PEX_MAX_PAYMENT_SPKI_LEN = 8
    PEX_MAX_PAYMENT_SIG_LEN = 8
    Networks <- TwoNetworks
    Addresses <- Payees
    PeerIds <- Ids
    LooseTexts <- Undecodable
    MaxDesignations = 2
INVARIANTS
    PayeeIsDesignated
    IntactClaimPays
