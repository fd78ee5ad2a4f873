CONSTANTS
    w1 = w1
    Clients <- MCClients
    Skus <- MCSkus
    Seed <- MCSeed
    Limits <- MCLimits
    MaxLimit <- MCMaxLimit
    MayFail = TRUE
SPECIFICATION FairSpec
INVARIANTS
    CTypeOK
    NothingTwice
    NothingMissed
PROPERTIES
    WalksEnd
