CONSTANTS
    q1 = q1
    q2 = q2
    q3 = q3
    x1 = x1
    x2 = x2
    k1 = k1
    a = a
    b = b
    NoKey = NoKey
    None = None
    Requests <- MCRequests2
    Cancels <- MCNone
    Keys <- MCKeys
    Skus <- MCSkus2
    Prices <- MCFreePrices
    Baskets <- MCOddBaskets
    Patient = FALSE
    SameBasket = TRUE
    Faults = {"connection", "database", "crash", "payments_restart"}
    ErrorMeansNoRow = FALSE
    Limit <- MCLimit
    AlwaysDecline = FALSE
    Latency = TRUE
    EventLoop = FALSE
    Workers = 1
SPECIFICATION FairSpec
PROPERTIES
    CheckoutsEnd
