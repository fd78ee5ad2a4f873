CONSTANTS
    q1 = q1
    q2 = q2
    q3 = q3
    x1 = x1
    x2 = x2
    k1 = k1
    a = a
    b = b
    NoKey = NoKey
    None = None
    Requests <- MCRequests2
    Cancels <- MCNone
    Keys <- MCKeys
    Skus <- MCSkus
    Prices <- MCPrices
    Baskets <- MCOneBasket
    Patient = FALSE
    SameBasket = TRUE
    Faults = {}
    ErrorMeansNoRow = FALSE
    Limit <- MCLimit
    AlwaysDecline = FALSE
    Latency = FALSE
    EventLoop = FALSE
    Workers = 3
SPECIFICATION Spec
SYMMETRY MCSymmetry
PROPERTIES
    SeenKeysAreReplayed
