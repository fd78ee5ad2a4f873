CONSTANTS
    q1 = q1
    q2 = q2
    q3 = q3
    x1 = x1
    x2 = x2
    k1 = k1
    a = a
    b = b
    NoKey = NoKey
    None = None
    Requests <- MCRequests2
    Cancels <- MCCancels
    Keys <- MCKeys
    Skus <- MCSkus
    Prices <- MCFreePrices
    Baskets <- MCTwoBaskets
    Patient = FALSE
    SameBasket = FALSE
    Faults = {"connection", "database", "lost_commit", "crash", "reprice"}
    ErrorMeansNoRow = FALSE
    Limit <- MCLimit
    AlwaysDecline = FALSE
    Latency = FALSE
    EventLoop = TRUE
    Workers = 2
SPECIFICATION Spec
SYMMETRY MCSymmetry
INVARIANTS
    ChargedOncePerKey
    DeclinesAreFinal
    TableKnowsPayments
PROPERTIES
    AnswersAreStable
    LaterCancelsAreRefused
    CommittedIsForever
    BookSpec
