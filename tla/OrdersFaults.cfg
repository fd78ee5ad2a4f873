CONSTANTS
    q1 = q1
    q2 = q2
    q3 = q3
    x1 = x1
    x2 = x2
    k1 = k1
    a = a
    b = b
    NoKey = NoKey
    None = None
    Requests <- MCRequests3
    Cancels <- MCNone
    Keys <- MCKeys
    Skus <- MCSkus2
    Prices <- MCPrices
    Baskets <- MCOneOrTwo
    Patient = FALSE
    SameBasket = TRUE
    Faults = {"catalog", "connection", "database", "lost_commit", "crash", "payments_restart"}
    ErrorMeansNoRow = FALSE
    Limit <- MCTwoLimit
    AlwaysDecline = FALSE
    Latency = TRUE
    EventLoop = FALSE
    Workers = 2
SPECIFICATION Spec
SYMMETRY MCSymmetry
INVARIANTS
    TypeOK
    KeyRowsMatchOrders
    OrdersArePaid
    ConfirmationsAreTrue
    RejectionsAreFree
    LateRetriesAreFree
    PaymentsMatchTotals
PROPERTIES
    FailuresLeaveNoOrder
    BookSpec
