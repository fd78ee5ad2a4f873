CONSTANTS
    q1 = q1
    q2 = q2
    q3 = q3
    x1 = x1
    x2 = x2
    a = a
    b = b
    z = z
    None = None
    Checkouts <- MCCheckouts
    Cancels <- MCCancels
    Products <- MCProducts
    Price <- MCPrice
    Seed <- MCSeed
    Baskets <- MCTwoBaskets
    Limit <- MCLimit
    AlwaysDecline = FALSE
    ReadInTx = FALSE
    MayBusy = FALSE
    MayCrash = FALSE
    ResetDb = FALSE
SPECIFICATION Spec
SYMMETRY MCSymmetry
INVARIANTS
    StockIsConserved
