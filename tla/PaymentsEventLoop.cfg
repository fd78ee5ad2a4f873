CONSTANTS
    c1 = c1
    c2 = c2
    c3 = c3
    k1 = k1
    k2 = k2
    NoKey = NoKey
    Nobody = Nobody
    Calls <- MCCalls
    Keys <- MCKeys2
    Amounts <- MCAmounts
    Limit <- MCLimit
    AlwaysDecline = FALSE
    Latency = TRUE
    EventLoop = TRUE
    Workers = 3
    MayRestart = TRUE
    MayHangUp = TRUE
SPECIFICATION PSpec
SYMMETRY MCSymmetry
INVARIANTS
    ApprovalsAreReal
    LedgerIsWithinLimit
