CONSTANTS
    c1 = c1
    c2 = c2
    c3 = c3
    k1 = k1
    k2 = k2
    NoKey = NoKey
    Nobody = Nobody
    Calls <- MCCalls
    Keys <- MCKeys
    Amounts <- MCAmounts
    Limit <- MCLimit
    AlwaysDecline = FALSE
    Latency = FALSE
    EventLoop = FALSE
    Workers = 2
    MayRestart = FALSE
    MayHangUp = FALSE
SPECIFICATION PSpec
INVARIANTS
    ChargedOncePerKey
