CONSTANTS
    c1 = c1
    c2 = c2
    c3 = c3
    k1 = k1
    k2 = k2
    NoKey = NoKey
    Nobody = Nobody
    Calls <- MCCalls
    Keys <- MCKeys2
    Amounts <- MCTwoAmounts
    Limit <- MCLimit
    AlwaysDecline = FALSE
    Latency = TRUE
    EventLoop = FALSE
    Workers = 2
    MayRestart = FALSE
    MayHangUp = TRUE
SPECIFICATION FairPSpec
INVARIANTS
    PTypeOK
    ApprovalsAreReal
    ChargesBoundedByWorkers
PROPERTIES
    CallsAreAnswered
