CONSTANTS
    o1 = o1
    o2 = o2
    x1 = x1
    h1 = h1
    Checkouts <- MCCheckouts
    Locals <- MCLocals
    Probes <- MCProbes
    Threads = 2
    Connections = 1
    MaxOutages = 2
SPECIFICATION FairSpec
INVARIANTS
    KTypeOK
    CallsHoldNoConnection
PROPERTIES
    PoolRefills
    ServedWhileThreadsLast
    RecoversByItself
