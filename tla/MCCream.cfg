SPECIFICATION FairSpec
CONSTANTS
    w1 = w1
    w2 = w2
    m = m
    k1 = k1
    k2 = k2
    NULL = NULL
    OK = OK
    Workers <- MCWorkers
    Main = m
    MaxConns = 3
    FDs <- MCFDs
    Requests <- MCRequests
    Arrivals <- MCArrivals
    Keys <- MCKeys
    ZeroKey = k2
    Home <- MCHome
    Capacity = 1
    SizeModulus = 3
INVARIANTS
    TypeOK
    OneOwner
    AnswerFits
    BuffersAreOwned
    BodyIsAllocated
PROPERTIES
    ConnectionsAreClosed
\* the server waits for connections, has lost its workers or is gone
CHECK_DEADLOCK FALSE
