SPECIFICATION FairSpec
CONSTANTS
    w1 = w1
    w2 = w2
    g1 = g1
    g2 = g2
    k1 = k1
    k2 = k2
    k3 = k3
    a1 = a1
    b1 = b1
    c1 = c1
    NULL = NULL
    OK = OK
    Writers <- MCWriters
    Getters <- MCGetters
    Keys <- MCKeys
    ValuesOf <- MCValuesOf
    Home <- MCHome
    Capacity = 2
    SizeModulus = 4
    MaxCalls = 3
INVARIANTS
    ReadersCounted
    QuietGet
PROPERTIES
    WritersAreAtomic
    WritersFinish
\* the calls are over, or a fault ended the program
CHECK_DEADLOCK FALSE
