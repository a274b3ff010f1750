SPECIFICATION FairSpec
CONSTANTS
    w1 = w1
    w2 = w2
    g1 = g1
    g2 = g2
    k1 = k1
    k2 = k2
    k3 = k3
    a1 = a1
    b1 = b1
    c1 = c1
    NULL = NULL
    OK = OK
    Writers <- MCWriters
    Getters <- MCGetters
    Keys <- MCKeys
    ValuesOf <- MCValuesOf
    Home <- MCHomeOne
    Capacity = 1
    SizeModulus = 3
    MaxCalls = 3
INVARIANTS
    PutNeverCrashes
CHECK_DEADLOCK FALSE
