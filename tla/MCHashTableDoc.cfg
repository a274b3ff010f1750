SPECIFICATION Spec
CONSTANTS
    t1 = t1
    k1 = k1
    k2 = k2
    k3 = k3
    k4 = k4
    a1 = a1
    b1 = b1
    b2 = b2
    c1 = c1
    d1 = d1
    NULL = NULL
    OK = OK
    Threads <- MCThreads
    Keys <- MCKeys
    ValuesOf <- MCValuesOf
    Home <- MCHome
    Capacity = 3
    SizeModulus = 5
PROPERTIES
    DeleteRemoves
CHECK_DEADLOCK FALSE
