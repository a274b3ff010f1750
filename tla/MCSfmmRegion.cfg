SPECIFICATION Spec
CONSTANTS
    PageWords = 10
    MaxPages = 3
    ListMax <- MCListMax
    Sizes <- MCSizes
    MaxCalls = 6
    Fills <- MCFills
INVARIANTS
    RegionIsValid
CHECK_DEADLOCK FALSE
