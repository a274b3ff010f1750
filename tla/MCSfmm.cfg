SPECIFICATION Spec
CONSTANTS
    PageWords = 10
    MaxPages = 3
    ListMax <- MCListMax
    Sizes <- MCSizes
    MaxCalls = 6
    Fills <- MCFills
INVARIANTS
    TypeOK
    HeapIsTiled
    ListsAreFree
    PayloadKept
    ClientsGoOn
\* every invariant holds of a state with a slip, and a slip stays
CONSTRAINT NoSlip
\* the calls are over, or the program
CHECK_DEADLOCK FALSE
