SPECIFICATION Spec
CONSTANTS
    Texts <- MCTexts
    ArgLists <- MCArgLists
    Garbage <- MCGarbage
INVARIANTS
    Utf8IsKept
    Utf16IsKept
    UnitsAreTurned
\* the program ends
CHECK_DEADLOCK FALSE
