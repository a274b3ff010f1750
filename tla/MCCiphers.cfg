SPECIFICATION Spec
CONSTANTS
    Calls <- MCCalls
    polybius_alphabet <- MCPolybius
    fm_alphabet <- MCLetters
    morse_table <- MCMorse
INVARIANTS
    PolybiusIsKept
    MorseIsKept
\* the program ends
CHECK_DEADLOCK FALSE
