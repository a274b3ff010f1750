SPECIFICATION FairSpec
CONSTANTS
    Lines <- MCLines
    MaxStages = 3
    Units = 2
    Cap = 1
INVARIANTS
    TypeOK
    WriteEndsAreHeld
    WritersAreReaders
    LastIsWaitedFor
PROPERTIES
    JobEnds
    StagesEnd
\* the job ends, or is held up for ever
CHECK_DEADLOCK FALSE
