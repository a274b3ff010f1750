SPECIFICATION FairSpec
CONSTANTS
    MaxJobs = 3
INVARIANTS
    TypeOK
    RunningAreListed
    WaitsForTheGoing
    FreedIfEnded
PROPERTIES
    WaitEnds
\* fg of a job that is gone waits for ever, and the shell may exit or crash
CHECK_DEADLOCK FALSE
