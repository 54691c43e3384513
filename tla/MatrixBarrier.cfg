SPECIFICATION FairSpec
CONSTANTS
    MaxN = 5
    MaxThreads = 3
    BLOCK = 2
    CreateFails = TRUE
    Stale = Stale
INVARIANTS TypeOK SumsInOrder Complete
PROPERTIES Terminates
\* The program ends.
CHECK_DEADLOCK FALSE
