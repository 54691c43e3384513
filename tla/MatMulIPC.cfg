SPECIFICATION FairSpec
CONSTANTS
    m = 4
    Parts = 3
    PipeSlots = 3
    ForkFails = TRUE
    MaxKills = 2
INVARIANTS TypeOK SemaphoreIsKept RowsAreContiguous
PROPERTIES ImplementsRowFarm EverybodyFinishes
CHECK_DEADLOCK FALSE
