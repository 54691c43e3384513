SPECIFICATION FairSpec
CONSTANTS
    num_counters = 2
    iterations = 2
    work_length = 2
    MaxThreads = 3
    THREADS_PER_COUNTER = 1
    Garbage = {0, 5}
INVARIANTS TypeOK NothingLost ExpectedIsGained UsedBeforeFreed
PROPERTIES ImplementsMutex Terminates
CHECK_DEADLOCK FALSE
