SPECIFICATION FairSpec
CONSTANTS
    Thread = {t1, t2, t3, t4}
    MaxTicket = 3
INVARIANTS TypeOK MutualExclusion
PROPERTIES ImplementsMutex ServesInOrder NoStarvation
