SPECIFICATION MCSpec
CONSTANTS
    MaxFrame = 3
    MaxList = 4
    Frame <- MCFrame
    Addr = {a1, a2, a3}
    PageAllocFails = FALSE
    AtomicAllocFails = FALSE
INVARIANT NoLeak
