SPECIFICATION Spec
CONSTANTS
    MaxFrame = 3
    Frame <- MCFrame
    ZeroFrame <- MCZeroFrame
    Thread = {t1, t2}
    VPage = {v1, v2}
    Addr = {a1, a2, a3}
    NoThread = NoThread
    ReadFaults = FALSE
    Forks = TRUE
    Unhooked = FALSE
    PageAllocFails = FALSE
    AtomicAllocFails = FALSE
VIEW ListlessView
INVARIANT NothingMappedNothingTracked
