SPECIFICATION Spec
CONSTANTS
    MaxFrame = 3
    Frame <- MCFrame
    ZeroFrame <- MCZeroFrame
    Thread = {t1}
    VPage = {v1, v2}
    Addr = {a1, a2, a3}
    NoThread = NoThread
    ReadFaults = TRUE
    Forks = TRUE
    Unhooked = TRUE
    PageAllocFails = TRUE
    AtomicAllocFails = TRUE
VIEW ListlessView
SYMMETRY Symmetry
INVARIANTS TreeIsFound ExtentsConsistent
PROPERTIES DamageStaysLocal
