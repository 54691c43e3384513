SPECIFICATION Spec
CONSTANTS
    MaxFrame = 4
    Frame <- MCFrame
    ZeroFrame <- MCZeroFrame
    Thread = {t1, t2, t3}
    VPage = {v1, v2, v3}
    Addr = {a1, a2, a3}
    NoThread = NoThread
    ReadFaults = FALSE
    Forks = FALSE
    Unhooked = FALSE
    PageAllocFails = FALSE
    AtomicAllocFails = FALSE
VIEW ListlessView
SYMMETRY Symmetry
INVARIANTS TypeOK FreeUntracked PhysicalPagesReported
PROPERTIES UsesTable
