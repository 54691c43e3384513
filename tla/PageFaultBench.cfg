SPECIFICATION BenchSpec
CONSTANTS
    num_threads = 2
    num_pages = 2
    MaxFrame = 5
    Frame <- MCFrame
    ZeroFrame <- MCZeroFrame
    Thread <- MCThread
    VPage <- MCVPage
    Heap <- MCHeap
    Addr = {a1, a2, a3}
    NoThread = NoThread
    ReadFaults = FALSE
    Forks = FALSE
    Unhooked = FALSE
    PageAllocFails = FALSE
    AtomicAllocFails = FALSE
VIEW ListlessView
INVARIANTS GroupLeavesNothing TestIsReported
