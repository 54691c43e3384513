SPECIFICATION Spec
CONSTANTS
    MaxFrame = 8
    MaxList = 0
    Frame <- MCFrame
    Addr = {a1, a2, a3, a4}
    PageAllocFails = FALSE
    AtomicAllocFails = FALSE
SYMMETRY AddrSymmetry
VIEW RangeView
INVARIANTS TypeOK WellFormed Separated Exact ReportExact
