SPECIFICATION Lock_Spec
CONSTANTS
    Procs = {p1, p2, p3}
    NoProc = NoProc
    MaxUpdates = 3
    MaxCrashes = 1
    MaxStalls = 0
    MaxFaults = 0
SYMMETRY Symmetric
INVARIANTS
    ConcurrentUpdatesKept
CHECK_DEADLOCK FALSE
