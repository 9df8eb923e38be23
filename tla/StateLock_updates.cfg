SPECIFICATION Lock_Spec
CONSTANTS
    Procs = {p1, p2, p3}
    NoProc = NoProc
    MaxUpdates = 3
    MaxCrashes = 2
    MaxStalls = 1
    MaxFaults = 1
SYMMETRY Symmetric
INVARIANTS
    OneAtATime
    NoLostUpdate
CHECK_DEADLOCK FALSE
