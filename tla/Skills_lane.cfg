SPECIFICATION FairSpec
CONSTANTS
    Jobs = {1, 2}
    Skills = {s1}
    Workers = {w1}
    Server = server
    Nobody = Nobody
    MaxAttempts = 2
    MaxTroubles = 1
CHECK_DEADLOCK FALSE
INVARIANTS
    KeyHeldOnce
    SurfaceOwed
PROPERTY EveryRequestSettles
