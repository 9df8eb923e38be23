SPECIFICATION Tasks_Spec
CONSTANTS
    root = root
    sub = sub
    rerun = rerun
    Tasks = {root, sub}
    NoTask = NoTask
    Slots = {w1}
    NoSlot = NoSlot
    Main = Main
    Clients = {c1}
    Subagents = {sub}
    Parent <- MCParent
    Root <- MCRoot
    Retry <- MCRetry
    MaxRequests = 1
    MaxDeaths = 1
    MaxTimeouts = 1
    MaxFaults = 1
    MaxCrashes = 0
    MaxReplays = 1
    MaxTroubles = 1
INVARIANTS
    SlotHasOneOwner
    NoTaskLost
    CancelledIsStopped
PROPERTIES
    RespawnReplacesDead
    CascadeClosesDeadTree
    CompletionWins
CHECK_DEADLOCK FALSE
