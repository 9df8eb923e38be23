SPECIFICATION Tasks_FairSpec
CONSTANTS
    root = root
    sub = sub
    rerun = rerun
    Tasks = {root, rerun}
    NoTask = NoTask
    Slots = {w1, w2}
    NoSlot = NoSlot
    Main = Main
    Clients = {}
    Subagents = {}
    Parent <- MCParent
    Root <- MCRoot
    Retry <- MCRetry
    MaxRequests = 1
    MaxDeaths = 1
    MaxTimeouts = 1
    MaxFaults = 1
    MaxCrashes = 1
    MaxReplays = 3
    MaxTroubles = 2
INVARIANTS
    TaskTypeOK
    NoTwoExecutions
    NoTaskLost
PROPERTIES
    RespawnReplacesDead
    IntentOutlivesTask
    IntentSettles
    SlotComesBack
CHECK_DEADLOCK FALSE
