SPECIFICATION FairSpec
CONSTANTS
    MaxTx = 1
    MaxCamp = 2
    MaxSha = 2
    MaxGen = 3
    MaxReq = 0
    RepeatCap = 3
    w1 = w1
    Workers = {w1}
    Owner = 2
    Panics = 0
    Crashes = 0
    Reaps = 1
    Others = 0
    Stales = 0
    FailCap = 3
    LockMayFail = FALSE
    BootMayReset = FALSE
    EnvMayRefuse = FALSE
PROPERTY CommittedCycleLands
PROPERTY OwnerStopCloses
PROPERTY ReapedCycleResolves
CHECK_DEADLOCK FALSE
