SPECIFICATION Spec
CONSTANTS
    MaxTx = 2
    MaxCamp = 2
    MaxSha = 1
    MaxGen = 3
    MaxReq = 1
    RepeatCap = 3
    w1 = w1
    Workers = {w1}
    Owner = 0
    Panics = 1
    Crashes = 1
    Reaps = 0
    Others = 1
    Stales = 1
    FailCap = 3
    LockMayFail = FALSE
    BootMayReset = TRUE
    EnvMayRefuse = TRUE
INVARIANT AbsorbedCountExact
 
PROPERTY ImplementsCycle
PROPERTY AbsorbedOnlyAfterRestart
PROPERTY AbandonedOnlyIfLost
PROPERTY CommittedNotSuperseded
CHECK_DEADLOCK FALSE
