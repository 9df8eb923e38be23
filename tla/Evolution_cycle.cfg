SPECIFICATION Spec
CONSTANTS
    MaxTx = 2
    MaxCamp = 2
    MaxSha = 1
    MaxGen = 2
    MaxReq = 2
    RepeatCap = 3
    w1 = w1
    Workers = {w1}
    Owner = 2
    Panics = 0
    Crashes = 0
    Reaps = 1
    Others = 2
    Stales = 0
    FailCap = 3
    LockMayFail = FALSE
    BootMayReset = FALSE
    EnvMayRefuse = FALSE
INVARIANT StopLeavesNoWorker
PROPERTY StopFreezesCampaign
PROPERTY OneCyclePerPromotion
CHECK_DEADLOCK FALSE
