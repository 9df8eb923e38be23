SPECIFICATION Spec
CONSTANTS
    MaxTx = 2
    MaxCamp = 2
    MaxSha = 1
    MaxGen = 2
    MaxReq = 0
    RepeatCap = 3
    w1 = w1
    w2 = w2
    Workers = {w1, w2}
    Owner = 2
    Panics = 0
    Crashes = 1
    Reaps = 1
    Others = 0
    Stales = 0
    FailCap = 1
    LockMayFail = TRUE
    BootMayReset = FALSE
    EnvMayRefuse = FALSE
SYMMETRY Sym
INVARIANT OneExecution
INVARIANT ReceiptSurvives
CHECK_DEADLOCK FALSE
