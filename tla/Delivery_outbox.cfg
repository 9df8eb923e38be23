SPECIFICATION Delivery_FairSpec
CONSTANTS
    a1 = a1
    a2 = a2
    Answers = {a1,a2}
    NoAnswer = NoAnswer
    PendingCap = 1
    RegistryCap = 2
    CacheCap = 2
    MaxReplays = 1
    MaxTroubles = 1
    MaxRescues = 1
INVARIANT DeliveredNotOwed
INVARIANT NeverLost
INVARIANT SentOnce
PROPERTY DebtEnds
CHECK_DEADLOCK FALSE
