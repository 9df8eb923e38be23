SPECIFICATION Usage_Spec
CONSTANTS
    a1 = a1
    a2 = a2
    tree = tree
    other = other
    Attempts = {a1, a2}
    Sessions = {s1}
    Legacy = {l1}
    Undisclosed = Undisclosed
    Children = {a2}
    Bound <- MCBound
    Price <- MCPrice
    Roots = {tree, other}
    Root <- MCRoot
    Limit = 3
    RootLimit <- MCRootLimit
    MaxCharge = 1
    MaxOverrun = 1
    MaxFaults = 1
PROPERTIES
    HistoryKept
CHECK_DEADLOCK FALSE
