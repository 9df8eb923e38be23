SPECIFICATION Usage_FairSpec
CONSTANTS
    a1 = a1
    a2 = a2
    tree = tree
    other = other
    Attempts = {a1, a2}
    Sessions = {s1}
    Legacy = {l1, l2, l3}
    Undisclosed = Undisclosed
    Children = {a2}
    Bound <- MCBound
    Price <- MCPrice
    Roots = {tree, other}
    Root <- MCRoot
    Limit = 3
    RootLimit <- MCRootLimit
    MaxCharge = 1
    MaxOverrun = 1
    MaxFaults = 1
CHECK_DEADLOCK FALSE
INVARIANTS
    ChargeCovered
    SpendWithinLimits
    AcknowledgedKept
PROPERTIES
    HoldsEnd
