\* A group inside a group, two threads; all calls.
SPECIFICATION Spec
CONSTANTS
    t1 = t1
    t2 = t2
    g1 = g1
    g2 = g2
    Thread = {t1, t2}
    Group = {g1, g2}
    Root = Root
    Parent <- MCNested
    Idle = Idle
    NULL = NULL
    NICE_0_WEIGHT = 2
    MIN_SHARES = 1
    MAX_SHARES = 4
    InitShares <- MCShares
    SharesArg = {1}
    SchedLatency = 2
    MinGranularity = 1
    WakeupGranularity = 1
    Calls = {"fork", "exit", "sleep", "yield", "move", "shares"}
    ExecCap = 2
    MaxTime = 1
SYMMETRY MCSymmetry
INVARIANTS
    HierarchyInv
    NoIdleWithWork
PROPERTIES
    VtimeNeverOvertakes
