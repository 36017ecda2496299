\* Three threads and two locks, larger numbers being less important; a list of
\* up to four threads of three priorities.
SPECIFICATION PrioritiesSpec
CONSTANTS
    Thread = {t1, t2, t3}
    NULL = NULL
    MaxLock = 2
    NORMAL_PRI = 4
    PRI_MAX = 5
    SleepPri = {1}
    UserPri = {1, 5}
    prio_boost = 3
    Listed = {t1, t2, t3, t4}
    Pri = {1, 2, 3}
SYMMETRY MCSymmetry
INVARIANTS
    NoInversion
    BorrowersHaveLenders
    ListInv
PROPERTIES
    ImplementsQueue
