\* Two threads that move between all classes and priorities; one of them is not counted
\* in the system load.
SPECIFICATION Spec
CONSTANTS
    t1 = t1
    t2 = t2
    Thread = {t1, t2}
    Idle = Idle
    NULL = NULL
    NoLoad = {t2}
    Nice <- MCOneNice
    PrioToWeight <- MCOneWeight
    NICE_0_WEIGHT = 2
    IDLEPRIO_WEIGHT = 1
    Pri = {1, 2, 3}
    NORMAL_PRI = 2
    IdleThreadPri = 4
    RQ_PPQ = 1
    PreemptThresh = 1
    SchedLatency = 2
    MinGranularity = 1
    WakeupGranularity = 1
    GentleSleeper = FALSE
    StartDebit = TRUE
    ChildRunsFirst = FALSE
    SchedLast = TRUE
    SchedSlice = 2
    SchedSliceMin = 1
    Modulus = 0
    ExecCap = 3
    TickPeriod = 1
    Honoured = FALSE
    MaxTime = 1
    Calls = {"fork", "exit", "sleep", "relinquish", "class", "priority"}
INVARIANTS
    KassertsHold
    RealtimeSorted
    LoadInv
PROPERTIES
    SwitchPicksBest
    PreemptionRequested
