\* Unbounded time: vruntime wraps around, preemptions are taken in time.
SPECIFICATION Spec
CONSTANTS
    t1 = t1
    t2 = t2
    t3 = t3
    Thread = {t1, t2, t3}
    Idle = Idle
    NULL = NULL
    NoLoad = {}
    Nice <- MCOneNice
    PrioToWeight <- MCOneWeight
    NICE_0_WEIGHT = 2
    IDLEPRIO_WEIGHT = 1
    Pri = {2}
    NORMAL_PRI = 2
    IdleThreadPri = 4
    RQ_PPQ = 1
    PreemptThresh = 1
    SchedLatency = 2
    MinGranularity = 1
    WakeupGranularity = 1
    GentleSleeper = FALSE
    StartDebit = TRUE
    ChildRunsFirst = FALSE
    SchedLast = TRUE
    SchedSlice = 2
    SchedSliceMin = 1
    Modulus = 32
    ExecCap = 4
    TickPeriod = 1
    Honoured = TRUE
    MaxTime = 2
    Calls = {"fork", "kthread", "exit", "sleep", "relinquish"}
SYMMETRY MCSymmetry
INVARIANTS
    FairnessBound
    TimelineSorted
