\* The fair class: three threads of two weights, every call but those that
\* change class or priority; the parent may be made to run after the child.
SPECIFICATION Spec
CONSTANTS
    t1 = t1
    t2 = t2
    t3 = t3
    Thread = {t1, t2, t3}
    Idle = Idle
    NULL = NULL
    NoLoad = {}
    Nice <- MCNice
    PrioToWeight <- MCPrioToWeight
    NICE_0_WEIGHT = 2
    IDLEPRIO_WEIGHT = 1
    Pri = {2}
    NORMAL_PRI = 2
    IdleThreadPri = 4
    RQ_PPQ = 1
    PreemptThresh = 1
    SchedLatency = 2
    MinGranularity = 1
    WakeupGranularity = 1
    GentleSleeper = FALSE
    StartDebit = TRUE
    ChildRunsFirst = TRUE
    SchedLast = TRUE
    SchedSlice = 2
    SchedSliceMin = 1
    Modulus = 0
    ExecCap = 4
    TickPeriod = 1
    Honoured = FALSE
    MaxTime = 2
    Calls = {"fork", "sleep", "exit", "relinquish", "nice"}
SYMMETRY MCSymmetry
INVARIANTS
    TypeOK
    QueueInv
    LoadInv
PROPERTIES
    VtimeNeverOvertakes
    VruntimeNeverDecreases
    PickIsFair
