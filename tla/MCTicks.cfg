\* Two callers of the timer; two loads; a history of three seconds of two
\* ticks, in which nobody sleeps for half of the range of the counter.
SPECIFICATION TicksSpec
CONSTANTS
    Caller = {c1, c2}
    Period = 2
    Garbage <- MCGarbage
    Late = 5
    CanCancel = TRUE
    NULL = NULL
    Load = {0, 24}
    Count = {1}
    hz = 2
    SCHED_TICK_SECS = 3
    SCHED_TICK_SHIFT = 1
    FSCALE = 8
    TickRange = 34
    StatGap = 2
    MaxSleep = 7
INVARIANTS
    NeverLost
    DecayAgrees
    HistoryHolds
PROPERTIES
    FiresAgain
    Settles
    Decays
