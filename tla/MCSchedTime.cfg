\* Two CPUs that read each other's time at every interleaving.
SPECIFICATION FairSpec
CONSTANTS
    c1 = c1
    c2 = c2
    Cpu = {c1, c2}
    tick_ns = 2
    Delta <- MCDelta
    MaxUptime = 2
INVARIANTS
    WithinATick
PROPERTIES
    TimeNeverGoesBack
    CpuSeesTimeAdvance
    ReadingsOrdered
    CallsReturn
