\* Two callers of all handlers, three threads, two groups.
SPECIFICATION Spec
CONSTANTS
    t0 = t0
    p0 = p0
    p1 = p1
    Thread = {t0, t1, t2}
    Process = {p0, p1}
    Thread0 = t0
    ProcessOf <- MCProcessOf
    Group = {g1, g2}
    Root = Root
    Name = {"n"}
    Caller = {c1, c2}
    Ops = {"fork", "exit", "create", "move", "shares", "subgroup", "destroy"}
    NULL = NULL
SYMMETRY MCSymmetry
INVARIANTS
    TreeInv
    ThreadsListed
    NoUseAfterFree
