\* Priorities as in the kernel, on a smaller scale.
SPECIFICATION Spec
CONSTANTS
    MAX_RT_PRI = 6
    PRI_MAX = 10
INVARIANT IndexInRange
