CONSTANTS
    p1 = p1
    p2 = p2
    Procs <- TwoPrograms
    Sizes <- PageSizes
    MALLOC_PD_START = 10
    MALLOC_PD_SIZE = 1
    MAX_ORDER = 2
    PAGE_SIZE = 8
    FRAMES = 32
    MAX_CALLS = 4
    MAX_FREED = 0
SPECIFICATION Spec
INVARIANT NoOverlap
