CONSTANTS
    p1 = p1
    p2 = p2
    Procs <- TwoPrograms
    Sizes <- AllSizes
    MALLOC_PD_START = 10
    MALLOC_PD_SIZE = 2
    MAX_ORDER = 2
    PAGE_SIZE = 8
    FRAMES = 32
    MAX_CALLS = 4
    MAX_FREED = 1
SPECIFICATION Spec
SYMMETRY Programs
INVARIANTS
    SplitAboveGranted
PROPERTIES
    LaterCallsDisjoint
    Allocates
CHECK_DEADLOCK FALSE   \* once MAX_CALLS blocks are granted the programs may call no more
