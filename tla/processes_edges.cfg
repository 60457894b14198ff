SPECIFICATION Spec
CONSTANTS
    FD_ARRAY_SIZE = 4
    PID_NUM = 3
    TERMINAL_COUNT = 2
    Statuses <- OneStatus
    Edges <- BootVidmapEdges
INVARIANTS
    FullIsFull
PROPERTIES
    KeptButByStrays
    OthersUntouched
CHECK_DEADLOCK FALSE
