SPECIFICATION Spec
CONSTANTS
    FD_ARRAY_SIZE = 3
    PID_NUM = 3
    TERMINAL_COUNT = 2
    Statuses <- OneStatus
    Edges <- WindowEdge
INVARIANTS
    ControlKept
