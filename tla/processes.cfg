SPECIFICATION FairSpec
CONSTANTS
    FD_ARRAY_SIZE = 3
    PID_NUM = 4
    TERMINAL_COUNT = 2
    Statuses <- OneStatus
    Edges <- NoEdges
INVARIANTS
    TypeOK
    SessionTree
    RunningIsForeground
    Resumable
    ImageFdHeld
    VidmapOwned
PROPERTIES
    FaultReported
    ImplementsSessions
    EveryTerminalRuns
