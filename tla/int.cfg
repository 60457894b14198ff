SPECIFICATION LiveSpec
CONSTANTS
    TERMINAL_COUNT = 3
    Resends = FALSE
INVARIANTS
    ServiceMatchesHandler
PROPERTIES
    EnabledStay
    NoLineFallsSilent
