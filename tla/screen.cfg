CONSTANTS
    TERMINAL_COUNT = 2
    NUM_COLS = 2
    NUM_ROWS = 1
    Letters = {"a"}
    Lines <- MCLines
    VidmapUsers = {0}
    MAX_LINE = 1
SPECIFICATION Spec
INVARIANTS DrawsHome CursorOfShown NeverAnothersPage
PROPERTY OwnScreens
