CONSTANTS
    BUF_SIZE = 6
    SAVED_COMMANDS_SIZE = 2
    NUM_COLS = 3
    NUM_ROWS = 3
    Letters = {"a", "tab"}
    Keys <- AllKeys
    MAX_LETTERS = 1
    Prints = {"newline"}
    MAX_PRINTED = 0
    ReadSizes = {5}
    Patient = TRUE
    ErasesTabs = FALSE
SPECIFICATION Spec
INVARIANTS
    DisplayMatches
    LatestIsViewable
PROPERTY EditsLines
