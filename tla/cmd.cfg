SPECIFICATION CommandsSpec
CONSTANTS
    BUF_SIZE = 6
    MAX_FILE_NAME_LENGTH = 2
    Letters <- TwoLetters
    Programs <- TwoPrograms
    TypedLines <- TidyLines
    ArgSizes <- Sizes
    MAX_DEPTH = 3
INVARIANTS
    RunsFirstWord
    GetsArgument
