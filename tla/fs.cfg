CONSTANTS
    a = a
    b = b
    zero = zero
    one = one
    two = two
    NEWLINE = NEWLINE
    NUL = NUL
    SPACE = SPACE
    DOT = DOT
    FD_ARRAY_SIZE = 4
    MAX_FILE_NAME_LENGTH = 2
    BLOCK_SIZE = 2
    NUM_DATA_BLOCKS = 3
    num_inodes = 3
    num_data_blocks = 7
    Dentries <- Disk
    Inodes <- DiskInodes
    OtherNames <- Others
    NearMisses <- Near
    Elf = {0}
    MAGIC = 2
    HEADER = 3
    ReadSizes <- AskedFor
    WORD = 256
    Typed <- Keyed
    lookup <- TwoDigits
    RADIX = 3
    Counts <- CountTo
    CAT_SIZE = 3
    SBUFSIZE = 3
    BUFSIZE = 3
    Patterns <- Sought
    Frames <- FramePair
    Letterings <- DiskLetterings
    Junk <- Garbage
SPECIFICATION FairSpec
INVARIANTS
    TypeOK
    GrepShows
    ProgramsShow
    SyserrPasses
PROPERTIES
    ReadsStreams
    ProgramsEnd
CHECK_DEADLOCK FALSE
