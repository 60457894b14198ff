SPECIFICATION FairClockSpec
CONSTANTS
    TERMINAL_COUNT = 2
    RTC_MASTER_RATE = 4
    RTC_DEFAULT_RATE = 2
    RTC_MAX_FREQUENCY = 8
    Frequencies <- ServedFrequencies
    OpenMayFail = TRUE
    DEPTH = 3
    MAX_COUNT = 4
INVARIANTS
    TickStillThere
    AccurateClock
PROPERTY
    ReadReturns
