SPECIFICATION FairSpec
CONSTANTS
    Goroutine = {g1}
    ConnLog = ConnLog
    RingCap = 2
    Interval = {0, 1, 3, 6}
    Second = 3
    Half = 8
    None = None
INVARIANTS
    NothingUnseen
    TickerKeepsInterval
PROPERTIES
    LogCallsReturn
CHECK_DEADLOCK FALSE
