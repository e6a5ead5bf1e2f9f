SPECIFICATION RSpec
CONSTANTS
    LBAs = {0, 8}
    Timestamps = {1, 2}
    MaxLines = 3
    ModeOptions = {"rw", "a"}
    ThreadOptions = {0, 2}
    ContinuousOptions = {2}
    MAX_THREADS = 2
    MaxOldBlks = 1
    INT_BITS = 16
    SortLbas <- MCSort
INVARIANTS AppendsInPlanOrder
PROPERTIES ReplayEnds
