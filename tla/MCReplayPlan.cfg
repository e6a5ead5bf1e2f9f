SPECIFICATION Spec
CONSTANTS
    LBAs = {0, 8, 16}
    Timestamps = {1, 2}
    MaxLines = 4
    ModeOptions = {"w", "rw"}
    ThreadOptions = {0, 2, 3, 4}
    ContinuousOptions = {2}
    MAX_THREADS = 3
    INT_BITS = 16
    SortLbas <- MCSort
INVARIANTS TypeOK ShareNeverUnderflows LbaAffinity PlannedOnce TraceOrderPerLba HintsTileContainers HintsFit
