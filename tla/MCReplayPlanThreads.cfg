SPECIFICATION Spec
CONSTANTS
    LBAs = {0, 8, 16}
    Timestamps = {1, 2}
    MaxLines = 2
    ModeOptions = {"w", "rw", "a"}
    ThreadOptions = {2}
    ContinuousOptions = {0, 2}
    MAX_THREADS = 3
    INT_BITS = 16
    SortLbas <- MCSort
INVARIANT AcceptedThreadsReplay
