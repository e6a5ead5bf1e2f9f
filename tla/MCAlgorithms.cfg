SPECIFICATION Spec
CONSTANTS
    Timestamps = {1, 2, 3}
    MaxRecords = 6
    LINE_SIZE = 5
    NL = 1
    MaxFile = 9
    N = 5
    M = 3
    WORD_BITS = 4
    MATRIX_A = 11
    INIT_MULTIPLIER = 5
    DEFAULT_SEED = 6
    TEMPERING <- MCTempering
    BLK_SIZE = 16
    MD5_SIZE = 4
    WORD_SIZE = 2
    LCG_MULTIPLIER = 5
    LCG_INCREMENT = 3
    RandR <- MCRandR
    Md5s <- MCMd5s
    Contexts <- MCContexts
    Draws = 11
    MaxSize = 7
    Granularities = {0, 2, 3}
    SIZE = 16
    STEP = 4
    PAGE_SIZE = 2
    WIDTH = 6
    Ids = {0, 1, 2, 3, 4, 8}
    Cells <- MCCells
    MaxRows = 6
    ONE = 120
INVARIANT SortsStably
INVARIANT OnlyLastLineSuffers
INVARIANT TwisterIsRecurrence
INVARIANT BlockIsFilled
INVARIANT DuplicatesAreKept
 
INVARIANT FilesShareNoPage
 
