CONSTANTS
    HEAD_TOTAL_LEN = 3
    MAX_LENGTH = 4
    FrameSeqs <- MCFrameSeqs
SPECIFICATION RecvFairSpec
INVARIANT
    LeftoverIsHead
CHECK_DEADLOCK FALSE
