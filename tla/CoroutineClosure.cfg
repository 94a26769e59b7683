CONSTANTS
    MAX_SENDQUE = 1
    Parts = 2
    MaxReqs = 3
SPECIFICATION FairSpec
INVARIANTS
    PseudoClosure
CHECK_DEADLOCK FALSE
