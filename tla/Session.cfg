CONSTANTS
    MAX_SENDQUE = 1
    Parts = 2
    MaxSends = 5
    MaxDrops = 2
    IoThreads = {t1, t2}
    Message = {hello, other}
    Registered = {hello}
    MaxPosts = 3
    HEAD_TOTAL_LEN = 3
    MAX_LENGTH = 4
    FrameSeqs <- MCFrameSeqs
SPECIFICATION SessionSpec
INVARIANTS
    SendTypeOK
    OneWriteOfFront
    NoStall
    TypeOK
    NoLostWakeup
    DealtInOrder
    DrainedAtExit
    InBounds
    PostedExact
    DeliveredExact
PROPERTIES
    ImplementsChannel
    EverySendCompletes
    EveryMsgDealt
    CleanStop
    EveryFramePosted
CHECK_DEADLOCK FALSE
