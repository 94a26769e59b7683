CONSTANTS
    MaxSessions = 2
    PoolSize = 2
    MaxReqs <- MCMaxReqs
    MAX_SENDQUE = 0
    Unregistered <- MCUnregistered
SPECIFICATION FairSpec
INVARIANTS
    RepliesInOrder
PROPERTIES
    LogicImpl
    SendImpl
    SessionReleased
    StopReturns
CHECK_DEADLOCK FALSE
