CONSTANTS
    Workers = {w1, w2}
    Main = "main"
    Tasks <- MCTasks
    Calls <- MCCalls
    Gets <- MCGets
    MAX_SENDQUE = 1
    Parts = 2
    MaxReqs = 4
    MaxConns = 2
    MaxMsgs = 3
SPECIFICATION AllSpec
INVARIANTS
    NoIdleSleeper
    TakenInOrder
    EchoedInOrder
PROPERTIES
    TasksRun
    PoolsEnd
    SendImpl
    SessionFreed
    EverythingEchoed
    ConnectionFreed
CHECK_DEADLOCK FALSE
