CONSTANTS
    Workers = {w1, w2}
    Main = "main"
    Tasks <- SortTasks
    Calls <- SortCalls
    Gets <- SortTasks
SPECIFICATION PoolFairSpec
PROPERTIES
    SortReturns
CHECK_DEADLOCK FALSE
