CONSTANTS
    Threads = {"t1", "t2", "t3"}
    Running = {"t2", "t3"}
    Value = {"a", "b", "c", "d"}
    Others = {"pop", "wait", "timed", "steal", "exit"}
    Pop = "pop"
    Program <- MCProgram
    StackProgram <- MCStackProgram
    LockProgram <- MCLockProgram
    MaxCopies = 6
SPECIFICATION FairSpec
INVARIANT
    NothingLost
CHECK_DEADLOCK FALSE
