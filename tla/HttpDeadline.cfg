CONSTANT
    MaxConns = 1
SPECIFICATION FairSpec
PROPERTY
    ShutdownWhileOpen
CHECK_DEADLOCK FALSE
