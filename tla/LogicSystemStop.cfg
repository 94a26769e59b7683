CONSTANTS
    IoThreads = {t1, t2}
    Message = {hello, other}
    Registered = {hello}
    MaxPosts = 3
SPECIFICATION FairSpec
PROPERTY
    StopEndsDealMsg
CHECK_DEADLOCK FALSE
