CONSTANTS
    Rounds = 2
    Counts = {0, 1, 2, 3}
    Names = {"LightSlow", "SyncSlow"}
SPECIFICATION RefutedSpec
INVARIANT
    OnlyDoneRead
CHECK_DEADLOCK FALSE
