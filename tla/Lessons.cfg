CONSTANTS
    Rounds = 2
    Counts = {0, 1, 2, 3}
    PinLength = 1
    Deposit = 1
    Amount = 1
    MaxKeys = 8
    MaxAhead = 2
SPECIFICATION LessonsSpec
INVARIANTS
    MoneyConserved
    AnswersMatch
    AssertsHold
    NoDataRace
PROPERTIES
    AllJoined
CHECK_DEADLOCK FALSE
