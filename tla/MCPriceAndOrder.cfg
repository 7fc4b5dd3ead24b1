SPECIFICATION MCSpec
CONSTANTS
    Word = 1048576
    Answers <- MCAnswers
    TIMEOUT = 1
    DECIMAL_PRECISION = 1000
    MaxBlock = 3
    MaxMainRounds = 3
    MaxBackupRounds = 2
    Ids = {a, b, c, d}
    Null = Null
    maxSize = 3
    UintMax = 9
    MaxNICR = 3
INVARIANTS
    DoublyLinked
PROPERTIES
    StoredPriceFresh
    ReturnToMainNeedsAgreement
    Recovery
    SortedPreserved
    ImplementsSortedList
    SearchEnds
    HintsExact
CHECK_DEADLOCK FALSE
