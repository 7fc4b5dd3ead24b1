SPECIFICATION PriceFeedSpec
CONSTANTS
    Word = 1048576
    Answers <- MCGoodAnswers
    TIMEOUT = 1
    DECIMAL_PRECISION = 1000
    MaxBlock = 4
    MaxMainRounds = 3
    MaxBackupRounds = 2
CHECK_DEADLOCK FALSE
PROPERTIES
    NoDeviatingRoundStored
