SPECIFICATION MCSpec
CONSTANTS
    TroveIds = {"trove-creation", "trove-adjustment", "trove-closure"}
    LiquidationIds = {"liquidate", "batch-liquidate"}
    EthersIds = {"claim-coll-surplus", "stability-deposit", "stake", "set-price"}
    MaxTransactions = 2
    Wealth = 2
    MaxActivity = 2
    NumBonds = 2
    MaxBondActivity = 2
    pageSize = 1
    MaxTroves = 2
    MaxTableEvents = 4
INVARIANTS AnswersCurrent ViewCurrent
PROPERTIES TransactionsFollowed BondsCatchUp
CHECK_DEADLOCK FALSE
