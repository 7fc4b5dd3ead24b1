SPECIFICATION MCSpec
CONSTANTS
    Borrowers = {a, b, c}
    Null = Null
    NoValue = NoValue
    DECIMAL_PRECISION = 200
    LUSD_GAS_COMPENSATION = 20
    MIN_NET_DEBT = 200
    UintMax = 2000000000
    DecayFactors = {100}
    Prices = {200, 120, 90}
    Collaterals = {400, 700}
    Loans = {200}
    CollChanges = {0}
    DebtChanges = {0, 60}
    Deposits = {150, 260}
    Redemptions = {260}
    MaxIterations = {0}
    SequenceLengths = {2}
    Batches <- MCBatches
    Gifts = {}
    LUSD_LIQUIDATION_RESERVE = 20
    LUSD_MINIMUM_NET_DEBT = 200
    PageSizes = {1, 2}
    BotLimit = 1
    tinyDifference = 8
    MaxTransactions = 7
SYMMETRY BorrowersSymmetry
INVARIANTS
    IndexMatchesSystem
    ReadsAgree
    LiquidationsOffered
    PoolsCover
    TrackedStateAgrees
    LiquidationNeverStuck
CHECK_DEADLOCK FALSE
