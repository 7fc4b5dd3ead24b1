SPECIFICATION MCSpec
CONSTANTS
    Borrowers = {a, b, c}
    Null = Null
    DECIMAL_PRECISION = 200
    LUSD_GAS_COMPENSATION = 20
    MIN_NET_DEBT = 200
    LUSD_LIQUIDATION_RESERVE = 4
    LUSD_MINIMUM_NET_DEBT = 200
    UintMax = 2000000000
    DecayFactors = {190}
    Prices = {200, 90}
    Collaterals = {400, 700}
    Loans = {200}
    CollChanges <- MCChanges
    DebtChanges <- MCChanges
    Deposits = {150}
    Redemptions = {260}
    MaxIterations = {0, 1}
    SequenceLengths = {2}
    Batches = {}
    Gifts = {30}
    Draws = {60}
    Benford = {120}
    FunderNeeds = {150}
    MaxTransactions = 7
SYMMETRY BorrowersSymmetry
INVARIANTS
    SupplyBacked
    RedemptionInOrder
    FuzzerExpectations
PROPERTIES
    NormalModeKept
    RecoveryTCRKept
    AdjustmentPredicted
CHECK_DEADLOCK FALSE
