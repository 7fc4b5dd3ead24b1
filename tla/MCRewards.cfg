SPECIFICATION MCSpec
CONSTANTS
    Borrowers = {a, b}
    Null = Null
    DECIMAL_PRECISION = 200
    LUSD_GAS_COMPENSATION = 20
    MIN_NET_DEBT = 200
    LUSD_LIQUIDATION_RESERVE = 4
    LUSD_MINIMUM_NET_DEBT = 200
    UintMax = 2000000000
    DecayFactors = {100}
    Prices = {2000, 900}
    Collaterals = {40, 1000}
    Loans = {200}
    CollChanges = {0}
    DebtChanges = {0}
    Deposits = {200}
    Redemptions = {}
    MaxIterations = {}
    SequenceLengths = {}
    Batches = {}
    Gifts = {}
    Draws = {}
    Benford = {}
    FunderNeeds = {}
    MaxTransactions = 6
SYMMETRY BorrowersSymmetry
INVARIANT RewardsNoticed
CHECK_DEADLOCK FALSE
