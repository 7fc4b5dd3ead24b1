SPECIFICATION MCSpec
CONSTANTS
    Borrowers = {a, b, c}
    Null = Null
    DECIMAL_PRECISION = 200
    LUSD_GAS_COMPENSATION = 20
    MIN_NET_DEBT = 200
    LUSD_LIQUIDATION_RESERVE = 4
    LUSD_MINIMUM_NET_DEBT = 200
    UintMax = 2000000000
    DecayFactors = {100}
    Prices = {200, 70}
    Collaterals = {400, 635}
    Loans = {200, 330}
    CollChanges = {0}
    DebtChanges = {0}
    Deposits = {}
    Redemptions = {}
    MaxIterations = {}
    SequenceLengths = {1}
    Batches = {}
    Gifts = {}
    Draws = {}
    Benford = {}
    FunderNeeds = {}
    MaxTransactions = 6
SYMMETRY BorrowersSymmetry
INVARIANT StaysSorted
CHECK_DEADLOCK FALSE
