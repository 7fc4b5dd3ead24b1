SPECIFICATION MCSpec
CONSTANTS
    Borrowers = {a, b, c}
    Null = Null
    DECIMAL_PRECISION = 200
    LUSD_GAS_COMPENSATION = 20
    MIN_NET_DEBT = 200
    LUSD_LIQUIDATION_RESERVE = 4
    LUSD_MINIMUM_NET_DEBT = 200
    UintMax = 2000000000
    DecayFactors = {100,190}
    Prices = {200, 90}
    Collaterals = {400, 700}
    Loans = {200}
    CollChanges <- MCChanges
    DebtChanges <- MCChanges
    Deposits = {150}
    Redemptions = {100, 260}
    MaxIterations = {0, 1}
    SequenceLengths = {2}
    Batches = {}
    Gifts = {30}
    Draws = {}
    Benford = {}
    FunderNeeds = {}
    MaxTransactions = 4
INVARIANT ValidatedChangeAccepted
CHECK_DEADLOCK FALSE
