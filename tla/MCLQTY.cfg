SPECIFICATION MCSpec
CONSTANTS
    DECIMAL_PRECISION = 400
    LUSD_GAS_COMPENSATION = 20
    MIN_NET_DEBT = 200
    UintMax = 2000000000
    Depositors = {a, b}
    FrontEnds = {f}
    NoFrontEnd = NoFrontEnd
    SCALE_FACTOR = 20
    ISSUANCE_FACTOR = 280
    LQTYSupplyCap = 100
    MaxMinutes = 2
    MaxScale = 3
    MaxEpoch = 1
    Deposits = {900, 2300}
    Withdrawals = {0, 700, 9999}
    KickbackRates = {320}
    Debts = {430}
    Collaterals = {70}
    Remainders = {0, 30}
    MaxPoolOperations = 7
    Users = {c, d}
    Providers = {c, d}
    NoStake = NoStake
    duration = 3
    lpRewards = 50
    MaxTime = 5
    bounty = 7
    LQTYAmounts = {0, 3, 4}
    LPAmounts = {3, 4}
    Fees = {10}
    MaxFees = 2
    MaxStakingOperations = 7
    Holders = {h, m}
    multisig = m
    bountyAddress = h
    Million = 3
    OneYear = 1
    Amounts = {2}
    Deadlines = {0, 1}
    Recipients = {h, m, "LockupContract"}
    MaxTokenTime = 2
    MaxSigned = 1
    MaxTokenOperations = 4
SYMMETRY UsersSymmetry
INVARIANTS
    ExcessBounded
    StakingSolvent
    RewardPeriodKept
    StakesIndexed
PROPERTIES
    OthersNeverTake
    OnlyAuthorised
CHECK_DEADLOCK FALSE
