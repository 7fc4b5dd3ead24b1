SPECIFICATION Spec
CONSTANTS
    DECIMAL_PRECISION = 1000
    LUSD_GAS_COMPENSATION = 20
    MIN_NET_DEBT = 200
    LUSD_LIQUIDATION_RESERVE = 4
    LUSD_MINIMUM_NET_DEBT = 200
    UintMax = 2000000000
    SECONDS_IN_ONE_MINUTE = 3
    MINUTE_DECAY_FACTOR = 500
    NoBlock = NoBlock
    UserTroves <- MCUserTroves
    OthersTrove <- MCOthersTrove
    InitialRates = {0, 40}
    TroveRequests <- MCTroveRequests
    Redemptions = {100}
    decayToleranceMinutes = 2
    Steps = {1, 4}
    OtherPrices = {700}
    OtherRedemptions = {200}
    MaxBlocks = 4
    MaxStoreBlocks = 3
    MaxReadOnlyBlocks = 2
    Chains = {main, other}
    deployments = {main}
    MaxEvents = 1
    MaxStarts = 1
    MaxFetches = 2
    Watches = {"totalRedistributed", "trove", "numberOfTroves", "total", "stabilityDeposit", "LUSDInStabilityPool", "LUSDBalance"}
    MaxObservedBlocks = 3
    MaxReads = 2
    PRECISION = 3
    Infinity = 2000000000
    Amounts <- MCAmounts
    Mantissas <- MCMantissas
INVARIANTS DecayPaced StoreConsistent ChangesReported DisplayFaithful
PROPERTY PopulatedAccepted
CHECK_DEADLOCK FALSE
