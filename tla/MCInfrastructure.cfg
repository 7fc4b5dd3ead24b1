SPECIFICATION MCSpec
CONSTANTS
    MaxHeight = 4
    MaxConnections = 2
    MaxReceipts = 1
    MaxAttached = 2
    Targets = {x, y}
    BlockTags = {"undefined", "latest", "7"}
    Reverting = {y}
    MaxCalls = 3
    MaxRuns = 3
    Networks = {"mainnet", "dev"}
    DeployParams <- MCDeployParams
    MaxTasks = 2
    MaxReverts = 1
    EtherPrices = {10, 7}
    EtherQuantities = {10, 40}
    CollateralRatios = {125, 200}
    Inattentions = {10}
    OpenCounts = {0, 1}
    CloseCounts = {0, 1}
    StabilityGrowths = {90, 120}
    AtCeiling = {20}
    AtFloor = {40, 50}
    RedemptionRatios = {80}
    initial_open = 2
    MaxPeriods = 2
    MaxSimulated = 3
INVARIANTS OnceDeliversOnce CallsAnswered CompleteRunWires SimulationBalances
PROPERTY WaitReturns
CHECK_DEADLOCK FALSE
