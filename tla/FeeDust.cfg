SPECIFICATION Spec
CONSTANTS
    ONE = 100
    MaxAccrual = 1
    Reserves <- OneReserve
    Users <- OneUser
    r1 = r1
    u1 = u1
    r2 = r2
    u2 = u2
    Openable <- EveryAccount
    MaxPositions = 2
    MinPartialLiquidationValue = 100
    Amounts <- PoolAmounts
    MinCollaterals = {0}
    Prices = {100}
    AccrualRates = {30}
    TimeSteps = {2}
    FlagSettings <- NoFlags
    Configs <- PatientConfigs
    InitialTokens <- PoolTokens
    FirstSlot = 2
    MaxSlot = 5
INVARIANTS
    RefreshGetsUpToDate
