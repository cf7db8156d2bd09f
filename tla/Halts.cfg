SPECIFICATION CrankedSpec
CONSTANTS
    ONE = 100
    MaxAccrual = 1
    Reserves <- OneReserve
    Users <- OneUser
    r1 = r1
    u1 = u1
    r2 = r2
    u2 = u2
    Openable <- EveryAccount
    MaxPositions = 2
    MinPartialLiquidationValue = 100
    Amounts <- FewAmounts
    MinCollaterals = {0}
    Prices = {100}
    AccrualRates = {30}
    TimeSteps = {0, 3}
    FlagSettings <- OneFlagOrNone
    Configs <- PoolConfigs
    InitialTokens <- PoolTokens
    FirstSlot = 2
    MaxSlot = 4
PROPERTIES
    HaltsRespected
    CatchesUp
