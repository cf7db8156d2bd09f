SPECIFICATION MarketSpec
CONSTANTS
    ONE = 100
    MaxAccrual = 1
    Reserves <- TwoReserves
    Users <- TwoUsers
    r1 = r1
    r2 = r2
    u1 = u1
    u2 = u2
    Openable <- PledgeAndBorrow
    MaxPositions = 2
    MinPartialLiquidationValue = 100
    Amounts <- LentAmounts
    MinCollaterals = {0}
    Prices = {70, 100}
    AccrualRates = {40}
    TimeSteps = {1}
    FlagSettings <- NoFlags
    Configs <- PlainConfigs
    InitialTokens <- LentTokens
    FirstSlot = 2
    MaxSlot = 3
PROPERTIES
    StaysHealthy
    LiquidationProportional
INVARIANTS
    PositionsMatchAccounts
