SPECIFICATION DexTradeSpec
CONSTANTS
    ONE = 100
    MaxAccrual = 1
    Reserves <- TwoReserves
    Users <- TwoUsers
    r1 = r1
    r2 = r2
    u1 = u1
    u2 = u2
    Openable <- PledgeAndBorrow
    MaxPositions = 2
    MinPartialLiquidationValue = 100
    Amounts <- DexAmounts
    MinCollaterals = {0}
    Prices = {80, 90, 100}
    AccrualRates = {20}
    TimeSteps = {1}
    FlagSettings <- NoFlags
    Configs <- PlainConfigs
    InitialTokens <- CrossTokens
    CoinLotSize = 1
    PcLotSize = 1
    BestBid = 1
    BestAsk = 1
    TokensPledged = 90
    TokensBorrowed = 60
    TokensLent = 80
    TradeLimits = {0}
    FirstSlot = 2
    MaxSlot = 4
INVARIANTS
    NoOrphanDebt
