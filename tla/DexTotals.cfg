SPECIFICATION DexTradeSpec
CONSTANTS
    ONE = 100
    MaxAccrual = 1
    Reserves <- TwoReserves
    Users <- TwoUsers
    r1 = r1
    r2 = r2
    u1 = u1
    u2 = u2
    Openable <- PledgeAndBorrow
    MaxPositions = 2
    MinPartialLiquidationValue = 100
    Amounts <- DexAmounts
    MinCollaterals = {0}
    Prices = {80, 100}
    AccrualRates = {20}
    TimeSteps = {1}
    FlagSettings <- NoFlags
    Configs <- PlainConfigs
    InitialTokens <- CrossTokens
    CoinLotSize = 2
    PcLotSize = 1
    BestBid = 2
    BestAsk = 1
    TokensPledged = 18
    TokensBorrowed = 12
    TokensLent = 16
    TradeLimits = {0}
    FirstSlot = 2
    MaxSlot = 3
INVARIANTS
    TotalsMatchMints
