SPECIFICATION SessionSpec
CONSTANTS
    Wallets = {w1, w2}
    None = None
    Accounts = {a1, a2}
    MaxConnects = 3
CHECK_DEADLOCK FALSE
INVARIANTS
    NothingWithoutWallet
    FirstWalletIsRight
PROPERTIES
    BalancesArrive
