SPECIFICATION Spec
CONSTANTS
    ONE = 10000
    SECONDS_PER_2H = 1
    SECONDS_PER_12H = 2
    SECONDS_PER_DAY = 3
    SECONDS_PER_WEEK = 4
    SECONDS_PER_YEAR = 5
    Curves <- TestCurves
    TokenAmounts = {1, 2}
    Fees = {1}
    MaxDeposits = 2
    MaxDebt = 20001
    MaxTime = 5
INVARIANTS
    TypeOK
    RateWithinCurve
    RefreshNeverPanics
    SplitAccrualsAgree
PROPERTIES
    RateFollowsUtilization
