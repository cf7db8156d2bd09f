SPECIFICATION StartSpec
CONSTANTS
    Reserves = {r1}
    Actions = {"deposit", "withdraw", "borrow", "repay"}
    MaxOperations = 2
    FirstTime = 2
    MaxTime = 3
CHECK_DEADLOCK FALSE
INVARIANTS
    TypeOK
    SuccessMeansDone
    CancelledSentNothing
    OneInFlight
PROPERTIES
    Answered
