SPECIFICATION FairSpec
CONSTANT MaxSlot = 4
CHECK_DEADLOCK FALSE
PROPERTIES
    ImplementsView
    EventuallyCurrent
