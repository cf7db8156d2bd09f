SPECIFICATION Spec
CONSTANTS
    ONE = 10
    MaxAccrual = 1
    Reserves <- ThreeReserves
    r1 = r1
    r2 = r2
    r3 = r3
    MaxPositions = 3
    MinPartialLiquidationValue = 100
    SlotCount = 3
    Unused = Unused
    NoteAmounts = {1}
    MaxAmount = 1
INVARIANTS
    TypeOK
    NoDuplicates
    RecordedWhileOpen
    RegistrationSucceeds
PROPERTIES
    ImplementsPositions
