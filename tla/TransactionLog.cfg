SPECIFICATION Spec
CONSTANTS
    Transaction = {t1, t2, t3}
    NoTransaction = NoTransaction
    MaxCapacity = 4
    Reconfigure <- GrowingConfig
SYMMETRY Symmetry
INVARIANTS
    PositionsInv
    ServesOnlyPushed
    LenCountsPending
    FrontIsOldest
PROPERTIES
    ImplementsFifo
