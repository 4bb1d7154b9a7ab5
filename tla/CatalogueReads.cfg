SPECIFICATION Spec
CONSTANTS
    Ids = {1, 2, 3}
    FirstPages <- MCFirstPages
    Sizes <- MCSizes
    Top = 2
    MaxViews = 1
INVARIANTS
    TypeOK
    WalkMissesNothing
    RepeatsAreInserts
    NoneBetterLeftOut
    SentInProductionIsMailed
CHECK_DEADLOCK FALSE
