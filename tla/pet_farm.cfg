CONSTANTS
    MaxPlots = 2
    MaxTurns = 2
    MaxTime = 2
    Missing = Missing
    Torn = Torn
SPECIFICATION Spec
VIEW View
INVARIANTS
    TypeOK
    IInv
    GrowthIsBounded
    OnlyPagesSinceHatch
PROPERTIES
    LoadKeepsProgress
