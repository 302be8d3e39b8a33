CONSTANTS
    MaxPlots = 1
    MaxTurns = 3
    MaxTime = 2
    Missing = Missing
    Torn = Torn
SPECIFICATION Spec
VIEW View
INVARIANTS
    PagesCountOnce
