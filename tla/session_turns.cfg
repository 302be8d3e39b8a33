CONSTANTS
    MaxTurns = 2
    MaxFinished = 1
    Missing = Missing
    Torn = Torn
    Newer = Newer
SPECIFICATION Spec
VIEW View
INVARIANT
    EveryTurnIsCounted
