CONSTANTS
    MaxTurns = 2
    MaxFinished = 1
    Missing = Missing
    Torn = Torn
    Newer = Newer
SPECIFICATION Spec
VIEW View
INVARIANTS
    TypeOK
    IInv
    EpubKeepsTurns
    EditsAreImported
    SavesFollowLoad
PROPERTY
    NoSaveLosesTurns
