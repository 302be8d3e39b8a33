SPECIFICATION Spec
CONSTANTS
    a = a
    b = b
    Device <- Two
    Newer <- NoOne
    Calm = FALSE
    MaxEvents = 3
    MaxStats = 1
    None = None
    Lost = Lost
VIEW View
SYMMETRY Readers
INVARIANTS
    TypeOK
    IInv
    BothReadersSynced
    CountedOnce
