SPECIFICATION Spec
CONSTANTS
    Image = {new, old}
    Junk = Junk
    Chunks = 3
    MaxSeq = 4
SYMMETRY Images
INVARIANTS
    BootsComplete
    UpdateTakesEffect
    IInv
PROPERTY
    ImplementsAtomicUpdate
