SPECIFICATION Spec
CONSTANTS
    a = a
    b = b
    p = p
    q = q
    book1 = book1
    book2 = book2
    Device <- Two
    Place <- Places
    Book <- TwoBooks
    Newer <- Two
    MaxEvents = 3
    None = None
VIEW View
SYMMETRY Symmetry
INVARIANTS
    TypeOK
    IInv
    OnlySharedIsOffered
    SharedIsGiven
