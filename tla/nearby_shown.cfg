SPECIFICATION Spec
CONSTANTS
    a = a
    b = b
    p = p
    q = q
    book1 = book1
    book2 = book2
    Device <- Two
    Place <- Places
    Book <- OneBook
    Newer <- NoOne
    MaxEvents = 8
    None = None
SYMMETRY Symmetry
INVARIANT
    AppliesWhatIsShown
