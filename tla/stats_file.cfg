CONSTANTS
    Fresh = Fresh
    Stats = {Fresh, s1, s2, s3}
    Missing = Missing
    Torn = Torn
    Newer = Newer
SPECIFICATION Spec
SYMMETRY Symmetry
INVARIANTS
    IInv
    OneStrikeLosesNothing
PROPERTIES
    NewerFormatKept
    ImplementsRegister
