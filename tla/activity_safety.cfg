\* Four activity objects: one current, one pending and a stack of two, or the
\* sleep screen besides. Three calls in a pass of the loop.
CONSTANTS
    Act = {a1, a2, a3, a4}
    Null = Null
    MaxCalls = 3
SPECIFICATION Spec
SYMMETRY Symmetry
INVARIANTS
    IInv
    NoCircularWait
    RenderedIsCurrent
    PendingMatchesAction
    ResultForLauncher
    WakeupIsComing
PROPERTIES
    WaitShowsLockedWrites
    ImplementsScreenStack
    PassDescends
