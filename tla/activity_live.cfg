CONSTANTS
    Act = {a1, a2, a3}
    Null = Null
    MaxCalls = 1
SPECIFICATION FairSpec
PROPERTIES
    UpdateIsPainted
    WaiterIsReleased
    LoopReturns
