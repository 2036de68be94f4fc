SPECIFICATION Spec
CONSTANTS
    c1 = c1
    c2 = c2
    Callers <- MCCallers
    Counts = {1, 2}
    MemMap <- MCMemMap
    PageSize = 1
    Garbage = {0, 16}
INVARIANTS
    TypeOK
    MutualExclusion
    NoDoubleAllocation
    BitmapExact
    BitmapNotHandedOut
    FailureIsCurrent
PROPERTIES
    LockReleased
    ImplementsFrameAlloc
