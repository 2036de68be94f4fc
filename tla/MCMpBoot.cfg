SPECIFICATION FairSpec
CONSTANTS
    Madt <- MCMadt
    Present = {0, 1, 2, 4}
    BspId = 0
    ApMax = 3
    Frames = {3, 4, 5, 7, 8, 9, 12, 13, 14}
    PoolBlocks = {2, 3}
    PageSize = 2
    TrampolineDelay = "bounded"
    Samples = 7
    Dividend = 12
    PerUsec = 10
    Starts = {5}
    Elapsed = {0, 5, 6}
INVARIANTS
    TypeOK
    OwnStack
    ApListExact
    KernelStacksOwn
    OneshotArmed
PROPERTIES
    StartedArrives
CHECK_DEADLOCK FALSE
