SPECIFICATION Spec
CONSTANTS
    NFrames = 16
    Top = 2
    Fan = 2
    HdrLen = 2
    BlockLen = 5
    BootTables <- Stale
    KernelRoot = 1
    KernelTable = 2
    StackPage = 3
    Trees <- MCTrees
    Paths <- MCPaths
    Image <- MCImage
    MaxProcs = 2
    MaxTaken = 3
INVARIANTS
    TypeOK
    FramesAccounted
    BootPackExact
    LoadedExactly
PROPERTIES
    ImplementsAddressSpaces
CHECK_DEADLOCK FALSE
