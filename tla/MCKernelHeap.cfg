SPECIFICATION Spec
CONSTANTS
    c1 = c1
    c2 = c2
    Callers <- MCCallers
    SlIndexCountLog2 = 2
    FlIndexMax = 5
    Requests = {1, 5, 9}
    Alignments = {4}
    RootPool <- MCRoot
    MorePools <- MCMore
SYMMETRY MCSymmetry
INVARIANTS
    TypeOK
    HeapConsistent
    NothingLost
    RefusedOnlyWithoutBlock
PROPERTIES
    ImplementsHeap
