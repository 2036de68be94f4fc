SPECIFICATION Spec
CONSTANTS
    NCores = 3
    p1 = p1
    p2 = p2
    p3 = p3
    p4 = p4
    p5 = p5
    Procs <- MCProcs
    InitProc = p0
    NULL = NULL
    Steps = 2
    ProcessIsNull = {FALSE}
SYMMETRY MCSymmetry
INVARIANTS
    TypeOK
    QueueLockExcludes
    NelemCountsQueue
    OneHome
    ResumesWhereStopped
    ArbiterBalanced
