SPECIFICATION Spec
CONSTANTS
    NCores = 2
    Procs = {p1, p2, p3, p4}
    InitProc = p0
    NULL = NULL
    Steps = 2
    ProcessIsNull = {FALSE}
PROPERTIES
    QueuedRuns
