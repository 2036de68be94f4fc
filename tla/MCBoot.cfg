SPECIFICATION Spec
CONSTANTS
    Bsp = 0
    Aps = {1}
    MaxFrames = 3
INVARIANTS
    TypeOK
    KernelContext
    TimerKept
    Registered
    StopsForCause
PROPERTIES
    BugCheckFinal
CHECK_DEADLOCK FALSE
