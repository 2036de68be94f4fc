SPECIFICATION Spec
CONSTANTS
    highestFrameIdx = 6
    Counts = {0, 1, 2, 3, 4}
INVARIANTS
    RefusedOnlyWithoutFrames
CHECK_DEADLOCK FALSE
