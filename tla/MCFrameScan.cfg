SPECIFICATION Spec
CONSTANTS
    highestFrameIdx = 6
    Counts = {0, 1, 2, 3, 4}
INVARIANTS
    RefusedOnlyWithoutRun
PROPERTIES
    TakesExactlyFirstFit
    SearchEnds
CHECK_DEADLOCK FALSE
